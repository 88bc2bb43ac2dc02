------------------------------ MODULE AssetStore ------------------------------
(* The assets (starhub-sidecar/src/assets.rs): records in one file, which is  *)
(* written aside and renamed, and their secrets in another, which is written  *)
(* in place.  Of a record only whether it refers to a secret is kept.         *)
(* Nothing is cached and nothing is locked; each request has a thread of its  *)
(* own.                                                                       *)
EXTENDS Naturals, FiniteSets

CONSTANTS Upserts,   \* calls of ui.create_asset and ui.update_asset
          Removes,   \* calls of ui.delete_asset
          Others,    \* calls of ui.set_ai_model_api_key and ui.delete_ai_model_api_key
          Ids,       \* the assets they are about
          Nobody     \* no file

ASSUME AssetAssumption ==
  /\ Upserts \cap Removes = {} /\ Others \cap (Upserts \cup Removes) = {}
  /\ Nobody \notin Upserts \cup Removes \cup Others
  /\ "secrets" \notin Upserts \cup Removes \cup Others \cup {Nobody}

Editors == Upserts \cup Removes
Writers == Editors \cup Others

(* A file of records is named after the call that created it.                 *)
VARIABLES main,      \* the file that has the name of the asset file
          aside,     \* the file that has the temporary name
          body,      \* body[f]: the records in file f
          keys,      \* the assets whose secrets are in the file of secrets
          torn,      \* the files that hold no document
          step,      \* step[c]: how far call c is
          about,     \* about[c]: its asset
          brings,    \* brings[c]: it brings a secret
          copy,      \* copy[c]: its copy of the records
          kept,      \* kept[c]: its copy of the secrets
          held,      \* held[c]: the file it has open
          overlap,   \* the calls that ran while another one did (history)
          down       \* the process has been restarted (history)

assetVars == <<main, aside, body, keys, torn, step, about, brings, copy, kept,
               held, overlap, down>>
fileVars == <<main, aside, body, keys, torn>>
callVars == <<about, brings, overlap, down>>

Keys == "secrets"     \* the file of secrets, among the torn ones
Records == [ids : SUBSET Ids, keyed : SUBSET Ids]
Empty == [ids |-> {}, keyed |-> {}]

AssetTypeOK ==
  /\ main \in Writers \cup {Nobody}
  /\ aside \in Writers \cup {Nobody}
  /\ body \in [Writers \cup {Nobody} -> Records]
  /\ keys \subseteq Ids
  /\ torn \subseteq Writers \cup {Keys}
  /\ step \in [Writers -> {"idle", "read", "keys", "emptyKeys", "fillKeys",
                           "open", "fill", "rename", "ok", "failed", "cut"}]
  /\ about \in [Editors -> Ids]
  /\ brings \in [Editors -> BOOLEAN]
  /\ copy \in [Writers -> Records]
  /\ kept \in [Writers -> SUBSET Ids]
  /\ held \in [Writers -> Writers \cup {Nobody}]
  /\ overlap \subseteq Writers
  /\ down \in BOOLEAN

AssetInit ==
  /\ main = Nobody /\ aside = Nobody
  /\ body = [f \in Writers \cup {Nobody} |-> Empty]
  /\ keys = {} /\ torn = {}
  /\ step = [c \in Writers |-> "idle"]
  /\ about \in [Editors -> Ids]
  /\ brings \in [Editors -> BOOLEAN]
  /\ copy = [c \in Writers |-> Empty]
  /\ kept = [c \in Writers |-> {}]
  /\ held = [c \in Writers |-> Nobody]
  /\ overlap = {} /\ down = FALSE

Busy == {c \in Writers : step[c] \notin {"idle", "ok", "failed", "cut"}}
To(c, there) == step' = [step EXCEPT ![c] = there]

Call(c) ==
  /\ step[c] = "idle"
  /\ To(c, IF c \in Others THEN "keys" ELSE "read")
  /\ overlap' = IF Busy = {} THEN overlap ELSE overlap \cup Busy \cup {c}
  /\ UNCHANGED <<fileVars, about, brings, copy, kept, held, down>>

-----------------------------------------------------------------------------
(* read_records: a missing file is an empty one, one that cannot be parsed    *)
(* fails the call.                                                            *)
ReadFails(c) ==
  /\ step[c] = "read"
  /\ main \in torn
  /\ To(c, "failed")
  /\ UNCHANGED <<fileVars, callVars, copy, kept, held>>

(* Mutant: an update writes the record it is about.                           *)
ChangedAlone(c, doc) ==
  IF c \in Upserts
  THEN [ids |-> {about[c]},
        keyed |-> IF brings[c] THEN {about[c]} ELSE doc.keyed \cap {about[c]}]
  ELSE [ids |-> doc.ids \ {about[c]}, keyed |-> doc.keyed \ {about[c]}]

(* upsert: a secret that is brought is stored and the record refers to it, a  *)
(* record without one goes on referring to what it had.  Where the call goes  *)
(* on from here depends on the secrets.                                       *)
Changed(c, doc) ==
  IF c \in Upserts
  THEN [ids |-> doc.ids \cup {about[c]},
        keyed |-> IF brings[c] THEN doc.keyed \cup {about[c]} ELSE doc.keyed]
  ELSE [ids |-> doc.ids \ {about[c]}, keyed |-> doc.keyed \ {about[c]}]

ReadRecords(c) ==
  /\ step[c] = "read"
  /\ main \notin torn
  /\ c \in Removes => about[c] \in body[main].ids
  /\ copy' = [copy EXCEPT ![c] = Changed(c, body[main])]
  /\ To(c, IF (c \in Upserts /\ brings[c]) \/ (c \in Removes /\ about[c] \in body[main].keyed)
           THEN "keys" ELSE "open")
  /\ UNCHANGED <<fileVars, callVars, kept, held>>

(* remove: there is no such asset.                                            *)
Missing(c) ==
  /\ step[c] = "read"
  /\ c \in Removes
  /\ main \notin torn /\ about[c] \notin body[main].ids
  /\ To(c, "failed")
  /\ UNCHANGED <<fileVars, callVars, copy, kept, held>>

-----------------------------------------------------------------------------
(* store, delete: the secret of the asset; that of a model has a name no      *)
(* asset's has, and is left out.                                              *)
KeysAfter(c) ==
  CASE c \in Upserts -> keys \cup {about[c]}
    [] c \in Removes -> keys \ {about[c]}
    [] c \in Others  -> keys

(* FileSecretStore: read_all, then write_all, which empties the file first ...*)
ReadKeys(c) ==
  /\ step[c] = "keys"
  /\ IF Keys \in torn THEN To(c, "failed") /\ UNCHANGED kept
     ELSE kept' = [kept EXCEPT ![c] = KeysAfter(c)] /\ To(c, "emptyKeys")
  /\ UNCHANGED <<fileVars, callVars, copy, held>>

EmptyKeys(c) ==
  /\ step[c] = "emptyKeys"
  /\ \/ To(c, "fillKeys") /\ keys' = {} /\ torn' = torn \cup {Keys}
     \/ To(c, "failed") /\ UNCHANGED <<keys, torn>>
  /\ UNCHANGED <<main, aside, body, callVars, copy, kept, held>>

FillKeys(c) ==
  /\ step[c] = "fillKeys"
  /\ \/ keys' = kept[c] /\ torn' = torn \ {Keys}
     \/ Keys \notin torn /\ keys' = {} /\ torn' = torn \cup {Keys}
  /\ To(c, IF c \in Others THEN "ok" ELSE "open")
  /\ UNCHANGED <<main, aside, body, callVars, copy, kept, held>>

(* ... and may fail with nothing or a part of the document written.           *)
FillKeysFails(c) ==
  /\ step[c] = "fillKeys"
  /\ \/ UNCHANGED <<keys, torn>>
     \/ keys' = {} /\ torn' = torn \cup {Keys}
  /\ To(c, "cut")
  /\ UNCHANGED <<main, aside, body, callVars, copy, kept, held>>

-----------------------------------------------------------------------------
(* Mutant: the asset file is written in place.                                *)
OpenMain(c) ==
  /\ step[c] = "open"
  /\ LET f == IF main = Nobody THEN c ELSE main
     IN  /\ main' = f /\ aside' = f
         /\ held' = [held EXCEPT ![c] = f]
         /\ body' = [body EXCEPT ![f] = Empty]
         /\ torn' = torn \cup {f}
  /\ To(c, "fill")
  /\ UNCHANGED <<keys, callVars, copy, kept>>

(* write_records: the temporary file is created, or emptied if another call   *)
(* has it open already, ...                                                   *)
OpenAside(c) ==
  /\ step[c] = "open"
  /\ \/ /\ LET f == IF aside = Nobody THEN c ELSE aside
           IN  /\ aside' = f
               /\ held' = [held EXCEPT ![c] = f]
               /\ body' = [body EXCEPT ![f] = Empty]
               /\ torn' = torn \cup {f}
        /\ To(c, "fill")
     \/ To(c, "failed") /\ UNCHANGED <<aside, held, body, torn>>
  /\ UNCHANGED <<main, keys, callVars, copy, kept>>

(* ... filled, whatever it is called by now; over what another call has       *)
(* written since the result may be a mixture, ...                             *)
FillAside(c) ==
  /\ step[c] = "fill"
  /\ \/ /\ body' = [body EXCEPT ![held[c]] = copy[c]]
        /\ torn' = torn \ {held[c]}
     \/ /\ held[c] \notin torn
        /\ body' = [body EXCEPT ![held[c]] = Empty]
        /\ torn' = torn \cup {held[c]}
  /\ To(c, "rename")
  /\ UNCHANGED <<main, aside, keys, callVars, copy, kept, held>>

(* ... (or not, or a part of it, if the disk is full), ...                     *)
FillAsideFails(c) ==
  /\ step[c] = "fill"
  /\ \/ UNCHANGED <<body, torn>>
     \/ body' = [body EXCEPT ![held[c]] = Empty] /\ torn' = torn \cup {held[c]}
  /\ To(c, "failed")
  /\ UNCHANGED <<main, aside, keys, callVars, copy, kept, held>>

(* ... and what has the temporary name by now takes the place of the assets;  *)
(* that may fail, and does if another call was faster and nothing has it.     *)
Rename(c) ==
  /\ step[c] = "rename"
  /\ \/ aside # Nobody /\ main' = aside /\ aside' = Nobody /\ To(c, "ok")
     \/ To(c, "failed") /\ UNCHANGED <<main, aside>>
  /\ UNCHANGED <<body, keys, torn, callVars, copy, kept, held>>

(* The process ends and is started again.                                     *)
Restart ==
  /\ ~down
  /\ down' = TRUE
  /\ step' = [c \in Writers |-> IF c \in Busy THEN "failed" ELSE step[c]]
  /\ UNCHANGED <<fileVars, about, brings, copy, kept, held, overlap>>

AssetNext ==
  \/ \E c \in Writers :
       \/ Call(c) \/ ReadFails(c) \/ ReadRecords(c) \/ Missing(c)
       \/ ReadKeys(c) \/ EmptyKeys(c) \/ FillKeys(c) \/ FillKeysFails(c)
       \/ OpenAside(c) \/ FillAside(c) \/ FillAsideFails(c) \/ Rename(c)
  \/ Restart

AssetSpec == AssetInit /\ [][AssetNext]_assetVars

-----------------------------------------------------------------------------
(* As long as no two calls overlap, the records can be read at any time, even *)
(* after a restart or a failure in the middle of a write; and a record that   *)
(* refers to a secret finds it, unless its removal was begun or the secrets   *)
(* themselves are being written, or their writing failed or was cut off by    *)
(* the end of the process.                                                    *)
RecordsFindSecrets ==
  overlap = {} =>
    /\ main \notin torn
    /\ Keys \in torn => down \/ \E c \in Writers : step[c] \in {"fillKeys", "cut"}
    /\ \A i \in body[main].keyed :
         i \in keys \/ Keys \in torn \/ \E c \in Removes : about[c] = i /\ step[c] # "idle"

(* An asset whose creation was answered with success is there, as long as no  *)
(* call overlapped its own and nothing removes it, however later calls run    *)
(* into each other, if only the file can still be read.                       *)
CreatedStays ==
  \A c \in Upserts \ overlap :
    step[c] = "ok" /\ main \notin torn =>
      about[c] \in body[main].ids \/ \E r \in Removes : about[r] = about[c] /\ step[r] # "idle"
=============================================================================
