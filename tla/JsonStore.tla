------------------------------ MODULE JsonStore ------------------------------
(* The stores that keep one JSON document in a file: the audit log, the alert *)
(* rules and the known hosts, which cache it, and the settings, which do not. *)
(* All of them load the document, change their copy and write the whole file  *)
(* in place; each request has a thread of its own, and no lock spans the      *)
(* three steps.  The stores share nothing: one of them is modelled at a time. *)
EXTENDS Naturals, FiniteSets

CONSTANTS Adds,        \* the calls that add a row of their own
          Drops,       \* the calls that remove rows
          Keep         \* how many rows an audit log keeps (MAX_AUDIT_ROWS)

ASSUME StoreAssumption ==
  /\ Adds \cap Drops = {}
  /\ IsFiniteSet(Adds)
  /\ Keep \in Nat \ {0}

(* The file of secrets is written as the settings are; see AssetStore.        *)
Stores == {"audit", "alerts", "hosts", "settings"}
Cached == {"audit", "alerts", "hosts"}
Ops == Adds \cup Drops

VARIABLES store,     \* which of the stores this is
          file,      \* the document on disk
          broken,    \* what is on disk is no document
          cache,     \* the document in memory
          loaded,    \* there is one in memory
          at,        \* at[o]: how far call o is
          doc,       \* doc[o]: its copy of the document
          stamp,     \* stamp[r]: the order in which the rows were made
          clashed,   \* the calls that ran while another one did (history)
          crashed    \* the process has been restarted (history)

storeVars == <<store, file, broken, cache, loaded, at, doc, stamp, clashed, crashed>>

diskVars == <<file, broken>>
cacheVars == <<cache, loaded>>

(* A row is named after the call that adds it.                                *)
Documents == SUBSET Adds

StoreTypeOK ==
  /\ store \in Stores
  /\ file \in Documents /\ broken \in {"no", "empty", "mixed"}
  /\ cache \in Documents /\ loaded \in BOOLEAN
  /\ at \in [Ops -> {"idle", "load", "change", "open", "fill", "cache",
                    "ok", "failed", "cut"}]
  /\ doc \in [Ops -> Documents]
  /\ stamp \in [Adds -> Nat]
  /\ clashed \subseteq Ops
  /\ crashed \in BOOLEAN

StoreInit ==
  /\ store \in Stores
  /\ file = {} /\ broken = "no"
  /\ cache = {} /\ loaded = FALSE
  /\ at = [o \in Ops |-> "idle"]
  /\ doc = [o \in Ops |-> {}]
  /\ stamp = [r \in Adds |-> 0]
  /\ clashed = {}
  /\ crashed = FALSE

Running == {o \in Ops : at[o] \notin {"idle", "ok", "failed", "cut"}}
Go(o, to) == at' = [at EXCEPT ![o] = to]

-----------------------------------------------------------------------------
(* A rule is deleted and a setting removed by name; the log is cleared; known *)
(* hosts are never removed.                                                   *)
Begin(o) ==
  /\ at[o] = "idle"
  /\ o \in Drops => store # "hosts"
  /\ Go(o, "load")
  /\ stamp' = IF o \in Adds
              THEN [stamp EXCEPT ![o] = Cardinality({r \in Adds : stamp[r] > 0}) + 1]
              ELSE stamp
  /\ clashed' = IF Running = {} THEN clashed ELSE clashed \cup Running \cup {o}
  /\ UNCHANGED <<store, diskVars, cacheVars, doc, crashed>>

(* load, load_document, read_all: the cache if there is one, ...              *)
LoadCache(o) ==
  /\ at[o] = "load"
  /\ loaded
  /\ doc' = [doc EXCEPT ![o] = cache]
  /\ Go(o, "change")
  /\ UNCHANGED <<store, diskVars, cacheVars, stamp, clashed, crashed>>

(* ... else the file, whose document the stores with a cache put there; ...   *)
LoadFile(o) ==
  /\ at[o] = "load"
  /\ ~loaded /\ broken = "no"
  /\ doc' = [doc EXCEPT ![o] = file]
  /\ IF store \in Cached THEN cache' = file /\ loaded' = TRUE ELSE UNCHANGED cacheVars
  /\ Go(o, "change")
  /\ UNCHANGED <<store, diskVars, stamp, clashed, crashed>>

(* ... a file that cannot be parsed fails the call.                           *)
LoadFails(o) ==
  /\ at[o] = "load"
  /\ ~loaded /\ broken # "no"
  /\ Go(o, "failed")
  /\ UNCHANGED <<store, diskVars, cacheVars, doc, stamp, clashed, crashed>>

(* trim_to_max: the oldest rows go first.                                     *)
Newest(rows) ==
  {r \in rows : Cardinality({s \in rows : stamp[s] > stamp[r]}) < Keep}

Trimmed(rows) == IF store = "audit" THEN Newest(rows) ELSE rows

(* What a call makes of its copy.                                             *)
Put(o, rows) ==
  /\ at[o] = "change"
  /\ doc' = [doc EXCEPT ![o] = rows]
  /\ Go(o, "open")
  /\ UNCHANGED <<store, diskVars, cacheVars, stamp, clashed, crashed>>

Insert(o)  == store = "audit" /\ o \in Adds /\ Put(o, Trimmed(doc[o] \cup {o}))
CreateRule(o)  == store = "alerts" /\ o \in Adds /\ Put(o, doc[o] \cup {o})
AddHost(o) == store = "hosts" /\ o \in Adds /\ Put(o, doc[o] \cup {o})
Set(o)     == store = "settings" /\ o \in Adds /\ Put(o, doc[o] \cup {o})

ClearLog(o)   == store = "audit" /\ o \in Drops /\ Put(o, {})
Remove(o)  == store = "settings" /\ o \in Drops /\ \E r \in Adds : Put(o, doc[o] \ {r})
Delete(o)  == store = "alerts" /\ o \in Drops /\ \E r \in doc[o] : Put(o, doc[o] \ {r})

(* An update changes a rule that is there; what is in a rule is not modelled. *)
Update(o)  == store = "alerts" /\ o \in Drops /\ doc[o] # {} /\ Put(o, doc[o])

(* A rule that is not there can be neither changed nor deleted.               *)
NotFound(o) ==
  /\ at[o] = "change" /\ o \in Drops
  /\ store = "alerts" /\ doc[o] # Adds
  /\ Go(o, "failed")
  /\ UNCHANGED <<store, diskVars, cacheVars, doc, stamp, clashed, crashed>>

(* persist: the file is opened, which empties it, and then filled; what two   *)
(* calls write into it at once may be the last one's or end in a rest of the  *)
(* other's.  It may fail before it begins, ...                                *)
Open(o) ==
  /\ at[o] = "open"
  /\ \/ Go(o, "fill") /\ broken' = "empty" /\ file' = {}
     \/ Go(o, "failed") /\ UNCHANGED diskVars
  /\ UNCHANGED <<store, cacheVars, doc, stamp, clashed, crashed>>

Fill(o) ==
  /\ at[o] = "fill"
  /\ \/ file' = doc[o] /\ broken' = "no"
     \/ file' = {} /\ broken' = "mixed" /\ broken # "empty"
  /\ Go(o, IF store \in Cached THEN "cache" ELSE "ok")
  /\ UNCHANGED <<store, cacheVars, doc, stamp, clashed, crashed>>

(* ... or with nothing or a part of the document written: the disk is full.   *)
FillFails(o) ==
  /\ at[o] = "fill"
  /\ \/ UNCHANGED diskVars
     \/ file' = {} /\ broken' = "mixed"
  /\ Go(o, "cut")
  /\ UNCHANGED <<store, cacheVars, doc, stamp, clashed, crashed>>

(* Mutant: the cache is left as it was loaded.                                *)
ForgetCache(o) ==
  /\ at[o] = "cache"
  /\ Go(o, "ok")
  /\ UNCHANGED <<store, diskVars, cacheVars, doc, stamp, clashed, crashed>>

Cache(o) ==
  /\ at[o] = "cache"
  /\ cache' = doc[o] /\ loaded' = TRUE
  /\ Go(o, "ok")
  /\ UNCHANGED <<store, diskVars, doc, stamp, clashed, crashed>>

(* The process ends and is started again: calls and cache are gone.           *)
Crash ==
  /\ ~crashed
  /\ crashed' = TRUE
  /\ at' = [o \in Ops |-> IF o \in Running THEN "failed" ELSE at[o]]
  /\ cache' = {} /\ loaded' = FALSE
  /\ UNCHANGED <<store, diskVars, doc, stamp, clashed>>

StoreNext ==
  \/ \E o \in Ops :
       \/ Begin(o) \/ LoadCache(o) \/ LoadFile(o) \/ LoadFails(o)
       \/ Insert(o) \/ CreateRule(o) \/ AddHost(o) \/ Set(o)
       \/ ClearLog(o) \/ Remove(o) \/ Delete(o) \/ Update(o) \/ NotFound(o)
       \/ Open(o) \/ Fill(o) \/ FillFails(o) \/ Cache(o)
  \/ Crash

StoreSpec == StoreInit /\ [][StoreNext]_storeVars

-----------------------------------------------------------------------------
Dropped == \E d \in Drops : at[d] # "idle"

(* Nothing removed the row: no call that removes has begun, and an audit log  *)
(* holds no Keep younger rows.                                                *)
Due(o) ==
  /\ at[o] = "ok"
  /\ ~Dropped
  /\ store = "audit" => Cardinality({r \in Adds : stamp[r] > stamp[o]}) < Keep

(* What a call has added while it ran alone stays, whatever runs at once      *)
(* later: it is in the file, or the file is broken, and the document that is  *)
(* cached, with which the next call writes the file anew, has it too.  The    *)
(* file can be read unless it is being written, a write failed, two calls     *)
(* wrote at once or the process ended in a write.                             *)
RowsStay ==
  /\ broken # "no" =>
       crashed \/ clashed # {} \/ \E o \in Ops : at[o] \in {"fill", "cut"}
  /\ \A o \in Adds \ clashed : Due(o) =>
       /\ broken # "no" \/ o \in file
       /\ loaded => o \in cache

(* Claim of audit_store.rs:136: a change is made and written under the lock,  *)
(* so that a row that was recorded is kept.                                   *)
AuditRowsKept ==
  store = "audit" /\ Running = {} /\ ~crashed /\ (\A c \in Ops : at[c] # "cut") =>
    \A o \in Adds : Due(o) => broken = "no" /\ o \in file
=============================================================================
