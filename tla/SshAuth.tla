------------------------------- MODULE SshAuth -------------------------------
(* How a session logs in: at the jump host, if there is one, and then at the  *)
(* target, at each with a password or a key or with a key and a password, and *)
(* with keyboard-interactive after that if the asset has it enabled.  A       *)
(* server lets a user in when all the methods it needs were passed; when it   *)
(* refuses one, or wants more, it names the methods that may go on.  The      *)
(* prompts and who answers them are the matter of SshConnect.                 *)
EXTENDS Naturals, Sequences

Methods == {"password", "publickey", "kbd"}
Hops == {"jump", "target"}

VARIABLES viaJump,     \* jump_host is set
          auth,        \* auth[h]: the credentials shown at h: jump_auth, auth
          kbEnabled,   \* kb_interactive.enabled
          right,       \* right[h]: the methods the user passes at h
          needs,       \* needs[h]: what the server at h needs
          mute,        \* the servers name no method when they refuse
          hop,         \* where the login is
          at,          \* how far it is there
          left,        \* left[h]: what h still waits for
          remaining,   \* remaining: the methods the last answer named
          mfaUsed,     \* mfa_used
          result       \* "none", "connected" or "failed"

inputVars == <<viaJump, auth, kbEnabled, right, needs, mute>>
authVars == <<inputVars, hop, at, left, remaining, mfaUsed, result>>

(* Credentials, in the order in which they are presented.                     *)
Credentials == {<<"password">>, <<"publickey">>, <<"publickey", "password">>}
Needs == {{"password"}, {"publickey"}, {"kbd"}, {"publickey", "password"},
          {"password", "kbd"}, {"publickey", "kbd"}}

AuthInit ==
  /\ viaJump \in BOOLEAN /\ kbEnabled \in BOOLEAN /\ mute \in BOOLEAN
  /\ auth \in [Hops -> Credentials]
  /\ right \in [Hops -> SUBSET Methods]
  /\ needs \in [Hops -> Needs]
  /\ ~viaJump => /\ needs["jump"] = {"password"}
                 /\ auth["jump"] = <<"password">> /\ right["jump"] = {}
  /\ hop = IF viaJump THEN "jump" ELSE "target"
  /\ at = "connect"
  /\ left = needs
  /\ remaining = {}
  /\ mfaUsed = FALSE
  /\ result = "none"

-----------------------------------------------------------------------------
Stay(to) ==
  /\ at' = to
  /\ UNCHANGED <<inputVars, hop, left, remaining, mfaUsed, result>>

AuthFails ==
  /\ at' = "done" /\ result' = "failed"
  /\ UNCHANGED <<inputVars, hop, left, remaining, mfaUsed>>

(* The connection, or the tunnel through the jump host, is opened and the     *)
(* keys are exchanged, or not, or the server says nothing more.               *)
Reach == at = "connect" /\ (Stay("primary") \/ AuthFails \/ Stay("silent"))

(* A server answers a method: it has let the user in when none is left, and   *)
(* otherwise names what may go on.  To one who is in it answers nothing.      *)
Present(m, next) ==
  IF left[hop] = {} THEN Stay("silent")
  ELSE /\ left' = [left EXCEPT ![hop] = IF m \in right[hop] THEN @ \ {m} ELSE @]
       /\ remaining' = IF mute THEN {} ELSE left'[hop]
       /\ at' = IF left'[hop] = {} THEN next ELSE "judge"
       /\ UNCHANGED <<inputVars, hop, mfaUsed, result>>

(* authenticate_primary: the first credential, and of a key and a password    *)
(* the password only when the key was a success.                              *)
Primary ==
  /\ at = "primary"
  /\ Present(auth[hop][1], IF Len(auth[hop]) = 2 THEN "second" ELSE "judge")
Second == at = "second" /\ Present(auth[hop][2], "judge")

(* The key cannot be read, or the connection is lost over a question.         *)
Breaks == at \in {"primary", "second", "silent"} /\ AuthFails

(* Mutant: who is in after keyboard-interactive is who was asked anywhere.    *)
LoggedInAnywhere(used) ==
  /\ mfaUsed' = (mfaUsed \/ used)
  /\ IF hop = "jump" THEN hop' = "target" /\ at' = "connect" /\ UNCHANGED result
     ELSE at' = "done" /\ result' = "connected" /\ UNCHANGED hop
  /\ UNCHANGED <<inputVars, remaining>>

(* From the jump host the login goes on at the target, and then it is done.   *)
LoggedIn(used) ==
  /\ IF hop = "jump" THEN /\ hop' = "target" /\ at' = "connect"
                          /\ UNCHANGED <<mfaUsed, result>>
     ELSE /\ at' = "done" /\ result' = "connected" /\ mfaUsed' = used
          /\ UNCHANGED hop
  /\ UNCHANGED <<inputVars, remaining>>

(* No method named is taken for a success.                                    *)
Judge ==
  /\ at = "judge"
  /\ IF remaining = {} THEN LoggedIn(FALSE) /\ UNCHANGED left
     ELSE IF kbEnabled /\ "kbd" \in remaining THEN Stay("kbd")
     ELSE AuthFails

(* The prompts are answered, and the server is content with that or not; or   *)
(* they are dropped or time out.                                              *)
Keyboard ==
  /\ at = "kbd"
  /\ LET rest == left[hop] \ {"kbd"}
     IN \/ /\ "kbd" \in right[hop] /\ rest = {}
           /\ left' = [left EXCEPT ![hop] = {}]
           /\ LoggedIn(TRUE)
        \/ AuthFails

(* 370 seconds, for all that connect_and_auth does; the target behind a jump  *)
(* host is logged in to without it.                                           *)
TimesOut ==
  /\ at # "done" /\ (viaJump => hop = "jump")
  /\ AuthFails

AuthNext == Reach \/ Primary \/ Second \/ Breaks \/ Judge \/ Keyboard \/ TimesOut

AuthSpec == AuthInit /\ [][AuthNext]_authVars

-----------------------------------------------------------------------------
Used == IF viaJump THEN Hops ELSE {"target"}

(* A session that is connected was let in by every server on the way, if they *)
(* name methods when they refuse; and it says that a second factor was passed *)
(* exactly if the target, not the jump host, asked for one.                   *)
AuthIsReal ==
  result = "connected" /\ ~mute =>
    /\ \A h \in Used : left[h] = {}
    /\ mfaUsed <=> "kbd" \in needs["target"]

(* What the design says of a key and a password: first the one and then the   *)
(* other, so that a server that needs both is content.                        *)
KeyThenPassword ==
  at = "judge" /\ Len(auth[hop]) = 2 /\ {"publickey", "password"} \subseteq right[hop] =>
    "password" \notin remaining
=============================================================================
