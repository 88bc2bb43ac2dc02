------------------------------ MODULE SshTables ------------------------------
(* The tables of SshManager (starhub-domain-ssh/src/manager.rs), shared by  *)
(* every call of the ssh methods: the attempt generation of each session    *)
(* id, the registered session, the write channel of its shell, and the      *)
(* prompts that wait for the user.  An SshSession object is named after the *)
(* connect_session call that creates it.                                    *)
(*                                                                          *)
(* Each table has a mutex of its own.  Most critical sections await nothing *)
(* and are one step; the two that wait for a session's lock inside theirs   *)
(* (drop_session in the session table, ssh_get_sessions in the channel      *)
(* table) show as tableHeld and channelsHeld.                               *)
EXTENDS Naturals

CONSTANTS Ids,           \* session ids
          Connects,      \* connect_session calls, and the sessions they make
          Calls,         \* tool calls that run a command (SshExec)
          Listers,       \* ssh_get_sessions calls (SshExec)
          Nobody, NoEntry

ASSUME TablesAssumption ==
  /\ Nobody \notin Connects \cup Calls \cup Listers
  /\ Connects \cap Calls = {}
  /\ NoEntry \notin [gen : Nat, tx : Connects \cup Calls]

VARIABLES
  attempts,      \* attempts[id]: current generation, 0 before the first one
  sessions,      \* sessions[id]: the registered session, or Nobody
  channels,      \* channels[id]: (generation, sender) of the write channel
  pending,       \* pending[kind][id]: who waits for the user's answer
  link,          \* link[c]: the connection of session c
  lock,          \* lock[c]: the call that holds session c's mutex
  tableHeld,     \* who keeps the session table locked across an await
  channelsHeld   \* who keeps the channel table locked across an await

tableVars == <<attempts, sessions, channels, pending, link, lock,
               tableHeld, channelsHeld>>

Kinds == {"hostkey", "kb", "bastion"}
Entries == [gen : Nat, tx : Connects \cup Calls]

TablesTypeOK ==
  /\ attempts \in [Ids -> Nat]
  /\ sessions \in [Ids -> Connects \cup {Nobody}]
  /\ channels \in [Ids -> Entries \cup {NoEntry}]
  /\ pending \in [Kinds -> [Ids -> Connects \cup Calls \cup {Nobody}]]
  /\ link \in [Connects -> {"none", "up", "lost", "dead"}]
  /\ lock \in [Connects -> Calls \cup {Nobody}]
  /\ tableHeld \in Calls \cup {Nobody}
  /\ channelsHeld \in Listers \cup {Nobody}

TablesInit ==
  /\ attempts = [id \in Ids |-> 0]
  /\ sessions = [id \in Ids |-> Nobody]
  /\ channels = [id \in Ids |-> NoEntry]
  /\ pending = [kind \in Kinds |-> [id \in Ids |-> Nobody]]
  /\ link = [c \in Connects |-> "none"]
  /\ lock = [c \in Connects |-> Nobody]
  /\ tableHeld = Nobody
  /\ channelsHeld = Nobody

-----------------------------------------------------------------------------
TableFree == tableHeld = Nobody
ChannelsFree == channelsHeld = Nobody

(* begin_attempt; invalidate_attempt is the same.  The width of the counter *)
(* does not matter: nobody makes 2^64 attempts.                             *)
BeginAttempt(id) == attempts' = [attempts EXCEPT ![id] = @ + 1]

IsCurrent(id, generation) == attempts[id] = generation

(* The guard of invalidate_attempt_if_current; None never hits.             *)
GuardHits(id, guard) == guard # 0 /\ IsCurrent(id, guard)

(* remove_channel_for_attempt.                                              *)
RemoveChannelForAttempt(id, generation) ==
  channels' = [channels EXCEPT
    ![id] = IF @ # NoEntry /\ @.gen = generation THEN NoEntry ELSE @]

InsertChannel(id, generation, tx) ==
  channels' = [channels EXCEPT ![id] = [gen |-> generation, tx |-> tx]]

RegisterPrompt(kind, id, p) == pending' = [pending EXCEPT ![kind][id] = p]

RemovePrompt(kind, id) == pending' = [pending EXCEPT ![kind][id] = Nobody]

(* The three removals that end a disconnect and a drop; nothing reads two   *)
(* of the prompt tables together, so they are one step.                     *)
ForgetPrompts(id) ==
  pending' = [kind \in Kinds |-> [pending[kind] EXCEPT ![id] = Nobody]]

(* SshSession::disconnect.                                                  *)
Hang(c) == link' = [link EXCEPT ![c] = "dead"]
=============================================================================
