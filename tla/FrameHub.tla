------------------------------- MODULE FrameHub -------------------------------
(***************************************************************************)
(* The frame hub of the live view (starhub-live/src/hub.rs): the table of  *)
(* open channels and the table of one-time tokens.                         *)
(*                                                                         *)
(* A channel id (android:<serial>) may be opened, closed and opened again, *)
(* and every opening allocates a new Channel object.  Those objects are    *)
(* shared by reference: a connection keeps the object it was admitted to   *)
(* after the hub has dropped it from its table.  A handle of this module   *)
(* is the identity of one such object.                                     *)
(*                                                                         *)
(* The module has no next-state relation: LiveServer, LiveSource and       *)
(* LiveTakeover compose these operations with the threads that call them.  *)
(* One operator is one critical section of the code.                       *)
(***************************************************************************)
EXTENDS Naturals, FiniteSets

CONSTANTS
  Ids,        \* the channel ids in use
  Handles,    \* the identities of the Channel objects ever allocated
  Tokens,     \* the one-time tokens ever drawn
  UsizeMod,   \* an AtomicUsize counts modulo this number
  NoId, NoChannel,
  Unissued, Spent

ASSUME HubAssumption ==
  /\ UsizeMod \in Nat \ {0, 1}
  /\ NoId \notin Ids
  /\ NoChannel \notin Handles
  /\ Unissued # Spent
  /\ Unissued \notin Ids
  /\ Spent \notin Ids

VARIABLES
  channels,     \* id -> handle of the registered channel, or NoChannel
  chanId,       \* handle -> its id, NoId while the handle is unallocated
  subscribers,  \* handle -> the channel's subscriber counter
  closed,       \* handle -> the channel's closed flag
  tokens        \* token -> the id it admits to; Unissued; Spent once removed

hubVars == <<channels, chanId, subscribers, closed, tokens>>

HubTypeOK ==
  /\ channels \in [Ids -> Handles \cup {NoChannel}]
  /\ chanId \in [Handles -> Ids \cup {NoId}]
  /\ subscribers \in [Handles -> 0 .. UsizeMod - 1]
  /\ closed \in [Handles -> BOOLEAN]
  /\ tokens \in [Tokens -> Ids \cup {Unissued, Spent}]

HubInit ==
  /\ channels = [id \in Ids |-> NoChannel]
  /\ chanId = [h \in Handles |-> NoId]
  /\ subscribers = [h \in Handles |-> 0]
  /\ closed = [h \in Handles |-> FALSE]
  /\ tokens = [t \in Tokens |-> Unissued]

-----------------------------------------------------------------------------
(* FrameHub::open, under the table's lock: the registered channel if there *)
(* is one, a newly allocated one otherwise.  h is the handle it returns.   *)
HubOpen(id, h) ==
  \/ /\ channels[id] = h
     /\ h # NoChannel
     /\ closed' = [closed EXCEPT ![h] = FALSE]
     /\ UNCHANGED <<channels, chanId, subscribers, tokens>>
  \/ /\ channels[id] = NoChannel
     /\ chanId[h] = NoId
     /\ channels' = [channels EXCEPT ![id] = h]
     /\ chanId' = [chanId EXCEPT ![h] = id]
     /\ subscribers' = [subscribers EXCEPT ![h] = 0]
     /\ closed' = [closed EXCEPT ![h] = FALSE]
     /\ UNCHANGED tokens

(* Mutant: the channel is unregistered and its counter zeroed, unflagged.  *)
HubUnregisterUnflagged(id) ==
  /\ channels' = [channels EXCEPT ![id] = NoChannel]
  /\ subscribers' = [h \in Handles |->
                       IF h = channels[id] THEN 0 ELSE subscribers[h]]
  /\ UNCHANGED <<chanId, closed, tokens>>

(* First half of FrameHub::close, under the table's lock: whatever channel *)
(* is registered under id is unregistered, flagged and its counter zeroed. *)
HubUnregister(id) ==
  /\ channels' = [channels EXCEPT ![id] = NoChannel]
  /\ closed' = [h \in Handles |-> closed[h] \/ h = channels[id]]
  /\ subscribers' = [h \in Handles |->
                       IF h = channels[id] THEN 0 ELSE subscribers[h]]
  /\ UNCHANGED <<chanId, tokens>>

(* Second half of FrameHub::close, under the other lock: the tokens of id  *)
(* are dropped.                                                            *)
HubDropTokens(id) ==
  /\ tokens' = [t \in Tokens |-> IF tokens[t] = id THEN Spent ELSE tokens[t]]
  /\ UNCHANGED <<channels, chanId, subscribers, closed>>

(* The insertion at the end of FrameHub::issue_token: a fresh uuid.        *)
HubAddToken(t, id) ==
  /\ tokens[t] = Unissued
  /\ tokens' = [tokens EXCEPT ![t] = id]
  /\ UNCHANGED <<channels, chanId, subscribers, closed>>

(* The removal at the start of FrameHub::redeem.                           *)
HubTakeToken(t) ==
  /\ tokens[t] \in Ids
  /\ tokens' = [tokens EXCEPT ![t] = Spent]
  /\ UNCHANGED <<channels, chanId, subscribers, closed>>

(* Channel::subscribe and Channel::unsubscribe act on the object, whether  *)
(* or not it is still registered.                                          *)
ChanSubscribe(h) ==
  /\ subscribers' = [subscribers EXCEPT ![h] = (@ + 1) % UsizeMod]
  /\ UNCHANGED <<channels, chanId, closed, tokens>>

ChanUnsubscribe(h) ==
  /\ subscribers' = [subscribers EXCEPT ![h] = (@ + UsizeMod - 1) % UsizeMod]
  /\ UNCHANGED <<channels, chanId, closed, tokens>>

(* The number unsubscribe reports: the old value, less one, but not below  *)
(* zero; a wrapped decrement of a zeroed counter reports zero too.         *)
UnsubscribeReports(h) == IF subscribers[h] = 0 THEN 0 ELSE subscribers[h] - 1

-----------------------------------------------------------------------------
(* The table and the objects agree: a registered handle carries the id it  *)
(* is registered under, and an allocated channel is flagged closed exactly *)
(* when the table no longer holds it (hub.rs open and close: the pump and  *)
(* the panels rely on either test).                                        *)
RegistryConsistent ==
  /\ \A id \in Ids : channels[id] # NoChannel => chanId[channels[id]] = id
  /\ \A h \in Handles :
       chanId[h] # NoId => (closed[h] <=> channels[chanId[h]] # h)
=============================================================================
