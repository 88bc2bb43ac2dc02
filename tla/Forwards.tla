------------------------------ MODULE Forwards ------------------------------
(* The ports an SSH session forwards and the listener of its web gateway.     *)
(* The operations borrow the session mutably, so that they run one at a time; *)
(* the accept loops, the tasks of the connections and the two pumps of each   *)
(* run beside them.  A task is stopped through a handle, which its parent     *)
(* pushes to a list after it has spawned the task: what is not yet on the     *)
(* list when the forward is removed goes on.                                  *)
EXTENDS Naturals, Sequences, FiniteSets, SequencesExt

CONSTANTS Ids,         \* the forwards and gateways ever made, numbered
          Conns,       \* the connections ever made, numbered
          Ports,
          NoId

ASSUME ForwardsAssumption ==
  /\ Ids \subseteq Nat /\ Conns \subseteq Nat
  /\ NoId \notin Ids

Listeners == {"local", "web", "gateway"}
Tasks == ({"loop"} \X Ids) \cup ({"conn", "up", "down"} \X Conns)

VARIABLES connected,   \* the session has its SSH connection
          table,       \* port_forwards, in the order they were added
          gateway,     \* web_gateway
          kind, port,  \* kind[i], port[i]: what forward i is, once it was made
          loop,        \* loop[i]: its accept loop
          conn,        \* conn[c]: the task that sets connection c up
          of,          \* of[c]: the forward that connection c came in by
          fresh,       \* the connections whose handle is not yet pushed
          pumps,       \* the pumps that run
          recorded,    \* recorded[i]: the handles that abort_all will find
          cut,         \* the tasks whose abort was asked for
          near, far,   \* the connections whose TCP end, whose SSH end is open
          maps,        \* remote_forwards: maps[p]: where remote port p leads
          listens,     \* the remote ports the server listens on
          op           \* the remote operation under way

fwdVars == <<connected, table, gateway, kind, port, loop, conn, of, fresh, pumps,
             recorded, cut, near, far, maps, listens, op>>
entryVars == <<kind, port>>
tableVars == <<connected, table, gateway>>
connVars == <<conn, of, fresh, pumps, near, far>>
remoteVars == <<maps, listens, op>>

Idle == [do |-> "none", id |-> NoId]

ForwardsInit ==
  /\ connected = TRUE
  /\ table = <<>> /\ gateway = NoId
  /\ kind = [i \in Ids |-> "none"] /\ port = [i \in Ids |-> NoId]
  /\ loop = [i \in Ids |-> "none"]
  /\ conn = [c \in Conns |-> "none"] /\ of = [c \in Conns |-> NoId]
  /\ fresh = {} /\ pumps = {}
  /\ recorded = [i \in Ids |-> {}]
  /\ cut = {}
  /\ near = {} /\ far = {}
  /\ maps = [p \in Ports |-> NoId]
  /\ listens = {}
  /\ op = Idle

NextId(i) == kind[i] = "none" /\ \A j \in Ids : j < i => kind[j] # "none"
NextConn(c) == of[c] = NoId /\ \A d \in Conns : d < c => of[d] # NoId
Bound(p) == \E i \in Ids : port[i] = p /\ loop[i] = "accept"
Gone(i) == <<"loop", i>> \in cut
(* server_channel_open_forwarded_tcpip dials the local target inside the loop *)
(* that reads the SSH connection: until it has, no answer of the server is.   *)
Stalled == \E c \in Conns : conn[c] = "dialing"

-----------------------------------------------------------------------------
(* A listener is bound, its accept loop spawned, and the entry appended.      *)
Make(i, k, p) ==
  /\ op = Idle /\ connected /\ NextId(i)
  /\ kind' = [kind EXCEPT ![i] = k]
  /\ port' = [port EXCEPT ![i] = p]

AddListener(i, k, p) ==
  /\ Make(i, k, p)
  /\ ~Bound(p)
  /\ loop' = [loop EXCEPT ![i] = "accept"]
  /\ table' = Append(table, i)
  /\ UNCHANGED <<connected, gateway, connVars, recorded, cut, remoteVars>>

(* start_web_gateway: a gateway that is there is kept.                        *)
StartGateway(i, p) ==
  /\ Make(i, "gateway", p)
  /\ gateway = NoId
  /\ ~Bound(p)
  /\ gateway' = i
  /\ loop' = [loop EXCEPT ![i] = "accept"]
  /\ UNCHANGED <<connected, table, connVars, recorded, cut, remoteVars>>

(* Mutant: it is started whether there is one or not.                         *)
StartAnother(i, p) ==
  /\ Make(i, "gateway", p)
  /\ ~Bound(p)
  /\ gateway' = i
  /\ loop' = [loop EXCEPT ![i] = "accept"]
  /\ UNCHANGED <<connected, table, connVars, recorded, cut, remoteVars>>

(* Mutant: only the accept loop is aborted.                                   *)
AbortLoops(gone) == cut' = cut \cup {<<"loop", i>> : i \in gone}

(* abort_all, and what the gateway is stopped by: the loop and every handle   *)
(* pushed so far.                                                             *)
AbortAll(gone) ==
  cut' = cut \cup {<<"loop", i>> : i \in gone} \cup UNION {recorded[i] : i \in gone}

StopGateway ==
  /\ op = Idle /\ gateway # NoId
  /\ AbortAll({gateway})
  /\ gateway' = NoId
  /\ UNCHANGED <<connected, table, entryVars, loop, connVars, recorded, remoteVars>>

(* add_remote_port_forward: the server is asked, ...                          *)
AskRemote(i, p) ==
  /\ Make(i, "remote", p)
  /\ op' = [do |-> "add", id |-> i]
  /\ UNCHANGED <<tableVars, loop, connVars, recorded, cut, maps, listens>>

(* ... it listens unless it does already, or refuses, ...                     *)
ServerListens ==
  /\ op.do = "add" /\ ~Stalled
  /\ \/ /\ port[op.id] \notin listens
        /\ listens' = listens \cup {port[op.id]}
        /\ op' = [op EXCEPT !.do = "map"]
     \/ /\ op' = Idle
        /\ UNCHANGED listens
  /\ UNCHANGED <<tableVars, entryVars, loop, connVars, recorded, cut, maps>>

(* ... and then the port is mapped and the entry appended, both under the     *)
(* number that tcpip_forward returned, as 16 bits.  That this is the port     *)
(* asked for is assumed: the SSH library is not in the tree, and port 0,      *)
(* which leaves the choice to the server, is not asked for.                   *)
MapRemote ==
  /\ op.do = "map"
  /\ maps' = [maps EXCEPT ![port[op.id]] = op.id]
  /\ table' = Append(table, op.id)
  /\ op' = Idle
  /\ UNCHANGED <<connected, gateway, entryVars, loop, connVars, recorded, cut, listens>>

(* remove_port_forward: the first entry with this port, among the remote or   *)
(* among the local ones; one of kind web is never found.                      *)
RemoveForward(p, k) ==
  LET Matches(n) == port[table[n]] = p /\ kind[table[n]] = k IN
  \E n \in DOMAIN table :
    /\ op = Idle
    /\ Matches(n) /\ \A m \in DOMAIN table : Matches(m) => n <= m
    /\ table' = RemoveAt(table, n)
    /\ AbortAll({table[n]})
    /\ op' = IF k = "remote" THEN [do |-> "cancel", id |-> table[n]] ELSE Idle
    /\ UNCHANGED <<connected, gateway, entryVars, loop, connVars, recorded, maps, listens>>

(* The server is asked to stop; whether it did is not looked at.              *)
ServerCancels ==
  /\ op.do = "cancel" /\ ~Stalled
  /\ listens' \in {listens, listens \ {port[op.id]}}
  /\ op' = [op EXCEPT !.do = "unmap"]
  /\ UNCHANGED <<tableVars, entryVars, loop, connVars, recorded, cut, maps>>

(* Mutant: the port is unmapped only if the server has let go of it.          *)
LeaveMapped ==
  /\ op.do = "unmap"
  /\ maps' = [maps EXCEPT ![port[op.id]] = IF port[op.id] \in listens THEN @ ELSE NoId]
  /\ op' = Idle
  /\ UNCHANGED <<tableVars, entryVars, loop, connVars, recorded, cut, listens>>

Unmap ==
  /\ op.do = "unmap"
  /\ maps' = [maps EXCEPT ![port[op.id]] = NoId]
  /\ op' = Idle
  /\ UNCHANGED <<tableVars, entryVars, loop, connVars, recorded, cut, listens>>

(* disconnect: the gateway and every forward; the map of the remote ports is  *)
(* left as it is, since the server forgets them with the connection.          *)
Disconnect ==
  /\ op = Idle /\ connected
  /\ connected' = FALSE
  /\ AbortAll(({gateway} \cup ToSet(table)) \ {NoId})
  /\ table' = <<>> /\ gateway' = NoId
  /\ UNCHANGED <<entryVars, loop, connVars, recorded, remoteVars>>

(* The connection is closed behind disconnect, and every channel with it.     *)
HangUp ==
  /\ ~connected /\ (far # {} \/ listens # {})
  /\ far' = {} /\ listens' = {}
  /\ UNCHANGED <<tableVars, entryVars, loop, conn, of, fresh, pumps, recorded, cut, near, maps, op>>

-----------------------------------------------------------------------------
(* The accept loop takes a connection in and spawns its task; it waits in     *)
(* accept again only when it has pushed the handle.                           *)
Waiting(i) == loop[i] = "accept" /\ \A c \in fresh : of[c] # i

Accept(i, c) ==
  /\ Waiting(i) /\ ~Gone(i) /\ NextConn(c)
  /\ of' = [of EXCEPT ![c] = i]
  /\ conn' = [conn EXCEPT ![c] = "opening"]
  /\ fresh' = fresh \cup {c}
  /\ near' = near \cup {c}
  /\ UNCHANGED <<tableVars, entryVars, loop, pumps, recorded, cut, far, remoteVars>>

(* A handle that is pushed after abort_all is looked at by nobody.            *)
Push(i, handles) ==
  recorded' = IF Gone(i) THEN recorded ELSE [recorded EXCEPT ![i] = @ \cup handles]

PushConn(c) ==
  /\ c \in fresh
  /\ fresh' = fresh \ {c}
  /\ Push(of[c], {<<"conn", c>>})
  /\ UNCHANGED <<tableVars, entryVars, loop, conn, of, pumps, cut, near, far, remoteVars>>

(* Mutant: the gateway ends as the others do.                                 *)
AcceptBreaks(i) ==
  /\ Waiting(i) /\ ~Gone(i)
  /\ loop' = [loop EXCEPT ![i] = "gone"]
  /\ UNCHANGED <<tableVars, entryVars, connVars, recorded, cut, remoteVars>>

(* accept fails: the loop of a forward ends, the gateway tries again.         *)
AcceptFails(i) ==
  /\ Waiting(i) /\ ~Gone(i)
  /\ loop' = [loop EXCEPT ![i] = IF kind[i] = "gateway" THEN @ ELSE "gone"]
  /\ UNCHANGED <<tableVars, entryVars, connVars, recorded, cut, remoteVars>>

(* The channel to the target opens and the two pumps are spawned, ...         *)
Opened(c) ==
  /\ conn[c] = "opening" /\ <<"conn", c>> \notin cut
  /\ kind[of[c]] # "gateway"
  /\ connected /\ ~Stalled
  /\ conn' = [conn EXCEPT ![c] = "push"]
  /\ pumps' = pumps \cup {<<"up", c>>, <<"down", c>>}
  /\ far' = far \cup {c}
  /\ UNCHANGED <<tableVars, entryVars, loop, of, fresh, recorded, cut, near, remoteVars>>

(* ... and then their handles are pushed.                                     *)
PushPumps(c) ==
  /\ conn[c] = "push"
  /\ conn' = [conn EXCEPT ![c] = "gone"]
  /\ Push(of[c], {<<"up", c>>, <<"down", c>>})
  /\ UNCHANGED <<tableVars, entryVars, loop, of, fresh, pumps, cut, near, far, remoteVars>>

(* It does not open, or the gateway has answered its one request.             *)
ConnEnds(c) ==
  /\ conn[c] = "opening"
  /\ conn' = [conn EXCEPT ![c] = "gone"]
  /\ near' = near \ {c}
  /\ UNCHANGED <<tableVars, entryVars, loop, of, fresh, pumps, recorded, cut, far, remoteVars>>

(* A connection comes in at a remote port that the map still knows, ...       *)
ForwardedIn(p, c) ==
  /\ p \in listens /\ maps[p] # NoId
  /\ ~Stalled /\ NextConn(c)
  /\ of' = [of EXCEPT ![c] = maps[p]]
  /\ conn' = [conn EXCEPT ![c] = "dialing"]
  /\ far' = far \cup {c}
  /\ UNCHANGED <<tableVars, entryVars, loop, fresh, pumps, recorded, cut, near, remoteVars>>

(* ... its target is dialled, and its pumps, of which no handle is kept, run; *)
(* or it is rejected.                                                         *)
Dialed(c) ==
  /\ conn[c] = "dialing"
  /\ conn' = [conn EXCEPT ![c] = "gone"]
  /\ \/ /\ pumps' = pumps \cup {<<"up", c>>, <<"down", c>>}
        /\ near' = near \cup {c}
        /\ UNCHANGED far
     \/ /\ far' = far \ {c}
        /\ UNCHANGED <<pumps, near>>
  /\ UNCHANGED <<tableVars, entryVars, loop, of, fresh, recorded, cut, remoteVars>>

Hangs(c) ==
  /\ \/ near' = near \ {c} /\ c \in near /\ UNCHANGED far
     \/ far' = far \ {c} /\ c \in far /\ conn[c] # "dialing" /\ UNCHANGED near
  /\ UNCHANGED <<tableVars, entryVars, loop, conn, of, fresh, pumps, recorded, cut, remoteVars>>

(* A pump ends when the end it reads has closed, or when it has something to  *)
(* write and the other end has.  It says so to nobody.                        *)
PumpEnds(t) ==
  /\ t \in pumps /\ (t[2] \notin near \/ t[2] \notin far)
  /\ pumps' = pumps \ {t}
  /\ UNCHANGED <<tableVars, entryVars, loop, conn, of, fresh, recorded, cut, near, far, remoteVars>>

(* A task that is to be aborted stops where it waits.                         *)
Stop(t) ==
  /\ t \in cut
  /\ \/ /\ t[1] = "loop" /\ Waiting(t[2])
        /\ loop' = [loop EXCEPT ![t[2]] = "gone"]
        /\ UNCHANGED <<conn, pumps, near>>
     \/ /\ t[1] = "conn" /\ conn[t[2]] = "opening"
        /\ conn' = [conn EXCEPT ![t[2]] = "gone"]
        /\ near' = near \ {t[2]}
        /\ UNCHANGED <<loop, pumps>>
     \/ /\ t \in pumps
        /\ pumps' = pumps \ {t}
        /\ UNCHANGED <<loop, conn, near>>
  /\ UNCHANGED <<tableVars, entryVars, of, fresh, recorded, cut, far, remoteVars>>

-----------------------------------------------------------------------------
RemoteSteps == ServerListens \/ MapRemote \/ ServerCancels \/ Unmap

ForwardsNext ==
  \/ \E i \in Ids, p \in Ports :
       \/ \E k \in {"local", "web"} : AddListener(i, k, p)
       \/ StartGateway(i, p) \/ AskRemote(i, p)
  \/ StopGateway \/ RemoteSteps \/ Disconnect \/ HangUp
  \/ \E p \in Ports : \/ \E k \in {"local", "remote"} : RemoveForward(p, k)
                      \/ \E c \in Conns : ForwardedIn(p, c)
  \/ \E i \in Ids : AcceptFails(i) \/ \E c \in Conns : Accept(i, c)
  \/ \E c \in Conns : PushConn(c) \/ Opened(c) \/ PushPumps(c) \/ ConnEnds(c) \/ Dialed(c) \/ Hangs(c)
  \/ \E t \in pumps : PumpEnds(t)
  \/ \E t \in cut : Stop(t)

(* The runtime goes on with every task that can go on, and the server and the *)
(* local target answer.                                                       *)
ForwardsFairness ==
  /\ WF_fwdVars(RemoteSteps)
  /\ \A c \in Conns : WF_fwdVars(PushConn(c) \/ PushPumps(c) \/ Dialed(c))
  /\ \A t \in Tasks : WF_fwdVars(Stop(t))

ForwardsSpec == ForwardsInit /\ [][ForwardsNext]_fwdVars /\ ForwardsFairness

-----------------------------------------------------------------------------
(* The gateway the session names is one that listens, and no other gateway    *)
(* listens but those that are being stopped: a second start finds the first,  *)
(* and a failed accept does not leave a handle to a dead listener.            *)
GatewayIsOne ==
  \A i \in Ids : kind[i] = "gateway" =>
    ((loop[i] = "accept" /\ ~Gone(i)) <=> i = gateway)

(* Between two operations, the map by which connections from the server are   *)
(* let in leads where the table says, for each port, whatever the server made *)
(* of what it was asked.                                                      *)
MapFollowsTable ==
  op = Idle /\ connected =>
    \A p \in Ports :
      {i \in ToSet(table) : kind[i] = "remote" /\ port[i] = p} = {maps[p]} \ {NoId}

(* Everything whose handle was pushed before its forward was removed ends,    *)
(* and the port is given back.                                                *)
Lives(t) == \/ t[1] = "loop" /\ loop[t[2]] = "accept"
            \/ t[1] = "conn" /\ conn[t[2]] = "opening"
            \/ t \in pumps

RemovedForwardsEnd ==
  \A i \in Ids : \A t \in {<<"loop", i>>} \cup ({"conn", "up", "down"} \X Conns) :
    (Gone(i) /\ t \in recorded[i] \cup {<<"loop", i>>}) ~> ~Lives(t)

(* What list_port_forwards says of itself: the forwards it lists are active.  *)
ListedIsActive ==
  \A i \in ToSet(table) : kind[i] \in Listeners => loop[i] = "accept"
=============================================================================
