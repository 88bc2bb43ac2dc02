---------------------------- MODULE SessionProofs ----------------------------
(* Proofs about what an SSH session does around its shell: that a login is    *)
(* one (SshAuth), that starting SFTP wastes no channel and starts nothing     *)
(* unasked (SftpStart), that the forwards and the gateway are what the        *)
(* session says they are (Forwards), and that the gateway passes bodies on    *)
(* whole and leads where its pages mean to (WebGateway).                      *)
EXTENDS SshAuth, SftpStart, Forwards, WebGateway, SequenceTheorems, WellFoundedInduction, TLAPS

-----------------------------------------------------------------------------
(* Logging in                                                                 *)
AuthTypeOK ==
  /\ viaJump \in BOOLEAN /\ kbEnabled \in BOOLEAN /\ mute \in BOOLEAN
  /\ auth \in [Hops -> Credentials]
  /\ right \in [Hops -> SUBSET Methods]
  /\ needs \in [Hops -> Needs]
  /\ left \in [Hops -> SUBSET Methods]
  /\ hop \in Hops
  /\ at \in {"connect", "primary", "second", "judge", "kbd", "silent", "done"}
  /\ at = "second" => auth[hop] = <<"publickey", "password">>
  /\ result \in {"none", "connected", "failed"}

(* What the last answer named is what is still wanted, and nothing but the    *)
(* prompts takes keyboard-interactive off that.                               *)
AuthInv ==
  /\ result = "connected" => at = "done" /\ hop = "target"
  /\ at \in {"judge", "kbd"} /\ ~mute => remaining = left[hop]
  /\ at = "kbd" => "kbd" \in remaining
  /\ at # "done" => ("kbd" \in left["target"] <=> "kbd" \in needs["target"])
  /\ hop = "target" /\ viaJump /\ ~mute => left["jump"] = {}

LEMMA AuthInvariant == AuthSpec => [](AuthTypeOK /\ AuthInv /\ AuthIsReal)
<1> USE DEF AuthTypeOK, Hops, Methods
<1>1. AuthInit => AuthTypeOK /\ AuthInv /\ AuthIsReal
  BY DEF AuthInit, AuthInv, AuthIsReal, Needs
<1>2. AuthTypeOK /\ AuthInv /\ AuthIsReal /\ [AuthNext]_authVars
        => (AuthTypeOK /\ AuthInv /\ AuthIsReal)'
  <2> SUFFICES ASSUME AuthTypeOK, AuthInv, AuthIsReal, [AuthNext]_authVars
               PROVE (AuthTypeOK /\ AuthInv /\ AuthIsReal)'
    OBVIOUS
  <2> USE DEF AuthInv, AuthIsReal, Used, inputVars
  <2>1. CASE Reach
    <3>1. AuthTypeOK'
      BY <2>1 DEF Reach, Stay, AuthFails
    <3>2. AuthInv'
      BY <2>1 DEF Reach, Stay, AuthFails
    <3>3. AuthIsReal'
      BY <2>1 DEF Reach, Stay, AuthFails
    <3>4. QED
      BY <3>1, <3>2, <3>3
  <2>2. ASSUME NEW m \in {"password", "publickey"}, NEW next \in {"second", "judge"},
               Present(m, next), at \in {"primary", "second"},
               next = "second" => auth[hop] = <<"publickey", "password">>
        PROVE (AuthTypeOK /\ AuthInv /\ AuthIsReal)'
    <3>1. CASE left[hop] = {}
      BY <2>2, <3>1 DEF Present, Stay
    <3>2. CASE left[hop] # {}
      <4>1. AuthTypeOK'
        <5>1. left' \in [Hops -> SUBSET Methods]
          BY <2>2, <3>2 DEF Present
        <5>2. QED
          BY <2>2, <3>2, <5>1 DEF Present
      <4>2. (at \in {"judge", "kbd"} /\ ~mute => remaining = left[hop])'
        BY <2>2, <3>2 DEF Present
      <4>3. ("kbd" \in left["target"])' <=> "kbd" \in left["target"]
        BY <2>2, <3>2 DEF Present
      <4>4. (hop = "target" /\ viaJump /\ ~mute => left["jump"] = {})'
        BY <2>2, <3>2 DEF Present
      <4>5. result # "connected" /\ result' = result /\ at' \notin {"kbd", "done"}
        BY <2>2, <3>2 DEF Present
      <4>6. QED
        BY <2>2, <3>2, <4>1, <4>2, <4>3, <4>4, <4>5 DEF Present
    <3>3. QED
      BY <3>1, <3>2
  <2>3. CASE Primary
    <3>1. /\ auth[hop][1] \in {"password", "publickey"}
          /\ Len(auth[hop]) = 2 => auth[hop] = <<"publickey", "password">>
      BY DEF Credentials
    <3>2. QED
      BY <2>2, <2>3, <3>1 DEF Primary
  <2>4. CASE Second
    <3>1. auth[hop][2] \in {"password", "publickey"}
      BY <2>4 DEF Second
    <3>2. QED
      BY <2>2, <2>4, <3>1 DEF Second
  <2>5. CASE Judge
    BY <2>5 DEF Judge, LoggedIn, Stay, AuthFails
  <2>6. CASE Keyboard
    <3>1. CASE AuthFails
      BY <3>1, <2>6 DEF Keyboard, AuthFails
    <3>2. CASE left' = [left EXCEPT ![hop] = {}] /\ LoggedIn(TRUE)
      <4>1. AuthTypeOK'
        BY <2>6, <3>2 DEF Keyboard, LoggedIn
      <4>2. AuthInv'
        BY <2>6, <3>2 DEF Keyboard, LoggedIn
      <4>3. AuthIsReal'
        BY <2>6, <3>2 DEF Keyboard, LoggedIn
      <4>4. QED
        BY <4>1, <4>2, <4>3
    <3>3. QED
      BY <2>6, <3>1, <3>2 DEF Keyboard
  <2>7. CASE UNCHANGED authVars
    BY <2>7 DEF authVars
  <2>8. CASE TimesOut
    BY <2>8 DEF TimesOut, AuthFails
  <2>9. CASE Breaks
    BY <2>9 DEF Breaks, AuthFails
  <2>10. QED
    BY <2>1, <2>3, <2>4, <2>5, <2>6, <2>7, <2>8, <2>9 DEF AuthNext
<1>3. QED
  BY <1>1, <1>2, PTL DEF AuthSpec

(* A session that is connected was let in by every server on the way that     *)
(* names methods when it refuses, and says truly whether the target asked for *)
(* a second factor (connect_and_auth, authenticate_primary, kb_interactive).  *)
THEOREM AuthCorrect == AuthSpec => []AuthIsReal
  BY AuthInvariant, PTL

-----------------------------------------------------------------------------
(* Starting SFTP                                                              *)
SftpCounts ==
  /\ starts \in Nat /\ strays \in Nat /\ lapses \in Nat
  /\ OnlySilenceStrays

(* What was seen of the subsystem while it was asked for is a sign.           *)
SftpSigns ==
  /\ evidence \in BOOLEAN /\ sign \in BOOLEAN
  /\ request \in {"subsystem", "exec", "probe"}
  /\ evidence /\ request = "subsystem" => sign
  /\ FallbackIsEarned

(* Only a wait that ran out, or a request that could not be sent, leaves a    *)
(* channel open on the server (start_sftp_attempt, probe_sftp_server).        *)
THEOREM StraysCorrect == SftpSpec => []OnlySilenceStrays
<1>1. SftpInit => SftpCounts
  BY DEF SftpInit, SftpCounts, OnlySilenceStrays
<1>2. SftpCounts /\ [SftpNext]_sftpVars => SftpCounts'
  BY SMTT(60) DEF SftpCounts, OnlySilenceStrays, SftpNext, sftpVars,
     OpenSftp, ChannelOpens, RequestSent, Diagnosed, Refused, Accepted, ReplyLate,
     Shaken, ShakeFails, ShakeLate, Probed, Browse, Browsed, SessionDies, Unlink,
     Recoverable, Start, CallFails, configVars, callVars, pastVars
<1>3. SftpCounts => OnlySilenceStrays
  BY DEF SftpCounts
<1>4. QED
  BY <1>1, <1>2, <1>3, PTL DEF SftpSpec

(* In mode auto an executable is started only after the server gave a sign    *)
(* that its subsystem fails and the probe found the executable, whatever ran  *)
(* out of time before (open_sftp_with_info, SftpStartError::is_recoverable).  *)
THEOREM FallbackCorrect == SftpSpec => []FallbackIsEarned
<1>1. SftpInit => SftpSigns
  BY DEF SftpInit, SftpSigns, FallbackIsEarned
<1>2. SftpSigns /\ [SftpNext]_sftpVars => SftpSigns'
  <2> SUFFICES ASSUME SftpSigns, [SftpNext]_sftpVars PROVE SftpSigns'
    OBVIOUS
  <2> USE DEF SftpSigns, FallbackIsEarned, configVars, callVars, pastVars, CallFails, Start
  <2>1. ASSUME NEW who \in {"browse", "own"}, OpenSftp(who) PROVE SftpSigns'
    BY <2>1 DEF OpenSftp
  <2>2. CASE ChannelOpens
    BY <2>2 DEF ChannelOpens
  <2>3. CASE RequestSent
    BY <2>3 DEF RequestSent
  <2>4. CASE Diagnosed
    BY <2>4 DEF Diagnosed
  <2>5. CASE Refused \/ ShakeFails
    BY <2>5 DEF Refused, ShakeFails, Recoverable
  <2>6. CASE Accepted \/ ReplyLate \/ Shaken
    BY <2>6 DEF Accepted, ReplyLate, Shaken
  <2>7. CASE ShakeLate
    BY <2>7 DEF ShakeLate, Recoverable
  <2>8. CASE Probed
    BY <2>8 DEF Probed
  <2>9. CASE Browse \/ Browsed \/ SessionDies \/ Unlink \/ UNCHANGED sftpVars
    BY <2>9 DEF Browse, Browsed, SessionDies, Unlink, sftpVars
  <2>10. QED
    BY <2>1, <2>2, <2>3, <2>4, <2>5, <2>6, <2>7, <2>8, <2>9 DEF SftpNext
<1>3. SftpSigns => FallbackIsEarned
  BY DEF SftpSigns
<1>4. QED
  BY <1>1, <1>2, <1>3, PTL DEF SftpSpec
-----------------------------------------------------------------------------
(* The forwards                                                               *)
LEMMA RemoveAtFacts ==
  ASSUME NEW S, NEW s \in Seq(S), NEW n \in DOMAIN s,
         \A a, b \in DOMAIN s : s[a] = s[b] => a = b
  PROVE  /\ RemoveAt(s, n) \in Seq(S)
         /\ ToSet(RemoveAt(s, n)) = ToSet(s) \ {s[n]}
         /\ \A a, b \in DOMAIN RemoveAt(s, n) : RemoveAt(s, n)[a] = RemoveAt(s, n)[b] => a = b
<1> DEFINE r == RemoveAt(s, n)
<1>1. /\ r \in Seq(S)
      /\ DOMAIN r = 1..(Len(s) - 1)
      /\ \A a \in DOMAIN r : r[a] = IF a < n THEN s[a] ELSE s[a + 1]
  <2> DEFINE front == SubSeq(s, 1, n - 1)
             back == SubSeq(s, n + 1, Len(s))
  <2>1. /\ front \in Seq(S) /\ Len(front) = n - 1
        /\ \A i \in 1..(n - 1) : front[i] = s[i]
    BY SubSeqProperties
  <2>2. /\ back \in Seq(S) /\ Len(back) = Len(s) - n
        /\ \A i \in 1..(Len(s) - n) : back[i] = s[n + i]
    BY SubSeqProperties
  <2>3. r = front \o back
    BY DEF RemoveAt
  <2> HIDE DEF r, front, back
  <2>4. r \in Seq(S) /\ Len(r) = Len(s) - 1
    BY <2>1, <2>2, <2>3, ConcatProperties
  <2>5. \A a \in 1..(Len(s) - 1) : r[a] = IF a <= n - 1 THEN front[a] ELSE back[a - (n - 1)]
    BY <2>1, <2>2, <2>3, ConcatProperties
  <2>6. ASSUME NEW a \in 1..(Len(s) - 1) PROVE r[a] = IF a < n THEN s[a] ELSE s[a + 1]
    <3>1. CASE a < n
      BY <2>1, <2>5, <3>1
    <3>2. CASE a >= n
      BY <2>2, <2>5, <3>2, a - (n - 1) \in 1..(Len(s) - n), n + (a - (n - 1)) = a + 1
    <3>3. QED
      BY <3>1, <3>2
  <2>7. QED
    BY <2>4, <2>6
<1>2. ToSet(r) \subseteq ToSet(s) \ {s[n]}
  <2> HIDE DEF r
  <2> QED
    BY <1>1 DEF ToSet
<1>3. ASSUME NEW a \in DOMAIN s, a # n PROVE s[a] \in ToSet(r)
  <2>1. CASE a < n
    BY <1>1, <2>1 DEF ToSet
  <2>2. CASE a > n
    BY <1>1, <2>2, a - 1 \in DOMAIN r, (a - 1) + 1 = a DEF ToSet
  <2>3. QED
    BY <1>3, <2>1, <2>2
<1>4. ToSet(s) \ {s[n]} \subseteq ToSet(r)
  BY <1>3 DEF ToSet
<1>5. \A a, b \in DOMAIN r : r[a] = r[b] => a = b
  <2> DEFINE from(a) == IF a < n THEN a ELSE a + 1
  <2> HIDE DEF r
  <2>1. \A a \in DOMAIN r : r[a] = s[from(a)] /\ from(a) \in DOMAIN s
    BY <1>1
  <2>2. \A a, b \in DOMAIN r : from(a) = from(b) => a = b
    BY <1>1
  <2> HIDE DEF from
  <2>3. QED
    BY <2>1, <2>2
<1>6. QED
  BY <1>1, <1>2, <1>4, <1>5

LEMMA AppendFacts ==
  ASSUME NEW S, NEW s \in Seq(S), NEW e \in S
  PROVE  /\ Append(s, e) \in Seq(S)
         /\ ToSet(Append(s, e)) = ToSet(s) \cup {e}
         /\ e \notin ToSet(s) /\ (\A a, b \in DOMAIN s : s[a] = s[b] => a = b)
              => \A a, b \in DOMAIN Append(s, e) : Append(s, e)[a] = Append(s, e)[b] => a = b
  BY DEF ToSet

(* Nobody has a task stopped but through its handle, no handle of a loop is   *)
(* ever recorded, and every entry of the table was made.                      *)
FwdTypeOK ==
  /\ table \in Seq(Ids)
  /\ \A a, b \in DOMAIN table : table[a] = table[b] => a = b
  /\ gateway \in Ids \cup {NoId}
  /\ kind \in [Ids -> {"none", "local", "web", "remote", "gateway"}]
  /\ port \in [Ids -> Ports \cup {NoId}]
  /\ loop \in [Ids -> {"none", "accept", "gone"}]
  /\ maps \in [Ports -> Ids \cup {NoId}]
  /\ listens \subseteq Ports
  /\ op \in [do : {"none", "add", "map", "cancel", "unmap"}, id : Ids \cup {NoId}]
  /\ recorded \in [Ids -> SUBSET Tasks] /\ cut \subseteq Tasks
  /\ \A i, j \in Ids : <<"loop", i>> \notin recorded[j]

GatewayInv ==
  /\ \A i \in ToSet(table) : kind[i] \in {"local", "web", "remote"} /\ port[i] \in Ports
  /\ op.do # "none" => op.id \in Ids /\ kind[op.id] = "remote" /\ port[op.id] \in Ports
  /\ op.do \in {"add", "map"} => op.id \notin ToSet(table)
  /\ \A i \in Ids : kind[i] = "none" => loop[i] = "none" /\ ~Gone(i)
  /\ gateway # NoId => kind[gateway] = "gateway"
  /\ GatewayIsOne

LEMMA AbortFacts ==
  ASSUME FwdTypeOK, NEW gone \in SUBSET Ids, AbortAll(gone)
  PROVE  /\ cut' \subseteq Tasks
         /\ \A i \in Ids : <<"loop", i>> \in cut' <=> <<"loop", i>> \in cut \/ i \in gone
<1>1. {<<"loop", i>> : i \in gone} \subseteq Tasks
  BY DEF Tasks
<1>2. UNION {recorded[i] : i \in gone} \subseteq Tasks
  BY DEF FwdTypeOK
<1>3. \A i \in Ids : <<"loop", i>> \notin UNION {recorded[j] : j \in gone}
  BY DEF FwdTypeOK
<1>4. \A i \in Ids : <<"loop", i>> \in {<<"loop", j>> : j \in gone} <=> i \in gone
  OBVIOUS
<1>5. QED
  BY <1>1, <1>2, <1>3, <1>4 DEF AbortAll, FwdTypeOK

LEMMA PushFacts ==
  ASSUME FwdTypeOK, NEW i, NEW handles \in SUBSET ({"conn", "up", "down"} \X Conns),
         Push(i, handles)
  PROVE  /\ recorded' \in [Ids -> SUBSET Tasks]
         /\ \A j, k \in Ids : <<"loop", j>> \notin recorded'[k]
<1>1. handles \subseteq Tasks
  BY DEF Tasks
<1>2. \A j \in Ids : <<"loop", j>> \notin handles
  OBVIOUS
<1>3. QED
  BY <1>1, <1>2 DEF FwdTypeOK, Push

LEMMA GatewayInvariant == ForwardsSpec => [](FwdTypeOK /\ GatewayInv)
<1> USE ForwardsAssumption
<1>1. ForwardsInit => FwdTypeOK /\ GatewayInv
  BY DEF ForwardsInit, FwdTypeOK, GatewayInv, GatewayIsOne, Gone, Idle, ToSet
<1>2. FwdTypeOK /\ GatewayInv /\ [ForwardsNext]_fwdVars => (FwdTypeOK /\ GatewayInv)'
  <2> SUFFICES ASSUME FwdTypeOK, GatewayInv, [ForwardsNext]_fwdVars
               PROVE (FwdTypeOK /\ GatewayInv)'
    OBVIOUS
  <2> USE DEF FwdTypeOK, GatewayInv, GatewayIsOne, Gone, Idle, entryVars, tableVars,
              connVars, remoteVars
  <2> DEFINE Goal == (FwdTypeOK /\ GatewayInv)'
  <2>1. ASSUME NEW i \in Ids, NEW p \in Ports, NEW k \in {"local", "web"}, AddListener(i, k, p)
        PROVE Goal
    <3>1. i \notin ToSet(table) /\ i # gateway
      BY <2>1 DEF AddListener, Make, NextId
    <3>2. /\ kind' = [kind EXCEPT ![i] = k] /\ port' = [port EXCEPT ![i] = p]
          /\ loop' = [loop EXCEPT ![i] = "accept"]
          /\ UNCHANGED <<gateway, maps, listens, op, recorded, cut>>
      BY <2>1 DEF AddListener, Make
    <3>3. table' \in Seq(Ids) /\ ToSet(table') = ToSet(table) \cup {i}
      BY <2>1, AppendFacts DEF AddListener
    <3>4. \A a, b \in DOMAIN table' : table'[a] = table'[b] => a = b
      BY <2>1, <3>1, AppendFacts DEF AddListener
    <3>5. FwdTypeOK'
      BY <3>2, <3>3, <3>4
    <3>6. GatewayInv'
      BY <2>1, <3>1, <3>2, <3>3 DEF AddListener, Make, NextId
    <3>7. QED
      BY <3>5, <3>6
  <2>2. ASSUME NEW i \in Ids, NEW p \in Ports, StartGateway(i, p) PROVE Goal
    BY <2>2 DEF StartGateway, Make, NextId, ToSet
  <2>3. ASSUME NEW i \in Ids, NEW p \in Ports, AskRemote(i, p) PROVE Goal
    BY <2>3 DEF AskRemote, Make, NextId, ToSet
  <2>4. CASE StopGateway
    <3>1. /\ cut' \subseteq Tasks
          /\ \A i \in Ids : <<"loop", i>> \in cut' <=> <<"loop", i>> \in cut \/ i = gateway
      BY <2>4, {gateway} \in SUBSET Ids, AbortFacts DEF StopGateway
    <3>2. QED
      BY <2>4, <3>1 DEF StopGateway, ToSet
  <2>5. CASE ServerListens
    BY <2>5 DEF ServerListens
  <2>6. CASE MapRemote
    <3>1. op.id \in Ids /\ kind[op.id] = "remote" /\ port[op.id] \in Ports
      BY <2>6 DEF MapRemote
    <3>2. table' \in Seq(Ids) /\ ToSet(table') = ToSet(table) \cup {op.id}
      BY <2>6, <3>1, AppendFacts DEF MapRemote
    <3>3. \A a, b \in DOMAIN table' : table'[a] = table'[b] => a = b
      BY <2>6, <3>1, AppendFacts DEF MapRemote
    <3>4. QED
      BY <2>6, <3>1, <3>2, <3>3 DEF MapRemote
  <2>7. CASE ServerCancels
    BY <2>7 DEF ServerCancels
  <2>8. CASE Unmap
    BY <2>8 DEF Unmap
  <2>9. CASE Disconnect
    <3>1. /\ table' = <<>> /\ gateway' = NoId /\ op' = op
          /\ UNCHANGED <<kind, port, loop, maps, listens, recorded>>
      BY <2>9 DEF Disconnect
    <3>2. /\ cut' \subseteq Tasks
          /\ \A i \in Ids : <<"loop", i>> \in cut' <=>
               <<"loop", i>> \in cut \/ i \in ({gateway} \cup ToSet(table)) \ {NoId}
      <4>1. ({gateway} \cup ToSet(table)) \ {NoId} \in SUBSET Ids
        BY DEF ToSet
      <4>2. QED
        BY <2>9, <4>1, AbortFacts DEF Disconnect
    <3>3. QED
      BY <3>1, <3>2 DEF ToSet
  <2>10. CASE HangUp
    BY <2>10 DEF HangUp
  <2>11. ASSUME NEW p \in Ports, NEW k \in {"local", "remote"}, RemoveForward(p, k) PROVE Goal
    <3>1. PICK n \in DOMAIN table :
            /\ port[table[n]] = p /\ kind[table[n]] = k
            /\ table' = RemoveAt(table, n)
            /\ AbortAll({table[n]})
            /\ op' = IF k = "remote" THEN [do |-> "cancel", id |-> table[n]] ELSE [do |-> "none", id |-> NoId]
            /\ UNCHANGED <<gateway, kind, port, loop, maps, listens, recorded>>
      BY <2>11 DEF RemoveForward
    <3>2. /\ table' \in Seq(Ids)
          /\ ToSet(table') = ToSet(table) \ {table[n]}
          /\ \A a, b \in DOMAIN table' : table'[a] = table'[b] => a = b
      BY <3>1, RemoveAtFacts
    <3>3. table[n] \in Ids /\ table[n] \in ToSet(table)
      BY DEF ToSet
    <3>4. /\ cut' \subseteq Tasks
          /\ \A i \in Ids : <<"loop", i>> \in cut' <=> <<"loop", i>> \in cut \/ i = table[n]
      BY <3>1, <3>3, {table[n]} \in SUBSET Ids, AbortFacts
    <3>5. QED
      BY <3>1, <3>2, <3>3, <3>4
  <2>12. ASSUME NEW p \in Ports, NEW c \in Conns, ForwardedIn(p, c) PROVE Goal
    BY <2>12 DEF ForwardedIn
  <2>13. ASSUME NEW i \in Ids, AcceptFails(i) PROVE Goal
    BY <2>13 DEF AcceptFails, Waiting
  <2>14. ASSUME NEW i \in Ids, NEW c \in Conns, Accept(i, c) PROVE Goal
    BY <2>14 DEF Accept
  <2>15. ASSUME NEW c \in Conns, PushConn(c) PROVE Goal
    <3>1. Push(of[c], {<<"conn", c>>})
      BY <2>15 DEF PushConn
    <3>2. {<<"conn", c>>} \in SUBSET ({"conn", "up", "down"} \X Conns)
      OBVIOUS
    <3>3. QED
      BY <2>15, <3>1, <3>2, PushFacts DEF PushConn
  <2>16. ASSUME NEW c \in Conns, PushPumps(c) PROVE Goal
    <3>1. Push(of[c], {<<"up", c>>, <<"down", c>>})
      BY <2>16 DEF PushPumps
    <3>2. {<<"up", c>>, <<"down", c>>} \in SUBSET ({"conn", "up", "down"} \X Conns)
      OBVIOUS
    <3>3. QED
      BY <2>16, <3>1, <3>2, PushFacts DEF PushPumps
  <2>17. ASSUME NEW c \in Conns, Opened(c) \/ ConnEnds(c) \/ Dialed(c) \/ Hangs(c) PROVE Goal
    BY <2>17 DEF Opened, ConnEnds, Dialed, Hangs
  <2>18. ASSUME NEW t \in pumps, PumpEnds(t) PROVE Goal
    BY <2>18 DEF PumpEnds
  <2>19. ASSUME NEW t \in cut, Stop(t) PROVE Goal
    <3>1. UNCHANGED <<table, gateway, kind, port, maps, listens, op, recorded, cut>>
      BY <2>19 DEF Stop
    <3>2. CASE UNCHANGED loop
      BY <3>1, <3>2
    <3>3. CASE t[1] = "loop" /\ Waiting(t[2]) /\ loop' = [loop EXCEPT ![t[2]] = "gone"]
      <4>1. t[2] \in Ids /\ <<"loop", t[2]>> \in cut
        BY <2>19, <3>3 DEF Tasks
      <4>2. QED
        BY <3>1, <3>3, <4>1 DEF Waiting
    <3>4. QED
      BY <2>19, <3>2, <3>3 DEF Stop
  <2>20. CASE UNCHANGED fwdVars
    BY <2>20 DEF fwdVars
  <2>21. QED
    BY <2>1, <2>2, <2>3, <2>4, <2>5, <2>6, <2>7, <2>8, <2>9, <2>10, <2>11, <2>12,
       <2>13, <2>14, <2>15, <2>16, <2>17, <2>18, <2>19, <2>20
    DEF ForwardsNext, RemoteSteps
<1>3. QED
  BY <1>1, <1>2, PTL DEF ForwardsSpec

(* The gateway the session names listens, and no other listens but those that *)
(* are being stopped (start_web_gateway, stop_web_gateway, disconnect).       *)
THEOREM GatewayCorrect == ForwardsSpec => []GatewayIsOne
<1>1. GatewayInv => GatewayIsOne
  BY DEF GatewayInv
<1>2. QED
  BY <1>1, GatewayInvariant, PTL

(* The remote forwards of the table at port p.  While one is being removed it *)
(* is off the table and still mapped; a port is mapped only where the server  *)
(* listens, and listens for one forward.                                      *)
Remote(p) == {i \in ToSet(table) : kind[i] = "remote" /\ port[i] = p}
Leaving(p) == op.do \in {"cancel", "unmap"} /\ port[op.id] = p

MapInv ==
  /\ ~connected => table = <<>> /\ op.do = "none"
  /\ connected => \A p \in Ports :
       /\ Remote(p) = IF Leaving(p) THEN {} ELSE {maps[p]} \ {NoId}
       /\ Remote(p) # {} => p \in listens
  /\ op.do = "map" => Remote(port[op.id]) = {} /\ port[op.id] \in listens

LEMMA MapInvariant == ForwardsSpec => []MapInv
<1> USE ForwardsAssumption
<1>1. ForwardsInit => MapInv
  BY DEF ForwardsInit, MapInv, Remote, Leaving, Idle, ToSet
<1>2. FwdTypeOK /\ GatewayInv /\ MapInv /\ [ForwardsNext]_fwdVars => MapInv'
  <2> SUFFICES ASSUME FwdTypeOK, GatewayInv, MapInv, [ForwardsNext]_fwdVars
               PROVE MapInv'
    OBVIOUS
  <2>1. ASSUME UNCHANGED <<connected, table, kind, port, maps, listens, op>> PROVE MapInv'
    BY <2>1 DEF MapInv, Remote, Leaving
  <2>2. ASSUME NEW i \in Ids, NEW p \in Ports, NEW k \in {"local", "web"}, AddListener(i, k, p)
        PROVE MapInv'
    <3>1. ToSet(table') = ToSet(table) \cup {i} /\ op.do = "none" /\ op' = op
      BY <2>2, AppendFacts DEF AddListener, Make, FwdTypeOK, remoteVars, Idle
    <3>2. \A q \in Ports : Remote(q)' = Remote(q)
      BY <2>2, <3>1 DEF AddListener, Make, NextId, Remote, FwdTypeOK, GatewayInv
    <3>3. QED
      BY <2>2, <3>1, <3>2 DEF AddListener, Make, MapInv, Leaving, remoteVars
  <2>3. ASSUME NEW i \in Ids, NEW p \in Ports, StartGateway(i, p) \/ AskRemote(i, p) PROVE MapInv'
    <3>1. \A q \in Ports : Remote(q)' = Remote(q)
      <4>1. i \notin ToSet(table)
        BY <2>3 DEF StartGateway, AskRemote, Make, NextId, GatewayInv
      <4>2. /\ table' = table
            /\ \A j \in ToSet(table) : kind'[j] = kind[j] /\ port'[j] = port[j]
        <5>1. table' = table /\ kind' \in {[kind EXCEPT ![i] = "gateway"], [kind EXCEPT ![i] = "remote"]}
          BY <2>3 DEF StartGateway, AskRemote, Make, tableVars
        <5>2. port' = [port EXCEPT ![i] = p]
          BY <2>3 DEF StartGateway, AskRemote, Make
        <5>3. ToSet(table) \subseteq Ids
          BY DEF FwdTypeOK, ToSet
        <5>4. QED
          BY <4>1, <5>1, <5>2, <5>3 DEF FwdTypeOK
      <4>3. QED
        BY <4>2 DEF Remote
    <3>2. UNCHANGED <<connected, table, maps, listens>> /\ op.do = "none" /\ op'.do \in {"none", "add"}
      BY <2>3 DEF StartGateway, AskRemote, Make, tableVars, remoteVars, Idle
    <3>3. connected
      BY <2>3 DEF StartGateway, AskRemote, Make
    <3>4. QED
      BY <3>1, <3>2, <3>3 DEF MapInv, Leaving
  <2>4. CASE ServerListens
    BY <2>4 DEF ServerListens, MapInv, Remote, Leaving, Idle, tableVars, entryVars, FwdTypeOK, GatewayInv
  <2>5. CASE MapRemote
    <3>1. /\ op.id \in Ids /\ kind[op.id] = "remote" /\ port[op.id] \in Ports
          /\ op' = Idle /\ op'.do = "none"
          /\ UNCHANGED <<connected, kind, port, listens>>
      BY <2>5 DEF MapRemote, GatewayInv, entryVars, Idle
    <3>2. ToSet(table') = ToSet(table) \cup {op.id}
      BY <2>5, <3>1, AppendFacts DEF MapRemote, FwdTypeOK
    <3>3. \A q \in Ports : Remote(q)' = IF q = port[op.id] THEN {op.id} ELSE Remote(q)
      BY <2>5, <3>1, <3>2 DEF MapRemote, MapInv, Remote
    <3>4. connected /\ maps' = [maps EXCEPT ![port[op.id]] = op.id]
      BY <2>5 DEF MapRemote, MapInv
    <3>5. \A q \in Ports : ~Leaving(q) /\ ~Leaving(q)'
      BY <2>5, <3>1 DEF MapRemote, Leaving
    <3>6. op.id # NoId
      BY <3>1
    <3>7. \A q \in Ports : /\ Remote(q)' = {maps'[q]} \ {NoId}
                           /\ Remote(q)' # {} => q \in listens'
      BY <2>5, <3>1, <3>3, <3>4, <3>5, <3>6 DEF MapRemote, MapInv, FwdTypeOK
    <3>8. QED
      <4>1. \A q \in Ports : /\ Remote(q)' = IF Leaving(q)' THEN {} ELSE {maps'[q]} \ {NoId}
                             /\ Remote(q)' # {} => q \in listens'
        BY <3>5, <3>7
      <4>2. connected' /\ op'.do # "map"
        BY <3>1, <3>4
      <4>3. QED
        BY <4>1, <4>2 DEF MapInv
  <2>6. CASE ServerCancels
    <3>1. /\ UNCHANGED <<connected, table, kind, port, maps>>
          /\ listens' \in {listens, listens \ {port[op.id]}}
          /\ op.do = "cancel" /\ op' = [op EXCEPT !.do = "unmap"]
      BY <2>6 DEF ServerCancels, tableVars, entryVars
    <3>2. \A q \in Ports : Remote(q)' = Remote(q) /\ (Leaving(q)' <=> Leaving(q))
      BY <3>1 DEF Remote, Leaving, FwdTypeOK
    <3>3. connected /\ Leaving(port[op.id]) /\ op'.do = "unmap"
      BY <3>1 DEF MapInv, Leaving, FwdTypeOK
    <3>4. QED
      BY <3>1, <3>2, <3>3 DEF MapInv, GatewayInv, Leaving
  <2>7. CASE Unmap
    <3>1. /\ UNCHANGED <<connected, table, kind, port, listens>>
          /\ op.do = "unmap" /\ op' = Idle /\ op'.do = "none"
          /\ maps' = [maps EXCEPT ![port[op.id]] = NoId]
      BY <2>7 DEF Unmap, tableVars, entryVars, Idle
    <3>2. \A q \in Ports : Remote(q)' = Remote(q) /\ ~Leaving(q)'
      BY <3>1 DEF Remote, Leaving
    <3>3. \A q \in Ports : Leaving(q) <=> q = port[op.id]
      BY <3>1 DEF Leaving
    <3>4. QED
      BY <3>1, <3>2, <3>3 DEF MapInv, FwdTypeOK, GatewayInv
  <2>8. CASE Disconnect
    BY <2>8 DEF Disconnect, MapInv, Idle, remoteVars
  <2>9. CASE HangUp
    BY <2>9 DEF HangUp, MapInv, tableVars
  <2>10. ASSUME NEW p \in Ports, NEW k \in {"local", "remote"}, RemoveForward(p, k) PROVE MapInv'
    <3>1. PICK n \in DOMAIN table :
            /\ op = Idle
            /\ port[table[n]] = p /\ kind[table[n]] = k
            /\ table' = RemoveAt(table, n)
            /\ op' = IF k = "remote" THEN [do |-> "cancel", id |-> table[n]] ELSE Idle
            /\ UNCHANGED <<connected, kind, port, maps, listens>>
      BY <2>10 DEF RemoveForward, entryVars
    <3>2. ToSet(table') = ToSet(table) \ {table[n]}
      BY <3>1, RemoveAtFacts DEF FwdTypeOK
    <3>3. connected /\ table[n] \in ToSet(table) /\ op.do = "none"
      BY <3>1 DEF MapInv, ToSet, Idle
    <3>4. CASE k = "local"
      <4>1. \A q \in Ports : Remote(q)' = Remote(q)
        BY <3>1, <3>2, <3>4 DEF Remote
      <4>2. QED
        BY <3>1, <3>3, <3>4, <4>1 DEF MapInv, Leaving, Idle
    <3>5. CASE k = "remote"
      <4>1. Remote(p) = {table[n]}
        BY <3>1, <3>3, <3>5 DEF MapInv, Leaving, Remote
      <4>2. \A q \in Ports : Remote(q)' = IF q = p THEN {} ELSE Remote(q)
        BY <3>1, <3>2, <4>1 DEF Remote
      <4>3. op'.do = "cancel" /\ op'.id = table[n]
        BY <3>1, <3>5
      <4>4. \A q \in Ports : ~Leaving(q) /\ (Leaving(q)' <=> q = p)
        BY <3>1, <3>3, <4>3 DEF Leaving
      <4>5. QED
        BY <3>1, <3>3, <4>2, <4>3, <4>4 DEF MapInv
    <3>6. QED
      BY <3>4, <3>5
  <2>11. ASSUME NEW c \in Conns, PushConn(c) \/ PushPumps(c) \/ Opened(c) \/ ConnEnds(c) \/ Dialed(c) \/ Hangs(c)
         PROVE MapInv'
    BY <2>1, <2>11 DEF PushConn, PushPumps, Opened, ConnEnds, Dialed, Hangs,
                       tableVars, entryVars, remoteVars
  <2>12. ASSUME NEW i \in Ids, AcceptFails(i) \/ (\E c \in Conns : Accept(i, c)) PROVE MapInv'
    BY <2>1, <2>12 DEF AcceptFails, Accept, tableVars, entryVars, remoteVars
  <2>13. ASSUME NEW p \in Ports, NEW c \in Conns, ForwardedIn(p, c) PROVE MapInv'
    BY <2>1, <2>13 DEF ForwardedIn, tableVars, entryVars, remoteVars
  <2>14. CASE StopGateway \/ (\E t \in pumps : PumpEnds(t)) \/ (\E t \in cut : Stop(t))
                \/ UNCHANGED fwdVars
    BY <2>1, <2>14 DEF StopGateway, PumpEnds, Stop, fwdVars, tableVars, entryVars, remoteVars
  <2>15. QED
    BY <2>2, <2>3, <2>4, <2>5, <2>6, <2>7, <2>8, <2>9, <2>10, <2>11, <2>12, <2>13, <2>14
    DEF ForwardsNext, RemoteSteps
<1>3. QED
  BY <1>1, <1>2, GatewayInvariant, PTL DEF ForwardsSpec

(* Between two operations the map of the remote ports leads where the table   *)
(* says, whatever the server made of what it was asked                        *)
(* (add_remote_port_forward, remove_port_forward).                            *)
THEOREM MapCorrect == ForwardsSpec => []MapFollowsTable
<1>1. MapInv => MapFollowsTable
  BY DEF MapInv, MapFollowsTable, Remote, Leaving, Idle
<1>2. QED
  BY <1>1, MapInvariant, PTL

-----------------------------------------------------------------------------
(* The web gateway                                                            *)

(* Only whole or capped bodies come of a chunked one: a connection that       *)
(* closes before the last chunk fails the request.                            *)
THEOREM ChunkedCorrect == GatewaySpec => []ChunkedIsNeverShort
<1> DEFINE RelayInv == relay \in Fetched \cup {Nothing}
<1>1. GatewayInit => RelayInv
  BY DEF GatewayInit
<1>2. RelayInv /\ [GatewayNext]_gwVars => RelayInv'
  BY DEF GatewayNext, Type, Follow, Refuse, Fails, RecoverByReferer, Fallback, Fetch,
     Unreachable, AnswerPage, AnswerOther, AnswerRedirect, OtherTab, gwVars
<1>3. ASSUME NEW chunks \in Chunkings, NEW n \in 0..Len(chunks) + 1, ReadChunked(chunks, n) # None
      PROVE  Verdict(ReadChunked(chunks, n), First(chunks, Len(chunks))) # "short"
  <2>0. Len(chunks) \in Nat
    BY LenProperties DEF Chunkings
  <2>1. CASE First(chunks, n) >= MaxBody
    BY <2>1 DEF ReadChunked, Verdict
  <2>2. CASE ~(First(chunks, n) >= MaxBody)
    <3>1. n > Len(chunks) /\ ReadChunked(chunks, n) = First(chunks, n)
      BY <1>3, <2>2 DEF ReadChunked
    <3>2. First(chunks, n) = First(chunks, Len(chunks))
      BY <2>0, <3>1 DEF First
    <3>3. QED
      BY <3>1, <3>2 DEF Verdict
  <2>3. QED
    BY <2>1, <2>2
<1>4. RelayInv => ChunkedIsNeverShort
  <2> SUFFICES ASSUME relay \in Fetched, relay[1] = "chunked" PROVE relay[2] # "short"
    BY DEF ChunkedIsNeverShort, Nothing
  <2>1. relay \in InChunks
    <3>1. (\A f \in OfLength : f[1] = "length") /\ (\A f \in ToClose : f[1] = "close")
      BY DEF OfLength, ToClose
    <3>2. QED
      BY <3>1 DEF Fetched
  <2>2. ASSUME NEW c \in Chunkings, NEW n \in 0..Len(c) + 1 PROVE OfChunks(c, n)[2] # "short"
    BY <1>3, <2>2 DEF OfChunks
  <2>3. PICK c \in Chunkings : relay \in {OfChunks(c, n) : n \in 0..Len(c) + 1}
    BY <2>1 DEF InChunks
  <2>4. QED
    BY <2>2, <2>3
<1>5. QED
  BY <1>1, <1>2, <1>4, PTL DEF GatewaySpec

(* What holds of 0 and of every number after one it holds of holds of all.    *)
LEMMA Upward ==
  ASSUME NEW n \in Nat, NEW T \in SUBSET (0..n), 0 \in T, \A i \in 1..n : i - 1 \in T => i \in T
  PROVE  \A i \in 0..n : i \in T
<1> SUFFICES ASSUME NEW j \in 0..n, j \notin T PROVE FALSE
  OBVIOUS
<1> DEFINE R == OpToRel(<, Nat)
           Rest == (0..n) \ T
<1>1. Rest \subseteq Nat /\ Rest # {}
  OBVIOUS
<1>2. \E x \in Rest : \A y \in Rest : ~(<<y, x>> \in R)
  <2> HIDE DEF Rest
  <2>1. IsWellFoundedOn(R, Nat)
    BY NatLessThanWellFounded
  <2> HIDE DEF R
  <2>2. QED
    BY <1>1, <2>1, WFMin
<1>3. \A x, y \in Nat : y < x => <<y, x>> \in R
  BY DEF OpToRel
<1>4. PICK x \in Rest : \A y \in Rest : ~(y < x)
  BY <1>1, <1>2, <1>3
<1>5. x # 0 /\ x - 1 \in 0..n /\ x - 1 < x
  BY <1>4
<1>6. x - 1 \in T
  BY <1>4, <1>5
<1>7. QED
  BY <1>4, <1>5, <1>6

(* A function is defined by its first value and how each one follows.         *)
Recursive(V, seed, n, G) ==
  \E t \in [0..n -> V] : t[0] = seed /\ \A i \in 1..n : t[i] = G[<<t[i - 1], i>>]

LEMMA Recursion ==
  ASSUME NEW V, NEW seed \in V, NEW n \in Nat, NEW G \in [V \X (1..n) -> V]
  PROVE  Recursive(V, seed, n, G)
<1> DEFINE Good(t, m) == t[0] = seed /\ \A i \in 1..m : t[i] = G[<<t[i - 1], i>>]
           T == {m \in 0..n : \E t \in [0..m -> V] : Good(t, m)}
<1>1. 0 \in T
  <2> DEFINE first == [i \in 0..0 |-> seed]
  <2>1. first \in [0..0 -> V] /\ Good(first, 0)
    OBVIOUS
  <2> HIDE DEF first
  <2>2. QED
    BY <2>1
<1>2. ASSUME NEW m \in 1..n, m - 1 \in T PROVE m \in T
  <2>1. PICK t \in [0..(m - 1) -> V] : Good(t, m - 1)
    BY <1>2
  <2> DEFINE next == G[<<t[m - 1], m>>]
             u == [i \in 0..m |-> IF i = m THEN next ELSE t[i]]
  <2>2. next \in V
    OBVIOUS
  <2>3. u \in [0..m -> V]
    BY <2>2
  <2>4. u[0] = seed
    BY <2>1
  <2>5. ASSUME NEW i \in 1..m PROVE u[i] = G[<<u[i - 1], i>>]
    <3>1. CASE i = m
      <4>1. u[i] = next /\ u[i - 1] = t[m - 1]
        BY <3>1
      <4>2. QED
        BY <3>1, <4>1
    <3>2. CASE i # m
      <4>1. i \in 1..(m - 1) /\ u[i] = t[i] /\ u[i - 1] = t[i - 1]
        BY <3>2
      <4>2. QED
        BY <2>1, <4>1
    <3>3. QED
      BY <3>1, <3>2
  <2>6. Good(u, m)
    BY <2>4, <2>5
  <2> HIDE DEF u
  <2>7. QED
    BY <2>3, <2>6
<1>3. n \in T
  <2>1. T \in SUBSET (0..n)
    OBVIOUS
  <2> HIDE DEF T
  <2>2. \A i \in 0..n : i \in T
    BY <1>1, <1>2, <2>1, Upward
  <2>3. QED
    BY <2>2
<1>4. QED
  BY <1>3 DEF Recursive

(* A walk is the recursion it is written as.                                  *)
WalkOf(t, path, drops) ==
  t = [i \in 0..Len(path) |-> IF i = 0 THEN <<>> ELSE DotStep(t[i - 1], path[i], drops)]

LEMMA FrontType ==
  ASSUME NEW X, NEW acc \in Seq(X), acc # <<>>
  PROVE  Front(acc) \in Seq(X) /\ Len(Front(acc)) = Len(acc) - 1
         /\ \A i \in 1..(Len(acc) - 1) : Front(acc)[i] = acc[i]
<1>1. Len(acc) \in Nat /\ Len(acc) > 0
  BY LenProperties, EmptySeq
<1>2. \A i \in 1..(Len(acc) - 1) : acc[i] \in X
  BY <1>1, ElementOfSeq
<1> DEFINE m == Len(acc) - 1
           q == SubSeq(acc, 1, m)
<1>3. m \in Nat /\ \A i \in 1..m : acc[i] \in X
  BY <1>1, <1>2
<1> HIDE DEF m
<1>4. /\ q \in Seq(X) /\ Len(q) = IF 1 <= m THEN m - 1 + 1 ELSE 0
      /\ \A i \in 1..m - 1 + 1 : q[i] = acc[1 + i - 1]
  BY <1>3, SubSeqProperties
<1> HIDE DEF q
<1>5. Len(q) = m /\ \A i \in 1..m : q[i] = acc[i]
  BY <1>3, <1>4
<1>6. Front(acc) = q
  BY DEF Front, m, q
<1>7. QED
  BY <1>4, <1>5, <1>6 DEF m

LEMMA DotStepType ==
  ASSUME NEW X, NEW drops, NEW acc \in Seq(X), NEW s \in X \cup drops \cup {Up}
  PROVE  DotStep(acc, s, drops) \in Seq(X)
<1>1. acc # <<>> => Front(acc) \in Seq(X)
  BY FrontType
<1>2. s \in X => Append(acc, s) \in Seq(X)
  BY AppendProperties
<1>3. QED
  BY <1>1, <1>2 DEF DotStep

LEMMA WalkSteps ==
  ASSUME NEW W, NEW drops, NEW path \in Seq(W)
  PROVE  /\ Walked(path, drops)[0] = <<>>
         /\ \A i \in 1..Len(path) :
              Walked(path, drops)[i] = DotStep(Walked(path, drops)[i - 1], path[i], drops)
<1> DEFINE n == Len(path)
           V == Seq(W)
           G == [x \in V \X (1..n) |-> DotStep(x[1], path[x[2]], drops)]
           taken == CHOOSE t : WalkOf(t, path, drops)
<1>1. n \in Nat /\ <<>> \in V /\ \A i \in 1..n : path[i] \in W
  BY LenProperties, EmptySeq, ElementOfSeq
<1>2. G \in [V \X (1..n) -> V]
  BY <1>1, DotStepType
<1>3. \E t \in [0..n -> V] : t[0] = <<>> /\ \A i \in 1..n : t[i] = G[<<t[i - 1], i>>]
  <2> DEFINE seed == <<>>
  <2>1. n \in Nat /\ seed \in V
    BY <1>1
  <2> HIDE DEF G, V, n, seed
  <2>2. Recursive(V, seed, n, G)
    BY <1>2, <2>1, Recursion
  <2>3. QED
    BY <2>2 DEF seed, Recursive
<1>4. PICK t \in [0..n -> V] : WalkOf(t, path, drops)
  <2>1. PICK t \in [0..n -> V] : t[0] = <<>> /\ \A i \in 1..n : t[i] = G[<<t[i - 1], i>>]
    BY <1>3
  <2>2. \A i \in 1..n : t[i - 1] \in V /\ t[i] = DotStep(t[i - 1], path[i], drops)
    <3>1. \A x \in V \X (1..n) : G[x] = DotStep(x[1], path[x[2]], drops)
      OBVIOUS
    <3> HIDE DEF G, V, n
    <3> SUFFICES ASSUME NEW i \in 1..n
                 PROVE  t[i - 1] \in V /\ t[i] = DotStep(t[i - 1], path[i], drops)
      OBVIOUS
    <3>2. i - 1 \in 0..n /\ t[i - 1] \in V
      BY <1>1
    <3>3. <<t[i - 1], i>> \in V \X (1..n)
      BY <3>2
    <3>4. G[<<t[i - 1], i>>] = DotStep(t[i - 1], path[i], drops)
      BY <3>1, <3>3
    <3>5. QED
      BY <2>1, <3>2, <3>4
  <2>3. WalkOf(t, path, drops)
    BY <1>1, <2>1, <2>2 DEF WalkOf
  <2>4. QED
    BY <2>3
<1>5. WalkOf(taken, path, drops)
  BY <1>4
<1>6. Walked(path, drops) = taken
  BY DEF Walked, WalkOf
<1> HIDE DEF taken
<1>7. taken[0] = <<>> /\ \A i \in 1..n : taken[i] = DotStep(taken[i - 1], path[i], drops)
  BY <1>1, <1>5 DEF WalkOf
<1>8. QED
  BY <1>6, <1>7

(* What a walk keeps is neither dropped nor goes up.                          *)
LEMMA WalkType ==
  ASSUME NEW W, NEW X, NEW drops, NEW path \in Seq(W), NEW m \in 0..Len(path),
         \A i \in 1..m : path[i] \in X \cup drops \cup {Up}
  PROVE  \A i \in 0..m : Walked(path, drops)[i] \in Seq(X)
<1> DEFINE t == Walked(path, drops)
           T == {i \in 0..m : t[i] \in Seq(X)}
<1>1. t[0] = <<>> /\ \A i \in 1..Len(path) : t[i] = DotStep(t[i - 1], path[i], drops)
  BY WalkSteps
<1>2. m \in Nat /\ \A i \in 1..m : i \in 1..Len(path) /\ i \in 0..m
  BY LenProperties
<1> HIDE DEF t
<1>3. 0 \in T
  <2>1. 0 \in 0..m /\ <<>> \in Seq(X)
    BY <1>2, EmptySeq
  <2>2. QED
    BY <1>1, <2>1
<1>4. ASSUME NEW i \in 1..m, i - 1 \in T PROVE i \in T
  <2>1. t[i - 1] \in Seq(X) /\ path[i] \in X \cup drops \cup {Up}
    BY <1>4
  <2>2. DotStep(t[i - 1], path[i], drops) \in Seq(X)
    BY <2>1, DotStepType
  <2>3. QED
    BY <1>1, <1>2, <2>2
<1>5. T \in SUBSET (0..m)
  OBVIOUS
<1>6. \A i \in 0..m : i \in T
  <2> HIDE DEF T
  <2>1. QED
    BY <1>2, <1>3, <1>4, <1>5, Upward
<1>7. QED
  BY <1>6 DEF t

(* Where no segment is empty it does not matter what becomes of empty ones.   *)
LEMMA WalksAgree ==
  ASSUME NEW W, Blank \notin W, NEW path \in Seq(W)
  PROVE  Walk(path, {Here, Blank}) = Walk(path, {Here})
<1> DEFINE n == Len(path)
           t == Walked(path, {Here, Blank})
           u == Walked(path, {Here})
           T == {i \in 0..n : t[i] = u[i]}
<1>1. t[0] = <<>> /\ \A i \in 1..n : t[i] = DotStep(t[i - 1], path[i], {Here, Blank})
  BY WalkSteps
<1>2. u[0] = <<>> /\ \A i \in 1..n : u[i] = DotStep(u[i - 1], path[i], {Here})
  BY WalkSteps
<1>3. n \in Nat /\ \A i \in 1..n : path[i] # Blank
  BY LenProperties, ElementOfSeq
<1> HIDE DEF t, u, n
<1>4. 0 \in T
  BY <1>1, <1>2, <1>3
<1>5. ASSUME NEW i \in 1..n, i - 1 \in T PROVE i \in T
  <2>1. t[i - 1] = u[i - 1]
    BY <1>5
  <2>2. path[i] \in {Here, Blank} <=> path[i] \in {Here}
    BY <1>3
  <2>3. DotStep(t[i - 1], path[i], {Here, Blank}) = DotStep(u[i - 1], path[i], {Here})
    BY <2>1, <2>2 DEF DotStep
  <2>4. t[i] = u[i]
    BY <1>1, <1>2, <2>3
  <2>5. QED
    BY <1>3, <2>4
<1>6. T \in SUBSET (0..n)
  OBVIOUS
<1>7. n \in T
  <2> HIDE DEF T
  <2>1. \A i \in 0..n : i \in T
    BY <1>3, <1>4, <1>5, <1>6, Upward
  <2>2. QED
    BY <1>3, <2>1
<1>8. QED
  BY <1>7 DEF t, u, n, Walk

-----------------------------------------------------------------------------
(* The segments an address of the gateway has: no dots.                       *)
Solid == Words \ {Here, Up}

LEMMA WordsThere ==
  /\ {Here, Up, Blank, Prefix} \cup Schemes \cup Hosts \subseteq Words
  /\ Here # Blank /\ Up # Blank /\ Here # Up /\ Prefix \notin Schemes
  /\ {Blank, Prefix} \cup Schemes \cup Hosts \subseteq Solid
<1>1. Here # Blank
  BY Zenon DEF Here, Blank
<1>2. Up # Blank
  BY Zenon DEF Up, Blank
<1>3. Here # Up
  BY Zenon DEF Here, Up
<1>4. Prefix \notin Schemes
  BY DEF Prefix, Schemes
<1>5. Prefix # Here /\ Prefix # Up
  BY Zenon DEF Prefix, Here, Up
<1>6. Here \notin Schemes /\ Up \notin Schemes
  BY Zenon DEF Schemes, Here, Up
<1>7. Hosts \cap {Here, Up, Blank} = {}
  BY GatewayAssumption
<1>8. {Here, Up, Blank, Prefix} \cup Schemes \cup Hosts \subseteq Words
  BY GatewayAssumption
<1>9. QED
  BY <1>1, <1>2, <1>3, <1>4, <1>5, <1>6, <1>7, <1>8 DEF Solid

LEMMA SolidWords == Seq(Solid) \subseteq Seq(Words)
BY SeqMonotonic DEF Solid

(* Taking the dots away leaves a path with no dots, ...                       *)
LEMMA DotsType ==
  ASSUME NEW path \in Seq(Words), Len(path) > 0
  PROVE  Dots(path) \in Seq(Solid) /\ Len(Dots(path)) > 0
<1> DEFINE n == Len(path)
           t == Walked(path, {Here})
<1>1. n \in Nat \ {0} /\ \A i \in 1..n : path[i] \in Words
  BY LenProperties, ElementOfSeq
<1>2. \A i \in 1..n : path[i] \in Solid \cup {Here} \cup {Up}
  BY <1>1 DEF Solid
<1>3. n \in 0..n /\ n - 1 \in 0..n /\ n \in 1..n
  BY <1>1
<1>4. \A i \in 0..n : t[i] \in Seq(Solid)
  BY <1>2, <1>3, WalkType
<1>5. t[n] = DotStep(t[n - 1], path[n], {Here})
  BY <1>3, WalkSteps
<1> HIDE DEF t, n
<1>6. t[n] \in Seq(Solid) /\ t[n - 1] \in Seq(Solid)
  BY <1>3, <1>4
<1>7. Blank \in Solid
  BY WordsThere
<1>8. Dots(path) = IF path[n] \in {Here, Up} THEN Append(t[n], Blank) ELSE t[n]
  BY DEF Dots, Walk, Last, t, n
<1>9. CASE path[n] \in {Here, Up}
  BY <1>6, <1>7, <1>8, <1>9, AppendProperties, LenProperties
<1>10. CASE path[n] \notin {Here, Up}
  <2>1. t[n] = Append(t[n - 1], path[n]) /\ path[n] \in Solid
    BY <1>1, <1>3, <1>5, <1>10 DEF DotStep, Solid
  <2>2. Len(t[n - 1]) \in Nat /\ Len(t[n]) = Len(t[n - 1]) + 1
    BY <1>6, <2>1, AppendProperties, LenProperties
  <2>3. QED
    BY <1>6, <1>8, <1>10, <2>2
<1>11. QED
  BY <1>9, <1>10

(* ... and of no path with empty segments but the last.                       *)
LEMMA DotsPath ==
  ASSUME NEW path \in Paths
  PROVE  Dots(path) \in Paths
<1> DEFINE n == Len(path)
           t == Walked(path, {Here})
           W == Words \ {Blank}
<1>1. path \in Seq(Words) /\ n \in Nat \ {0} /\ \A i \in 1..n : path[i] \in Words
  BY LenProperties, ElementOfSeq DEF Paths
<1>2. \A i \in 1..(n - 1) : path[i] \in W \cup {Here} \cup {Up}
  BY <1>1 DEF Paths
<1>3. n - 1 \in 0..n /\ n \in 1..n /\ n - 1 \in 0..(n - 1)
  BY <1>1
<1>4. t[n - 1] \in Seq(W)
  BY <1>1, <1>2, <1>3, WalkType
<1>5. t[n] = DotStep(t[n - 1], path[n], {Here})
  BY <1>1, <1>3, WalkSteps
<1> HIDE DEF t, n
<1>6. Dots(path) = IF path[n] \in {Here, Up} THEN Append(t[n], Blank) ELSE t[n]
  BY DEF Dots, Walk, Last, t, n
<1>7. ASSUME NEW q \in Seq(W), NEW s \in Words PROVE Append(q, s) \in Paths
  <2>1. q \in Seq(Words)
    BY <1>7, SeqMonotonic
  <2>2. Len(q) \in Nat /\ \A i \in 1..Len(q) : q[i] \in W
    BY LenProperties, ElementOfSeq
  <2>3. /\ Append(q, s) \in Seq(Words) /\ Len(Append(q, s)) = Len(q) + 1
        /\ \A i \in 1..Len(q) : Append(q, s)[i] = q[i]
    BY <2>1, AppendProperties
  <2>4. Len(Append(q, s)) > 0 /\ \A i \in 1..(Len(Append(q, s)) - 1) : Append(q, s)[i] # Blank
    BY <2>2, <2>3
  <2>5. QED
    BY <2>3, <2>4 DEF Paths
<1>8. CASE path[n] \in {Here, Up}
  <2>1. t[n] \in Seq(W)
    BY <1>4, <1>5, <1>8, DotStepType
  <2>2. Blank \in Words
    BY WordsThere
  <2>3. QED
    BY <1>6, <1>7, <1>8, <2>1, <2>2
<1>9. CASE path[n] \notin {Here, Up}
  <2>1. t[n] = Append(t[n - 1], path[n])
    BY <1>5, <1>9 DEF DotStep
  <2>2. QED
    BY <1>1, <1>3, <1>4, <1>6, <1>7, <1>9, <2>1
<1>10. QED
  BY <1>8, <1>9

(* A path without dots stays as it is.                                        *)
LEMMA DotlessStays ==
  ASSUME NEW path \in Seq(Solid), Len(path) > 0
  PROVE  Dots(path) = path
<1> DEFINE n == Len(path)
           t == Walked(path, {Here})
           T == {i \in 0..n : t[i] \in Seq(Solid) /\ Len(t[i]) = i /\ \A k \in 1..i : t[i][k] = path[k]}
<1>1. n \in Nat \ {0} /\ \A i \in 1..n : path[i] \in Solid
  BY LenProperties, ElementOfSeq
<1>2. t[0] = <<>> /\ \A i \in 1..n : t[i] = DotStep(t[i - 1], path[i], {Here})
  BY WalkSteps
<1> HIDE DEF t, n
<1>3. 0 \in T
  <2>1. 0 \in 0..n /\ <<>> \in Seq(Solid) /\ Len(<<>>) = 0
    BY <1>1, EmptySeq
  <2>2. \A k \in 1..0 : FALSE
    OBVIOUS
  <2>3. QED
    BY <1>2, <2>1, <2>2
<1>4. ASSUME NEW i \in 1..n, i - 1 \in T PROVE i \in T
  <2> DEFINE q == t[i - 1]
  <2>1. q \in Seq(Solid) /\ Len(q) = i - 1 /\ \A k \in 1..(i - 1) : q[k] = path[k]
    BY <1>4
  <2>2. path[i] \in Solid /\ path[i] # Here /\ path[i] # Up
    BY <1>1 DEF Solid
  <2>3. t[i] = Append(q, path[i])
    BY <1>2, <2>2 DEF DotStep
  <2> HIDE DEF q
  <2>4. /\ t[i] \in Seq(Solid) /\ Len(t[i]) = Len(q) + 1
        /\ \A k \in 1..Len(q) : t[i][k] = q[k]
        /\ t[i][Len(q) + 1] = path[i]
    BY <2>1, <2>2, <2>3, AppendProperties
  <2>5. i \in Nat /\ i \in 0..n /\ (i - 1) + 1 = i
    BY <1>1
  <2>6. \A k \in 1..i : t[i][k] = path[k]
    BY <2>1, <2>4, <2>5
  <2>7. QED
    BY <2>1, <2>4, <2>5, <2>6
<1>5. T \in SUBSET (0..n)
  OBVIOUS
<1>6. n \in T
  <2> HIDE DEF T
  <2>1. \A i \in 0..n : i \in T
    BY <1>1, <1>3, <1>4, <1>5, Upward
  <2>2. QED
    BY <1>1, <2>1
<1>7. t[n] = path
  BY <1>6, SeqEqual DEF n
<1>8. path[n] \notin {Here, Up}
  BY <1>1 DEF Solid
<1>9. QED
  BY <1>7, <1>8 DEF Dots, Walk, Last, t, n

LEMMA AppendSolid ==
  ASSUME NEW q \in Seq(Solid), NEW e \in Solid
  PROVE  /\ Append(q, e) \in Seq(Solid) /\ Len(Append(q, e)) = Len(q) + 1
         /\ Append(q, e)[Len(q) + 1] = e
         /\ \A k \in 1..Len(q) : Append(q, e)[k] = q[k]
BY AppendProperties

LEMMA JoinAppend ==
  ASSUME NEW b \in Seq(Words), NEW acc \in Seq(Words), NEW s \in Words
  PROVE  Append(b \o acc, s) = b \o Append(acc, s)
<1>1. b \o acc \in Seq(Words) /\ <<s>> \in Seq(Words)
  BY ConcatProperties
<1>2. Append(b \o acc, s) = (b \o acc) \o <<s>> /\ Append(acc, s) = acc \o <<s>>
  BY <1>1, AppendIsConcat
<1>3. (b \o acc) \o <<s>> = b \o (acc \o <<s>>)
  BY <1>1, ConcatAssociative
<1>4. QED
  BY <1>2, <1>3

LEMMA JoinFront ==
  ASSUME NEW S, NEW b \in Seq(S), NEW acc \in Seq(S), acc # <<>>
  PROVE  b \o acc # <<>> /\ Front(b \o acc) = b \o Front(acc)
<1> DEFINE x == b \o acc
           y == b \o Front(acc)
<1>1. x \in Seq(S) /\ x # <<>>
  BY ConcatProperties, ConcatEqualIffEmpty
<1>2. /\ Front(x) \in Seq(S) /\ Len(Front(x)) = Len(x) - 1
      /\ \A i \in 1..(Len(x) - 1) : Front(x)[i] = x[i]
  <2> HIDE DEF x
  <2>1. QED
    BY <1>1, FrontType
<1>3. /\ Front(acc) \in Seq(S) /\ Len(Front(acc)) = Len(acc) - 1
      /\ \A i \in 1..(Len(acc) - 1) : Front(acc)[i] = acc[i]
  BY FrontType
<1>4. Len(acc) \in Nat \ {0} /\ Len(b) \in Nat
  BY EmptySeq, LenProperties
<1>5. Len(x) = Len(b) + Len(acc)
      /\ \A i \in 1..(Len(b) + Len(acc)) : x[i] = IF i <= Len(b) THEN b[i] ELSE acc[i - Len(b)]
  BY ConcatProperties
<1>6. y \in Seq(S) /\ Len(y) = Len(b) + (Len(acc) - 1)
      /\ \A i \in 1..(Len(b) + (Len(acc) - 1)) :
           y[i] = IF i <= Len(b) THEN b[i] ELSE Front(acc)[i - Len(b)]
  <2> DEFINE q == Front(acc)
  <2>1. q \in Seq(S) /\ Len(q) = Len(acc) - 1
    BY <1>3
  <2> HIDE DEF q
  <2>2. b \o q \in Seq(S) /\ Len(b \o q) = Len(b) + Len(q)
        /\ \A i \in 1..(Len(b) + Len(q)) : (b \o q)[i] = IF i <= Len(b) THEN b[i] ELSE q[i - Len(b)]
    BY <2>1, ConcatProperties
  <2>3. QED
    BY <2>1, <2>2 DEF q
<1> HIDE DEF x, y
<1>7. Len(Front(x)) = Len(y) /\ \A i \in 1..Len(Front(x)) : Front(x)[i] = y[i]
  <2>1. Len(Front(x)) = Len(y) /\ Len(y) \in Nat
    BY <1>2, <1>4, <1>5, <1>6
  <2>2. ASSUME NEW i \in 1..Len(y) PROVE Front(x)[i] = y[i]
    <3>1. i \in 1..(Len(x) - 1) /\ i \in 1..(Len(b) + Len(acc)) /\ i \in 1..(Len(b) + (Len(acc) - 1))
      BY <1>4, <1>5, <1>6, <2>2
    <3>2. CASE i <= Len(b)
      BY <1>2, <1>5, <1>6, <3>1, <3>2
    <3>3. CASE ~(i <= Len(b))
      <4>1. i - Len(b) \in 1..(Len(acc) - 1)
        BY <1>4, <3>1, <3>3
      <4>2. QED
        BY <1>2, <1>3, <1>5, <1>6, <3>1, <3>3, <4>1
    <3>4. QED
      BY <3>2, <3>3
  <2>3. QED
    BY <2>1, <2>2
<1>8. Front(x) = y
  BY <1>2, <1>6, <1>7, SeqEqual
<1>9. QED
  BY <1>1, <1>8 DEF x, y

(* Dots below three segments without any are dots of the path alone, as long  *)
(* as that does not climb.                                                    *)
LEMMA DotsBelow ==
  ASSUME NEW b \in Seq(Solid), Len(b) = 3, NEW path \in Seq(Words), Len(path) > 0, ~Climbs(path)
  PROVE  Dots(b \o path) = b \o Dots(path)
<1> DEFINE n == Len(path)
           whole == b \o path
           t == Walked(whole, {Here})
           u == Walked(path, {Here})
           T == {i \in 0..n : t[3 + i] = b \o u[i]}
<1>1. n \in Nat \ {0} /\ \A i \in 1..n : path[i] \in Words
  BY LenProperties, ElementOfSeq
<1>2. b \in Seq(Words) /\ b[1] \in Solid /\ b[2] \in Solid /\ b[3] \in Solid
  <2>1. 1 \in 1..Len(b) /\ 2 \in 1..Len(b) /\ 3 \in 1..Len(b)
    OBVIOUS
  <2>2. b[1] \in Solid /\ b[2] \in Solid /\ b[3] \in Solid
    BY <2>1, ElementOfSeq
  <2>3. QED
    BY <2>2, SolidWords
<1>3. /\ whole \in Seq(Words) /\ Len(whole) = 3 + n
      /\ whole[1] = b[1] /\ whole[2] = b[2] /\ whole[3] = b[3]
      /\ \A i \in 1..n : whole[3 + i] = path[i]
  <2>1. /\ b \o path \in Seq(Words) /\ Len(b \o path) = Len(b) + Len(path)
        /\ \A i \in 1..(Len(b) + Len(path)) :
             (b \o path)[i] = IF i <= Len(b) THEN b[i] ELSE path[i - Len(b)]
    BY <1>2, ConcatProperties
  <2> HIDE DEF whole
  <2>2. \A i \in 1..n : 3 + i \in 1..(3 + n) /\ ~(3 + i <= 3) /\ (3 + i) - 3 = i
    BY <1>1
  <2>3. 1 \in 1..(3 + n) /\ 2 \in 1..(3 + n) /\ 3 \in 1..(3 + n)
    BY <1>1
  <2>4. QED
    BY <2>1, <2>2, <2>3 DEF whole
<1> HIDE DEF whole, n
<1>4. t[0] = <<>> /\ \A i \in 1..(3 + n) : t[i] = DotStep(t[i - 1], whole[i], {Here})
  BY <1>3, WalkSteps
<1>5. u[0] = <<>> /\ \A i \in 1..n : u[i] = DotStep(u[i - 1], path[i], {Here})
  BY WalkSteps DEF n
<1>6. \A i \in 0..n : u[i] \in Seq(Solid)
  <2>1. \A i \in 1..n : path[i] \in Solid \cup {Here} \cup {Up}
    BY <1>1 DEF Solid
  <2>2. n \in 0..Len(path)
    BY <1>1 DEF n
  <2>3. QED
    BY <2>1, <2>2, WalkType
<1>7. \A i \in 1..n : path[i] = Up => u[i - 1] # <<>>
  BY DEF Climbs, n
<1> HIDE DEF t, u
<1>8. 0 \in T
  <2>1. t[1] = DotStep(t[0], b[1], {Here}) /\ t[2] = DotStep(t[1], b[2], {Here})
        /\ t[3] = DotStep(t[2], b[3], {Here})
    <3>1. /\ 1 \in 1..(3 + n) /\ 2 \in 1..(3 + n) /\ 3 \in 1..(3 + n)
          /\ 1 - 1 = 0 /\ 2 - 1 = 1 /\ 3 - 1 = 2
      BY <1>1
    <3>2. QED
      BY <1>3, <1>4, <3>1
  <2>2. \A acc, s : s \in Solid => DotStep(acc, s, {Here}) = Append(acc, s)
    BY DEF DotStep, Solid
  <2> DEFINE none == <<>>
             x == Append(none, b[1])
             y == Append(x, b[2])
             z == Append(y, b[3])
  <2>3. t[3] = z
    <3> HIDE DEF x, y, z
    <3>1. t[0] = none
      BY <1>4
    <3> HIDE DEF none
    <3>2. t[1] = x
      BY <1>2, <2>1, <2>2, <3>1 DEF x
    <3>3. t[2] = y
      BY <1>2, <2>1, <2>2, <3>2 DEF y
    <3>4. QED
      BY <1>2, <2>1, <2>2, <3>3 DEF z
  <2>4. z \in Seq(Solid) /\ Len(z) = 3 /\ z[1] = b[1] /\ z[2] = b[2] /\ z[3] = b[3]
    <3>1. none \in Seq(Solid) /\ Len(none) = 0
      BY EmptySeq
    <3> HIDE DEF none
    <3>2. x \in Seq(Solid) /\ Len(x) = 1 /\ x[1] = b[1]
      BY <1>2, <3>1, AppendProperties
    <3> HIDE DEF x
    <3>3. y \in Seq(Solid) /\ Len(y) = 2 /\ y[1] = b[1] /\ y[2] = b[2]
      <4>1. /\ y \in Seq(Solid) /\ Len(y) = Len(x) + 1 /\ y[Len(x) + 1] = b[2]
            /\ \A k \in 1..Len(x) : y[k] = x[k]
        BY <1>2, <3>2, AppendSolid
      <4> HIDE DEF y
      <4>2. 1 \in 1..Len(x) /\ Len(x) + 1 = 2
        BY <3>2
      <4>3. QED
        BY <3>2, <4>1, <4>2
    <3> HIDE DEF y
    <3>4. /\ z \in Seq(Solid) /\ Len(z) = Len(y) + 1 /\ z[Len(y) + 1] = b[3]
          /\ \A k \in 1..Len(y) : z[k] = y[k]
      BY <1>2, <3>3, AppendSolid
    <3> HIDE DEF z
    <3>5. 1 \in 1..Len(y) /\ 2 \in 1..Len(y) /\ Len(y) + 1 = 3
      BY <3>3
    <3>6. QED
      BY <3>3, <3>4, <3>5
  <2> HIDE DEF z
  <2>5. z = b
    <3>1. \A i \in 1..Len(z) : i = 1 \/ i = 2 \/ i = 3
      BY <2>4
    <3>2. QED
      BY <2>4, <3>1, SeqEqual
  <2>6. b \o <<>> = b
    BY ConcatEmptySeq
  <2>7. t[3 + 0] = b \o u[0]
    BY <1>5, <2>3, <2>5, <2>6
  <2>8. QED
    BY <1>1, <2>7
<1>9. ASSUME NEW i \in 1..n, i - 1 \in T PROVE i \in T
  <2> DEFINE acc == u[i - 1]
  <2>1. t[3 + (i - 1)] = b \o acc /\ acc \in Seq(Solid)
    BY <1>1, <1>6, <1>9
  <2>2. 3 + i \in 1..(3 + n) /\ (3 + i) - 1 = 3 + (i - 1)
    BY <1>1
  <2>3. t[3 + i] = DotStep(b \o acc, path[i], {Here}) /\ u[i] = DotStep(acc, path[i], {Here})
    BY <1>3, <1>4, <1>5, <2>1, <2>2
  <2>4. path[i] = Up => acc # <<>>
    BY <1>7
  <2> HIDE DEF acc
  <2>5. CASE path[i] = Here
    <3>1. \A q, s : s = Here => DotStep(q, s, {Here}) = q
      BY WordsThere DEF DotStep
    <3>2. t[3 + i] = b \o acc /\ u[i] = acc
      BY <2>3, <2>5, <3>1
    <3>3. QED
      BY <1>1, <3>2
  <2>6. CASE path[i] # Here /\ path[i] # Up
    <3>1. t[3 + i] = Append(b \o acc, path[i]) /\ u[i] = Append(acc, path[i])
      BY <2>3, <2>6 DEF DotStep, acc
    <3>2. b \in Seq(Words) /\ acc \in Seq(Words) /\ path[i] \in Words
      BY <1>1, <1>2, <2>1, SolidWords
    <3> DEFINE s == path[i]
    <3>3. b \in Seq(Words) /\ acc \in Seq(Words) /\ s \in Words
      BY <3>2
    <3> HIDE DEF s
    <3>4. Append(b \o acc, s) = b \o Append(acc, s)
      BY <3>3, JoinAppend
    <3>5. t[3 + i] = Append(b \o acc, s) /\ u[i] = Append(acc, s)
      BY <3>1 DEF s
    <3>6. t[3 + i] = b \o u[i]
      BY <3>4, <3>5, Zenon
    <3>7. QED
      BY <1>1, <3>6
  <2>7. CASE path[i] = Up
    <3>1. acc # <<>> /\ b \o acc # <<>>
      BY <2>1, <2>4, <2>7, JoinFront
    <3>2. path[i] # Here
      BY <2>7, WordsThere
    <3>3. t[3 + i] = Front(b \o acc) /\ u[i] = Front(acc)
      BY <2>3, <2>7, <3>1, <3>2 DEF DotStep
    <3>4. Front(b \o acc) = b \o Front(acc)
      BY <2>1, <3>1, JoinFront
    <3>5. QED
      BY <1>1, <3>3, <3>4
  <2>8. QED
    BY <2>5, <2>6, <2>7
<1>10. T \in SUBSET (0..n)
  OBVIOUS
<1>11. n \in T
  <2> HIDE DEF T
  <2>1. \A i \in 0..n : i \in T
    BY <1>1, <1>8, <1>9, <1>10, Upward
  <2>2. QED
    BY <1>1, <2>1
<1>12. t[3 + n] = b \o u[n] /\ whole[3 + n] = path[n] /\ u[n] \in Seq(Solid)
  BY <1>1, <1>3, <1>6, <1>11
<1>13. Dots(whole) = IF path[n] \in {Here, Up} THEN Append(b \o u[n], Blank) ELSE b \o u[n]
  BY <1>3, <1>12 DEF Dots, Walk, Last, t
<1>14. Dots(path) = IF path[n] \in {Here, Up} THEN Append(u[n], Blank) ELSE u[n]
  BY DEF Dots, Walk, Last, u, n
<1>15. Append(b \o u[n], Blank) = b \o Append(u[n], Blank)
  <2> DEFINE q == u[n]
  <2>1. q \in Seq(Words) /\ Blank \in Words
    BY <1>12, WordsThere, SolidWords
  <2> HIDE DEF q
  <2>2. Append(b \o q, Blank) = b \o Append(q, Blank)
    BY <2>1, <1>2, SolidWords, JoinAppend
  <2>3. QED
    BY <2>2 DEF q
<1>16. QED
  BY <1>13, <1>14, <1>15 DEF whole

-----------------------------------------------------------------------------
(* An address of the gateway, and whose page it is.                           *)
Address(a) == a \in Seq(Solid) /\ Len(a) >= 3 /\ a[1] = Prefix /\ a[2] \in Schemes
SiteOf(a) == <<a[2], a[3]>>

LEMMA ParseAddress ==
  ASSUME NEW a, Address(a)
  PROVE  /\ Parse(a).scheme = a[2] /\ Parse(a).host = a[3]
         /\ a[2] \in Schemes /\ a[3] \in Solid
         /\ Parse(a).path \in Seq(Solid) /\ Len(Parse(a).path) > 0
<1>1. Len(a) \in Nat /\ \A i \in 1..Len(a) : a[i] \in Solid
  BY LenProperties, ElementOfSeq DEF Address
<1>2. Parse(a).scheme = a[2] /\ Parse(a).host = a[3]
  BY DEF Parse, Url
<1>3. a[3] \in Solid
  BY <1>1 DEF Address
<1>4. CASE Len(a) = 3
  <2>1. Parse(a).path = <<Blank>>
    BY <1>4 DEF Parse, Url
  <2>2. <<Blank>> \in Seq(Solid) /\ Len(<<Blank>>) = 1
    BY WordsThere
  <2>3. QED
    BY <1>2, <1>3, <2>1, <2>2 DEF Address
<1>5. CASE Len(a) # 3
  <2>1. Parse(a).path = SubSeq(a, 4, Len(a))
    BY <1>5 DEF Parse, Url
  <2>2. 4 <= Len(a) /\ \A i \in 4..Len(a) : a[i] \in Solid
    <3>1. 4 <= Len(a)
      <4>1. Len(a) \in Nat /\ Len(a) >= 3 /\ Len(a) # 3
        BY <1>1, <1>5 DEF Address
      <4> DEFINE n == Len(a)
      <4> HIDE DEF n
      <4>2. n \in Nat /\ n >= 3 /\ n # 3 => 4 <= n
        OBVIOUS
      <4>3. QED
        BY <4>1, <4>2 DEF n
    <3>2. \A i \in 4..Len(a) : i \in 1..Len(a)
      BY <1>1
    <3>3. QED
      BY <1>1, <3>1, <3>2
  <2>3. SubSeq(a, 4, Len(a)) \in Seq(Solid) /\ Len(SubSeq(a, 4, Len(a))) = Len(a) - 3
    BY <1>1, <2>2, SubSeqProperties
  <2>4. QED
    BY <1>1, <1>2, <1>3, <2>1, <2>2, <2>3 DEF Address
<1>6. QED
  BY <1>4, <1>5

(* What follows the site in an address is the path.                           *)
LEMMA JoinAddress ==
  ASSUME NEW b \in Seq(Solid), Len(b) = 3, b[1] = Prefix, b[2] \in Schemes,
         NEW p \in Seq(Solid)
  PROVE  /\ Address(b \o p) /\ IsProxied(b \o p) /\ SiteOf(b \o p) = SiteOf(b)
         /\ Len(p) > 0 => Parse(b \o p).path = p
<1> DEFINE a == b \o p
<1>1. a \in Seq(Solid) /\ Len(a) = 3 + Len(p) /\ Len(p) \in Nat
      /\ \A i \in 1..(3 + Len(p)) : a[i] = IF i <= 3 THEN b[i] ELSE p[i - 3]
  <2>1. /\ b \o p \in Seq(Solid) /\ Len(b \o p) = Len(b) + Len(p)
        /\ \A i \in 1..(Len(b) + Len(p)) : (b \o p)[i] = IF i <= Len(b) THEN b[i] ELSE p[i - Len(b)]
    BY ConcatProperties
  <2>2. Len(p) \in Nat
    BY LenProperties
  <2> HIDE DEF a
  <2>3. QED
    BY <2>1, <2>2 DEF a
<1>2. a[1] = Prefix /\ a[2] = b[2] /\ a[3] = b[3] /\ Len(a) >= 3
  BY <1>1
<1>3. Len(p) > 0 => SubSeq(a, 4, Len(a)) = p
  <2> SUFFICES ASSUME Len(p) > 0 PROVE SubSeq(a, 4, Len(a)) = p
    OBVIOUS
  <2>1. SubSeq(a, 4, Len(a)) = SubSeq(p, 4 - Len(b), Len(a) - Len(b))
    BY <1>1, SubSeqOfConcat2
  <2>2. SubSeq(p, 1, Len(p)) = p
    BY SubSeqFull
  <2>3. QED
    BY <1>1, <2>1, <2>2
<1>4. Len(p) > 0 => Parse(a).path = p
  BY <1>1, <1>3 DEF Parse, Url
<1> HIDE DEF a
<1>5. Address(a) /\ IsProxied(a) /\ SiteOf(a) = SiteOf(b)
  BY <1>1, <1>2 DEF Address, IsProxied, SiteOf
<1>6. QED
  BY <1>4, <1>5 DEF a

LEMMA ProxiedAddress ==
  ASSUME NEW scheme \in Schemes, NEW host \in Solid, NEW p \in Seq(Solid)
  PROVE  LET a == Proxied(Url(scheme, host, p))
         IN  /\ Address(a) /\ IsProxied(a) /\ SiteOf(a) = <<scheme, host>>
             /\ Len(p) > 0 => Parse(a).path = p
<1> DEFINE b == <<Prefix, scheme, host>>
<1>1. b \in Seq(Solid) /\ Len(b) = 3 /\ b[1] = Prefix /\ b[2] = scheme /\ b[3] = host
  <2>1. Prefix \in Solid /\ scheme \in Solid
    BY WordsThere
  <2>2. QED
    BY <2>1
<1>2. Proxied(Url(scheme, host, p)) = b \o p
  BY DEF Proxied, Url
<1> HIDE DEF b
<1>3. QED
  BY <1>1, <1>2, JoinAddress DEF SiteOf

(* The dots of an address of the gateway are those of its path, if that does  *)
(* not climb out of the site.                                                 *)
LEMMA ProxiedDots ==
  ASSUME NEW scheme \in Schemes, NEW host \in Solid, NEW p \in Seq(Words), Len(p) > 0, ~Climbs(p)
  PROVE  LET a == Dots(Proxied(Url(scheme, host, p)))
         IN  /\ Address(a) /\ IsProxied(a) /\ SiteOf(a) = <<scheme, host>>
             /\ Parse(a).path = Dots(p)
<1> DEFINE b == <<Prefix, scheme, host>>
<1>1. b \in Seq(Solid) /\ Len(b) = 3
  <2>1. Prefix \in Solid /\ scheme \in Solid
    BY WordsThere
  <2>2. QED
    BY <2>1
<1>2. Proxied(Url(scheme, host, p)) = b \o p
  BY DEF Proxied, Url
<1>3. Proxied(Url(scheme, host, Dots(p))) = b \o Dots(p)
  BY DEF Proxied, Url
<1> HIDE DEF b
<1>4. Dots(Proxied(Url(scheme, host, p))) = Proxied(Url(scheme, host, Dots(p)))
  BY <1>1, <1>2, <1>3, DotsBelow
<1>5. Dots(p) \in Seq(Solid) /\ Len(Dots(p)) > 0
  BY DotsType
<1>6. QED
  BY <1>4, <1>5, ProxiedAddress

LEMMA ProxiedWords ==
  ASSUME NEW scheme \in Schemes, NEW host \in Solid, NEW p \in Seq(Words)
  PROVE  /\ Proxied(Url(scheme, host, p)) \in Seq(Words)
         /\ Len(Proxied(Url(scheme, host, p))) > 0
<1> DEFINE b == <<Prefix, scheme, host>>
<1>1. b \in Seq(Words) /\ Len(b) = 3
  <2>1. Prefix \in Words /\ scheme \in Words /\ host \in Words
    BY WordsThere DEF Solid
  <2>2. QED
    BY <2>1
<1>2. Proxied(Url(scheme, host, p)) = b \o p
  BY DEF Proxied, Url
<1> HIDE DEF b
<1>3. b \o p \in Seq(Words) /\ Len(b \o p) = Len(b) + Len(p)
  BY <1>1, ConcatProperties
<1>4. Len(p) \in Nat
  BY LenProperties
<1>5. QED
  BY <1>1, <1>2, <1>3, <1>4

(* A request that has lost its prefix gets that of an address.                *)
LEMMA RecoveredAddress ==
  ASSUME NEW r, Address(r), NEW p \in Seq(Solid)
  PROVE  LET a == SubSeq(r, 1, 3) \o p
         IN  /\ Address(a) /\ IsProxied(a) /\ SiteOf(a) = SiteOf(r)
             /\ Len(p) > 0 => Parse(a).path = p
<1> DEFINE b == SubSeq(r, 1, 3)
<1>1. Len(r) \in Nat /\ \A i \in 1..3 : r[i] \in Solid
  BY LenProperties, ElementOfSeq DEF Address
<1>2. b \in Seq(Solid) /\ Len(b) = 3 /\ b[1] = r[1] /\ b[2] = r[2] /\ b[3] = r[3]
  BY <1>1, SubSeqProperties
<1> HIDE DEF b
<1>3. Address(b \o p) /\ IsProxied(b \o p) /\ SiteOf(b \o p) = SiteOf(b)
      /\ (Len(p) > 0 => Parse(b \o p).path = p)
  BY <1>2, JoinAddress DEF Address
<1>4. SiteOf(b) = SiteOf(r)
  BY <1>2 DEF SiteOf
<1>5. QED
  BY <1>3, <1>4 DEF b

-----------------------------------------------------------------------------
(* Relative redirects: where the browser goes and where the gateway sends it. *)
LEMMA FrontClean ==
  ASSUME NEW p \in Paths
  PROVE  Front(p) \in Seq(Words \ {Blank})
<1>1. Len(p) \in Nat /\ Len(p) > 0 /\ \A i \in 1..Len(p) : p[i] \in Words
  BY LenProperties, ElementOfSeq DEF Paths
<1>2. \A i \in 1..(Len(p) - 1) : p[i] \in Words \ {Blank}
  BY <1>1 DEF Paths
<1>3. SubSeq(p, 1, Len(p) - 1) \in Seq(Words \ {Blank})
  BY <1>1, <1>2, SubSeqProperties
<1>4. QED
  BY <1>3 DEF Front

LEMMA WholeClean ==
  ASSUME NEW p \in Paths, Last(p) # Blank
  PROVE  p \in Seq(Words \ {Blank})
<1>1. p \in Seq(Words) /\ Len(p) \in Nat /\ Len(p) > 0 /\ \A i \in 1..Len(p) : p[i] \in Words
  BY LenProperties, ElementOfSeq DEF Paths
<1>2. \A i \in 1..Len(p) : p[i] \in Words \ {Blank}
  BY <1>1 DEF Paths, Last
<1>3. SubSeq(p, 1, Len(p)) \in Seq(Words \ {Blank})
  BY <1>1, <1>2, SubSeqProperties
<1>4. QED
  BY <1>1, <1>3, SubSeqFull

(* A relative link after the directory of a path.                             *)
LEMMA BelowFront ==
  ASSUME NEW p \in Seq(Solid), Len(p) > 0, NEW rel \in Paths
  PROVE  Front(p) \o rel \in Seq(Words) /\ Len(Front(p) \o rel) > 0
<1>1. p # <<>>
  BY EmptySeq
<1>2. Front(p) \in Seq(Words)
  BY <1>1, FrontType, SolidWords
<1>3. rel \in Seq(Words) /\ Len(rel) \in Nat /\ Len(rel) > 0
  BY LenProperties DEF Paths
<1> DEFINE q == Front(p)
<1>4. q \in Seq(Words)
  BY <1>2
<1> HIDE DEF q
<1>5. q \o rel \in Seq(Words) /\ Len(q \o rel) = Len(q) + Len(rel) /\ Len(q) \in Nat
  BY <1>3, <1>4, ConcatProperties, LenProperties
<1>6. QED
  BY <1>3, <1>5 DEF q

LEMMA ResolveRelativeType ==
  ASSUME NEW p \in Seq(Solid), Len(p) > 0, NEW rel \in Paths
  PROVE  ResolveRelative(p, rel) \in Seq(Solid) /\ Len(ResolveRelative(p, rel)) > 0
<1> DEFINE path == Front(p) \o rel
           kept == Walk(path, {Here, Blank})
<1>1. path \in Seq(Words)
  BY BelowFront
<1> HIDE DEF path
<1>2. kept \in Seq(Solid)
  <2>1. Len(path) \in 0..Len(path) /\ \A i \in 1..Len(path) : path[i] \in Words
    BY <1>1, LenProperties, ElementOfSeq
  <2>2. \A i \in 1..Len(path) : path[i] \in Solid \cup {Here, Blank} \cup {Up}
    BY <2>1 DEF Solid
  <2>3. Walked(path, {Here, Blank})[Len(path)] \in Seq(Solid)
    BY <1>1, <2>1, <2>2, WalkType
  <2>4. QED
    BY <2>3 DEF Walk
<1> HIDE DEF kept
<1>3. kept # <<>> => Len(kept) > 0
  BY <1>2, EmptySeq
<1>4. <<Blank>> \in Seq(Solid) /\ Len(<<Blank>>) = 1
  BY WordsThere
<1>5. ResolveRelative(p, rel) = IF kept = <<>> THEN <<Blank>> ELSE kept
  BY DEF ResolveRelative, kept, path
<1>6. CASE kept = <<>>
  BY <1>4, <1>5, <1>6
<1>7. CASE kept # <<>>
  BY <1>2, <1>3, <1>5, <1>7
<1>8. QED
  BY <1>6, <1>7

(* To a page that is no directory both go the same way.                       *)
LEMMA RelativesAgree ==
  ASSUME NEW p \in Paths, NEW rel \in Paths, Last(rel) \notin {Blank, Here, Up}
  PROVE  ResolveRelative(p, rel) = Dots(Front(p) \o rel) /\ Dots(Front(p) \o rel) \in Paths
<1> DEFINE W == Words \ {Blank}
           path == Front(p) \o rel
           n == Len(path)
<1>1. Front(p) \in Seq(W) /\ rel \in Seq(W)
  BY FrontClean, WholeClean
<1>2. path \in Seq(W) /\ n = Len(Front(p)) + Len(rel) /\ n \in Nat \ {0}
      /\ path[n] = Last(rel)
  <2>1. Len(Front(p)) \in Nat /\ Len(rel) \in Nat /\ Len(rel) > 0
    BY <1>1, LenProperties DEF Paths
  <2>2. path \in Seq(W) /\ n = Len(Front(p)) + Len(rel)
        /\ \A i \in 1..(Len(Front(p)) + Len(rel)) :
             path[i] = IF i <= Len(Front(p)) THEN Front(p)[i] ELSE rel[i - Len(Front(p))]
    BY <1>1, ConcatProperties
  <2> HIDE DEF path
  <2>3. n \in 1..(Len(Front(p)) + Len(rel)) /\ ~(n <= Len(Front(p)))
        /\ n - Len(Front(p)) = Len(rel)
    BY <2>1, <2>2
  <2>4. path[n] = rel[Len(rel)]
    BY <2>2, <2>3
  <2>5. QED
    BY <2>1, <2>2, <2>4 DEF Last
<1>3. path \in Paths
  <2> HIDE DEF path
  <2>1. path \in Seq(Words) /\ \A i \in 1..n : path[i] \in W
    BY <1>2, SeqMonotonic, ElementOfSeq
  <2>2. QED
    BY <1>2, <2>1 DEF Paths
<1> HIDE DEF path
<1>4. Walk(path, {Here, Blank}) = Walk(path, {Here})
  BY <1>2, WalksAgree
<1>5. Last(path) = path[n] /\ path[n] \notin {Here, Up}
  BY <1>2 DEF Last
<1>6. Dots(path) = Walk(path, {Here})
  BY <1>5 DEF Dots
<1>7. Dots(path) # <<>> /\ Dots(path) \in Paths
  <2>1. Dots(path) \in Paths
    BY <1>3, DotsPath
  <2>2. QED
    BY <2>1, EmptySeq DEF Paths
<1>8. ResolveRelative(p, rel) = Walk(path, {Here})
  BY <1>4, <1>6, <1>7 DEF ResolveRelative, path
<1>9. QED
  BY <1>6, <1>7, <1>8 DEF path
-----------------------------------------------------------------------------
(* Where the gateway's requests go.  A site is near when it is the one meant, *)
(* the one that gave all pages, or that one's scheme with the host meant,     *)
(* which is where a link that leaves the scheme out leads to from there.      *)
SiteMeant(w) == <<w.scheme, w.host>>
Near(s, w, o) == s = SiteMeant(w) \/ s = o \/ s = <<o[1], w.host>>

(* What an address owes to the way it was come by.                            *)
Meant(a) ==
  /\ how \in {"straight", "slash"} => SiteOf(a) = SiteMeant(want)
  /\ how = "guess" => only # None /\ (only # Many => Near(SiteOf(a), want, only))

SitesOK ==
  /\ last \in (Schemes \X Solid) \cup {None}
  /\ only = None => last = None
  /\ only \notin {None, Many} => last = only

BaseOK ==
  /\ base.via \in Seq(Solid) /\ Len(base.via) > 0
  /\ base.direct.scheme \in Schemes

GatewayStages ==
  /\ stage \in {"idle", "sent", "fetch"}
  /\ how \in {"straight", "slash", "guess"} \cup Astray
  /\ stage = "idle" /\ addr # None => Address(addr) /\ BaseOK
  /\ stage # "idle" => addr = None
  /\ stage = "sent" => ask \in Seq(Solid) /\ (ref # None => Address(ref))
  /\ stage = "fetch" => Address(ask) /\ ref = None
  /\ stage # "idle" \/ addr # None => want.scheme \in Schemes

(* A request without the prefix is as good as its Referer.                    *)
Aim ==
  /\ stage = "idle" /\ addr # None => Meant(addr)
  /\ stage = "sent" /\ IsProxied(ask) /\ how \notin Astray => Address(ask) /\ Meant(ask)
  /\ stage = "sent" /\ ~IsProxied(ask) /\ ref # None => Meant(ref)
  /\ stage = "fetch" => Meant(ask)

(* Paths are told apart only while nothing was guessed or left unread.        *)
PathAim ==
  /\ how = "straight" /\ (stage = "fetch" \/ (stage = "sent" /\ IsProxied(ask)))
       => want.path \in Paths /\ Parse(ask).path = want.path
  /\ how = "straight" /\ stage = "sent" /\ ~IsProxied(ask)
       => want.path \in Paths /\ ask = want.path

LandsInv == SitesOK /\ GatewayStages /\ Aim /\ PathAim

LEMMA RootPathIs ==
  ASSUME NEW p \in RootPaths
  PROVE  /\ p \in Seq(Words) /\ Len(p) > 0
         /\ Dots(p) \in Paths /\ Dots(p) \in Seq(Solid) /\ Len(Dots(p)) > 0 /\ ~IsProxied(Dots(p))
<1>1. p \in Paths
  BY GatewayAssumption
<1>2. p \in Seq(Words) /\ Len(p) > 0
  BY <1>1 DEF Paths
<1>3. Dots(p) \in Seq(Solid) /\ Len(Dots(p)) > 0
  BY <1>2, DotsType
<1>4. Dots(p) \in Paths
  BY <1>1, DotsPath
<1>5. Dots(p)[1] # Prefix
  BY PrefixAssumption
<1>6. QED
  BY <1>2, <1>3, <1>4, <1>5 DEF IsProxied

(* What links hold.                                                           *)
LEMMA LinkIs ==
  ASSUME NEW l \in Links
  PROVE  /\ l.form \in {"full", "host", "root", "rel"}
         /\ l.form = "full" => l.scheme \in Schemes
         /\ l.form \in {"full", "host"} => l.host \in Solid
         /\ l.form # "rel" => l.path \in RootPaths
         /\ l.form = "rel" => l.path \in Paths
<1>1. Hosts \subseteq Solid /\ RelPaths \subseteq Paths
  BY WordsThere, GatewayAssumption
<1>2. CASE \E s \in Schemes, h \in Hosts, p \in RootPaths : l = Link("full", s, h, p)
  BY <1>1, <1>2 DEF Link
<1>3. CASE \E h \in Hosts, p \in RootPaths : l = Link("host", None, h, p)
  BY <1>1, <1>3 DEF Link
<1>4. CASE \E p \in RootPaths : l = Link("root", None, None, p)
  BY <1>1, <1>4 DEF Link
<1>5. CASE \E p \in RelPaths : l = Link("rel", None, None, p)
  BY <1>1, <1>5 DEF Link
<1>6. QED
  BY <1>2, <1>3, <1>4, <1>5 DEF Links

(* Where a link that is not relative leads to.                                *)
LEMMA TargetIs ==
  ASSUME NEW l \in Links, l.form # "rel", NEW u, u.scheme \in Schemes
  PROVE  /\ Target(l, u) = Url(Target(l, u).scheme, Target(l, u).host, l.path)
         /\ Target(l, u).scheme = IF l.form = "full" THEN l.scheme ELSE u.scheme
         /\ Target(l, u).host = IF l.form = "root" THEN u.host ELSE l.host
         /\ Target(l, u).path = l.path
         /\ Target(l, u).scheme \in Schemes
         /\ u.host \in Solid => Target(l, u).host \in Solid
<1>1. CASE l.form = "full"
  <2>1. Target(l, u) = Url(l.scheme, l.host, l.path)
    BY <1>1 DEF Target
  <2>2. QED
    BY <1>1, <2>1, LinkIs DEF Url
<1>2. CASE l.form = "host"
  <2>1. Target(l, u) = Url(u.scheme, l.host, l.path)
    BY <1>2 DEF Target
  <2>2. QED
    BY <1>2, <2>1, LinkIs DEF Url
<1>3. CASE l.form = "root"
  <2>1. Target(l, u) = Url(u.scheme, u.host, l.path)
    BY <1>3 DEF Target
  <2>2. QED
    BY <1>3, <2>1, LinkIs DEF Url
<1>4. QED
  BY <1>1, <1>2, <1>3, LinkIs

LEMMA ResolveIs ==
  ASSUME NEW l \in Links, l.form # "rel", NEW w, w.scheme \in Schemes
  PROVE  /\ Resolve(l, w).scheme = Target(l, w).scheme
         /\ Resolve(l, w).host = Target(l, w).host
         /\ Resolve(l, w).path = Dots(l.path)
BY TargetIs DEF Resolve, Url

(* A link that names its site, or has it from the same one, leads to the same *)
(* place.                                                                     *)
LEMMA SameResolve ==
  ASSUME NEW l \in Links, l.form # "rel", NEW w, NEW z,
         l.form = "full" \/ SiteMeant(w) = SiteMeant(z)
  PROVE  Resolve(l, w) = Resolve(l, z)
<1>1. Target(l, w) = Target(l, z)
  <2>1. CASE l.form = "full"
    BY <2>1 DEF Target
  <2>2. CASE l.form # "full"
    <3>1. w.scheme = z.scheme /\ w.host = z.host
      BY <2>2 DEF SiteMeant
    <3>2. CASE l.form = "host"
      BY <3>1, <3>2 DEF Target
    <3>3. CASE l.form = "root"
      BY <3>1, <3>3 DEF Target
    <3>4. QED
      BY <2>2, <3>2, <3>3, LinkIs
  <2>3. QED
    BY <2>1, <2>2
<1>2. QED
  BY <1>1 DEF Resolve

(* A link from a page of the gateway leads to the site it leads to from the   *)
(* page that is meant, or near it.                                            *)
LEMMA LinkLands ==
  ASSUME NEW l \in Links, l.form # "rel", ~Climbs(l.path),
         NEW u, u.scheme \in Schemes, u.host \in Solid,
         NEW w, w.scheme \in Schemes, NEW o
  PROVE  LET a == Dots(Proxied(Target(l, u)))
             v == Resolve(l, w)
         IN  /\ Address(a) /\ IsProxied(a)
             /\ v.path = Dots(l.path) /\ v.scheme \in Schemes /\ Parse(a).path = Dots(l.path)
             /\ SiteMeant(u) = SiteMeant(w) => SiteOf(a) = SiteMeant(v)
             /\ Near(SiteMeant(u), w, o) => Near(SiteOf(a), v, o)
<1> DEFINE a == Dots(Proxied(Target(l, u)))
           v == Resolve(l, w)
           x == Target(l, u)
           y == Target(l, w)
<1>1. l.path \in Seq(Words) /\ Len(l.path) > 0
  BY LinkIs, RootPathIs
<1>2. /\ x = Url(x.scheme, x.host, l.path) /\ x.scheme \in Schemes /\ x.host \in Solid
      /\ x.scheme = IF l.form = "full" THEN l.scheme ELSE u.scheme
      /\ x.host = IF l.form = "root" THEN u.host ELSE l.host
  BY TargetIs
<1>3. /\ y.scheme = IF l.form = "full" THEN l.scheme ELSE w.scheme
      /\ y.host = IF l.form = "root" THEN w.host ELSE l.host
      /\ y.scheme \in Schemes
  BY TargetIs
<1>4. v.scheme = y.scheme /\ v.host = y.host /\ v.path = Dots(l.path)
  BY ResolveIs
<1>5. a = Dots(Proxied(x))
  OBVIOUS
<1> HIDE DEF a, v, x, y
<1>6. Address(a) /\ IsProxied(a) /\ SiteOf(a) = <<x.scheme, x.host>> /\ Parse(a).path = Dots(l.path)
  <2> DEFINE s == x.scheme
             h == x.host
  <2>1. s \in Schemes /\ h \in Solid /\ a = Dots(Proxied(Url(s, h, l.path)))
    BY <1>2, <1>5
  <2>2. SiteOf(a) = <<s, h>> => SiteOf(a) = <<x.scheme, x.host>>
    OBVIOUS
  <2> HIDE DEF s, h
  <2>3. Address(a) /\ IsProxied(a) /\ SiteOf(a) = <<s, h>> /\ Parse(a).path = Dots(l.path)
    BY <1>1, <2>1, ProxiedDots
  <2>4. QED
    BY <2>2, <2>3
<1>7. SiteMeant(u) = SiteMeant(w) => SiteOf(a) = SiteMeant(v)
  BY <1>2, <1>3, <1>4, <1>6 DEF SiteMeant
<1>8. ASSUME Near(SiteMeant(u), w, o) PROVE Near(SiteOf(a), v, o)
  <2>1. CASE l.form = "full"
    BY <1>2, <1>3, <1>4, <1>6, <2>1 DEF Near, SiteMeant
  <2>2. CASE l.form = "root"
    BY <1>2, <1>3, <1>4, <1>6, <1>8, <2>2 DEF Near, SiteMeant
  <2>3. CASE l.form = "host"
    <3>1. SiteOf(a) = <<u.scheme, l.host>> /\ SiteMeant(v) = <<w.scheme, l.host>> /\ v.host = l.host
      BY <1>2, <1>3, <1>4, <1>6, <2>3 DEF SiteMeant
    <3>2. u.scheme = w.scheme \/ u.scheme = o[1]
      <4>1. CASE SiteMeant(u) = o
        BY <4>1 DEF SiteMeant
      <4>2. CASE SiteMeant(u) # o
        BY <1>8, <4>2 DEF Near, SiteMeant
      <4>3. QED
        BY <4>1, <4>2
    <3>3. QED
      BY <3>1, <3>2 DEF Near
  <2>4. QED
    BY <2>1, <2>2, <2>3, LinkIs
<1>9. v.scheme \in Schemes
  BY <1>3, <1>4
<1>10. QED
  BY <1>4, <1>6, <1>7, <1>8, <1>9 DEF a, v

(* Of the links of a page only those in other strings may stay as they are.   *)
LEMMA RequestedIs ==
  ASSUME NEW l \in Links, NEW place \in Places, NEW u, NEW against
  PROVE  /\ l.form = "rel" => Requested(l, place, u, against) = Dots(Front(against) \o l.path)
         /\ l.form \in {"full", "host"} =>
              Requested(l, place, u, against) = Dots(Proxied(Target(l, u)))
         /\ l.form = "root" =>
              Requested(l, place, u, against) \in {Dots(Proxied(Target(l, u))), Dots(l.path)}
<1> DEFINE x == At(Proxied(Target(l, u)))
<1>1. x.form = "at" /\ x.to = Proxied(Target(l, u))
  BY DEF At
<1>2. Token(l, u) = IF l.form = "rel" THEN l ELSE x
  BY DEF Token
<1> HIDE DEF x
<1>3. l.form = "rel" => RewriteHtml(l, place, u) = l
  BY <1>2 DEF RewriteHtml, TokenPass, RootPass, AbsolutePass
<1>4. l.form \in {"full", "host"} => RewriteHtml(l, place, u) = x
  BY <1>1, <1>2 DEF RewriteHtml, TokenPass, RootPass, AbsolutePass, Places
<1>5. l.form = "root" => RewriteHtml(l, place, u) \in {x, l}
  BY <1>1, <1>2 DEF RewriteHtml, TokenPass, RootPass, AbsolutePass, Places
<1>6. Followed(x, against) = Dots(Proxied(Target(l, u)))
  BY <1>1 DEF Followed
<1>7. l.form = "rel" => Followed(l, against) = Dots(Front(against) \o l.path)
  BY DEF Followed
<1>8. l.form = "root" => Followed(l, against) = Dots(l.path)
  BY DEF Followed
<1> DEFINE out == RewriteHtml(l, place, u)
<1>9. Requested(l, place, u, against) = Followed(out, against)
  BY DEF Requested
<1>10. /\ l.form = "rel" => out = l
       /\ l.form \in {"full", "host"} => out = x
       /\ l.form = "root" => out = x \/ out = l
  BY <1>3, <1>4, <1>5
<1> HIDE DEF out
<1>11. QED
  BY <1>6, <1>7, <1>8, <1>9, <1>10

LEMMA RequestedType ==
  ASSUME NEW l \in Links, NEW place \in Places, NEW u, u.scheme \in Schemes, u.host \in Solid,
         NEW against \in Seq(Solid), Len(against) > 0
  PROVE  /\ Requested(l, place, u, against) \in Seq(Solid)
         /\ Len(Requested(l, place, u, against)) > 0
<1>1. ASSUME NEW q \in Seq(Words), Len(q) > 0 PROVE Dots(q) \in Seq(Solid) /\ Len(Dots(q)) > 0
  BY <1>1, DotsType
<1>2. CASE l.form = "rel"
  <2>1. l.path \in Paths
    BY <1>2, LinkIs
  <2>2. Front(against) \o l.path \in Seq(Words) /\ Len(Front(against) \o l.path) > 0
    BY <2>1, BelowFront
  <2>3. QED
    BY <1>1, <1>2, <2>2, RequestedIs
<1>3. CASE l.form # "rel"
  <2> DEFINE x == Target(l, u)
             s == x.scheme
             h == x.host
  <2>1. l.path \in Seq(Words) /\ Len(l.path) > 0
    BY <1>3, LinkIs, RootPathIs
  <2>2. x = Url(s, h, l.path) /\ s \in Schemes /\ h \in Solid
    BY <1>3, TargetIs
  <2> HIDE DEF x, s, h
  <2>3. Proxied(x) \in Seq(Words) /\ Len(Proxied(x)) > 0
    BY <2>1, <2>2, ProxiedWords
  <2>4. Dots(Proxied(x)) \in Seq(Solid) /\ Len(Dots(Proxied(x))) > 0
    BY <1>1, <2>3
  <2>5. Dots(l.path) \in Seq(Solid) /\ Len(Dots(l.path)) > 0
    BY <1>1, <2>1
  <2>6. Requested(l, place, u, against) \in {Dots(Proxied(x)), Dots(l.path)}
    BY <1>3, RequestedIs, LinkIs DEF x
  <2>7. QED
    BY <2>4, <2>5, <2>6
<1>4. QED
  BY <1>2, <1>3

LEMMA BaseIs ==
  ASSUME NEW own \in OwnBases \cup {None}, NEW a, Address(a), NEW w, w.scheme \in Schemes
  PROVE  /\ BaseOf(own, a, w).via \in Seq(Solid) /\ Len(BaseOf(own, a, w).via) > 0
         /\ BaseOf(own, a, w).direct.scheme \in Schemes
<1>1. CASE own = None
  <2>1. BaseOf(own, a, w).via = SubSeq(a, 1, 3) \o <<Blank>> /\ BaseOf(own, a, w).direct = w
    BY <1>1 DEF BaseOf
  <2>2. <<Blank>> \in Seq(Solid)
    BY WordsThere
  <2>3. Address(SubSeq(a, 1, 3) \o <<Blank>>)
    BY <2>2, RecoveredAddress
  <2>4. QED
    BY <2>1, <2>3 DEF Address
<1>2. CASE own # None
  <2>1. own \in Links
    BY <1>2, PrefixAssumption
  <2>2. /\ BaseOf(own, a, w).via = Requested(own, "attr", Parse(a), a)
        /\ BaseOf(own, a, w).direct = Resolve(own, w)
    BY <1>2 DEF BaseOf
  <2>3. Parse(a).scheme \in Schemes /\ Parse(a).host \in Solid
    BY ParseAddress
  <2>4. "attr" \in Places /\ a \in Seq(Solid) /\ Len(a) > 0
    BY DEF Places, Address
  <2> DEFINE u == Parse(a)
             place == "attr"
  <2>5. u.scheme \in Schemes /\ u.host \in Solid /\ place \in Places
    BY <2>3, <2>4
  <2> HIDE DEF u, place
  <2>6. Requested(own, place, u, a) \in Seq(Solid) /\ Len(Requested(own, place, u, a)) > 0
    BY <2>1, <2>4, <2>5, RequestedType
  <2>7. Resolve(own, w).scheme \in Schemes
    <3>1. CASE own.form = "rel"
      BY <3>1 DEF Resolve, Target, Url
    <3>2. CASE own.form # "rel"
      BY <2>1, <3>2, ResolveIs, TargetIs
    <3>3. QED
      BY <3>1, <3>2
  <2>8. QED
    BY <2>2, <2>6, <2>7 DEF u, place
<1>3. QED
  BY <1>1, <1>2

LEMMA LandsInvInit == GatewayInit => LandsInv
BY DEF GatewayInit, LandsInv, SitesOK, GatewayStages, Aim, PathAim, Astray

LEMMA FailsKeeps ==
  ASSUME LandsInv, Fails
  PROVE  LandsInv'
BY DEF Fails, siteVars, LandsInv, SitesOK, GatewayStages, Aim, PathAim, Astray

LEMMA TypeKeeps ==
  ASSUME LandsInv, NEW s \in Schemes, NEW h \in Hosts, NEW p \in RootPaths,
         Type(Url(s, h, Dots(p)))
  PROVE  LandsInv'
<1> DEFINE q == Dots(p)
<1>1. h \in Solid
  BY WordsThere
<1>2. q \in Paths /\ q \in Seq(Solid) /\ Len(q) > 0
  BY RootPathIs
<1>3. Type(Url(s, h, q))
  OBVIOUS
<1> HIDE DEF q
<1>4. Address(ask') /\ IsProxied(ask') /\ SiteOf(ask') = <<s, h>> /\ Parse(ask').path = q
  BY <1>1, <1>2, <1>3, ProxiedAddress DEF Type
<1>5. want'.scheme = s /\ want'.host = h /\ want'.path = q
  BY <1>3 DEF Type, Url
<1>6. stage' = "sent" /\ ref' = None /\ how' = "straight" /\ addr' = None
      /\ last' = last /\ only' = only
  BY <1>3 DEF Type, siteVars
<1>7. SitesOK'
  BY <1>6 DEF LandsInv, SitesOK
<1>8. GatewayStages'
  BY <1>4, <1>5, <1>6 DEF GatewayStages, Address
<1>9. Meant(ask)'
  BY <1>4, <1>5, <1>6 DEF Meant, SiteMeant
<1>10. Aim'
  BY <1>4, <1>6, <1>9 DEF Aim
<1>11. PathAim'
  BY <1>2, <1>4, <1>5, <1>6 DEF PathAim
<1>12. QED
  BY <1>7, <1>8, <1>10, <1>11 DEF LandsInv

(* What a link with a path of its own leaves of the way here.                 *)
LEMMA NamedIs ==
  ASSUME NEW l \in Links, NEW from, how \in {"straight", "slash", "guess"},
         Named(l, from) # "lost"
  PROVE  /\ ~Climbs(l.path) /\ (l.form = "full" \/ SiteMeant(from) = SiteMeant(want))
         /\ Named(l, from) \in {"straight", "guess"}
         /\ Named(l, from) = "straight" => how \in {"straight", "slash"}
         /\ Named(l, from) = "guess" => how = "guess"
BY DEF Named, SiteMeant

LEMMA FollowKeeps ==
  ASSUME LandsInv, NEW l \in Links, NEW place \in Places, NEW r \in {addr, None},
         Follow(l, place, r)
  PROVE  LandsInv'
<1> DEFINE u == Parse(addr)
           from == base.direct
<1>1. /\ Address(addr) /\ Meant(addr) /\ want.scheme \in Schemes /\ BaseOK
      /\ how \in {"straight", "slash", "guess"}
  BY DEF Follow, LandsInv, GatewayStages, Aim
<1>2. u.scheme = addr[2] /\ u.host = addr[3] /\ u.scheme \in Schemes /\ u.host \in Solid
  BY <1>1, ParseAddress
<1>3. /\ stage' = "sent" /\ ref' = r /\ addr' = None /\ last' = last /\ only' = only
      /\ ask' = Requested(l, place, u, base.via) /\ want' = Resolve(l, from)
      /\ how' = IF l.form = "rel" THEN "base" ELSE Named(l, from)
  BY DEF Follow, siteVars
<1>4. from.scheme \in Schemes /\ base.via \in Seq(Solid) /\ Len(base.via) > 0
  BY <1>1 DEF BaseOK
<1>5. r # None => Address(r)
  BY <1>1
<1> HIDE DEF u, from
<1>6. SitesOK'
  BY <1>3 DEF LandsInv, SitesOK
<1>7. ask' \in Seq(Solid)
  BY <1>2, <1>3, <1>4, RequestedType
<1>8. want'.scheme \in Schemes
  <2>1. CASE l.form = "rel"
    BY <1>3, <1>4, <2>1 DEF Resolve, Target, Url
  <2>2. CASE l.form # "rel"
    BY <1>3, <1>4, <2>2, ResolveIs, TargetIs
  <2>3. QED
    BY <2>1, <2>2
<1>9. CASE how' \in Astray
  <2>1. how' \in {"straight", "slash", "guess"} \cup Astray /\ how' \notin {"straight", "slash", "guess"}
    BY <1>9 DEF Astray
  <2>2. GatewayStages'
    BY <1>3, <1>5, <1>7, <1>8, <2>1 DEF GatewayStages
  <2>3. Aim' /\ PathAim'
    BY <1>3, <1>9, <2>1 DEF Aim, PathAim, Meant
  <2>4. QED
    BY <1>6, <2>2, <2>3 DEF LandsInv
<1>10. CASE how' \notin Astray
  <2> DEFINE a == Dots(Proxied(Target(l, u)))
             v == Resolve(l, want)
             q == Dots(l.path)
  <2>1. l.form # "rel" /\ how' = Named(l, from) /\ Named(l, from) # "lost"
    BY <1>3, <1>10 DEF Astray
  <2>2. /\ ~Climbs(l.path) /\ (l.form = "full" \/ SiteMeant(from) = SiteMeant(want))
        /\ how' \in {"straight", "guess"}
        /\ how' = "straight" => how \in {"straight", "slash"}
        /\ how' = "guess" => how = "guess"
    BY <1>1, <2>1, NamedIs
  <2>3. want' = v
    BY <1>3, <2>1, <2>2, SameResolve
  <2>4. /\ Address(a) /\ IsProxied(a) /\ v.path = q /\ v.scheme \in Schemes
        /\ Parse(a).path = q
        /\ SiteMeant(u) = SiteMeant(want) => SiteOf(a) = SiteMeant(v)
        /\ Near(SiteMeant(u), want, only) => Near(SiteOf(a), v, only)
    BY <1>1, <1>2, <2>1, <2>2, LinkLands
  <2>5. SiteMeant(u) = SiteOf(addr)
    BY <1>2 DEF SiteMeant, SiteOf
  <2>6. ask' = a \/ (l.form = "root" /\ ask' = q)
    BY <1>3, <2>1, RequestedIs, LinkIs
  <2>7. q \in Paths /\ q \in Seq(Solid) /\ ~IsProxied(q)
    BY <2>1, LinkIs, RootPathIs
  <2>8. l.form = "root" => SiteMeant(v) = SiteMeant(want) /\ v.host = want.host
    BY DEF Resolve, Target, Url, SiteMeant
  <2> HIDE DEF a, q, v
  <2>9. GatewayStages'
    BY <1>3, <1>5, <1>7, <1>8, <2>2 DEF GatewayStages
  <2>10. CASE ask' = a
    <3>1. Meant(ask)'
      BY <1>1, <1>3, <2>2, <2>3, <2>4, <2>5, <2>10 DEF Meant
    <3>2. Aim'
      BY <1>3, <2>4, <2>10, <3>1 DEF Aim
    <3>3. PathAim'
      BY <1>3, <2>3, <2>4, <2>7, <2>10 DEF PathAim
    <3>4. QED
      BY <1>6, <2>9, <3>2, <3>3 DEF LandsInv
  <2>11. CASE l.form = "root" /\ ask' = q
    <3>1. \A s : Near(s, want, only) => Near(s, v, only)
      BY <2>8, <2>11 DEF Near
    <3>2. r = addr => Meant(ref)'
      BY <1>1, <1>3, <2>2, <2>3, <2>8, <2>11, <3>1 DEF Meant
    <3>3. Aim'
      BY <1>3, <2>7, <2>11, <3>2 DEF Aim
    <3>4. PathAim'
      BY <1>3, <2>3, <2>4, <2>7, <2>11 DEF PathAim
    <3>5. QED
      BY <1>6, <2>9, <3>3, <3>4 DEF LandsInv
  <2>12. QED
    BY <2>6, <2>10, <2>11
<1>11. QED
  BY <1>9, <1>10

LEMMA RecoverByRefererKeeps ==
  ASSUME LandsInv, RecoverByReferer
  PROVE  LandsInv'
<1>1. /\ stage = "sent" /\ ~IsProxied(ask) /\ ref # None
      /\ ask' = SubSeq(ref, 1, 3) \o ask
      /\ UNCHANGED <<stage, ref, addr, want, how, last, only>>
  BY DEF RecoverByReferer, siteVars, pageVars
<1>2. Address(ref) /\ Meant(ref) /\ ask \in Seq(Solid)
  BY <1>1 DEF LandsInv, GatewayStages, Aim
<1>3. /\ Address(ask') /\ IsProxied(ask') /\ SiteOf(ask') = SiteOf(ref)
      /\ Len(ask) > 0 => Parse(ask').path = ask
  BY <1>1, <1>2, RecoveredAddress
<1>4. SitesOK' /\ GatewayStages'
  BY <1>1, <1>2, <1>3 DEF LandsInv, SitesOK, GatewayStages, Address
<1>5. Aim'
  BY <1>1, <1>2, <1>3 DEF Aim, Meant
<1>6. PathAim'
  BY <1>1, <1>3 DEF LandsInv, PathAim, Paths
<1>7. QED
  BY <1>4, <1>5, <1>6 DEF LandsInv

(* What is guessed is near as long as all pages came from one site.           *)
LEMMA FallbackKeeps ==
  ASSUME LandsInv, Fallback
  PROVE  LandsInv'
<1>1. CASE last = None
  BY <1>1, FailsKeeps DEF Fallback
<1>2. CASE last # None
  <2>1. /\ stage = "sent" /\ ~IsProxied(ask) /\ ref = None
        /\ ask' = <<Prefix, last[1], last[2]>> \o ask
        /\ how' = IF how = "straight" THEN "guess" ELSE "lost"
        /\ UNCHANGED <<stage, ref, addr, want, last, only>>
    BY <1>2 DEF Fallback, siteVars, pageVars
  <2>2. last[1] \in Schemes /\ last[2] \in Solid /\ last = <<last[1], last[2]>> /\ ask \in Seq(Solid)
    BY <1>2, <2>1 DEF LandsInv, SitesOK, GatewayStages
  <2>3. only # None /\ (only # Many => last = only)
    BY <1>2 DEF LandsInv, SitesOK
  <2>4. Proxied(Url(last[1], last[2], ask)) = ask'
    BY <2>1 DEF Proxied, Url
  <2>5. Address(ask') /\ IsProxied(ask') /\ SiteOf(ask') = last
    BY <2>2, <2>4, ProxiedAddress
  <2>6. SitesOK' /\ GatewayStages'
    BY <2>1, <2>5 DEF LandsInv, SitesOK, GatewayStages, Address, Astray
  <2>7. Meant(ask)'
    BY <2>1, <2>3, <2>5 DEF Meant, Near
  <2>8. Aim' /\ PathAim'
    BY <2>1, <2>5, <2>7 DEF Aim, PathAim
  <2>9. QED
    BY <2>6, <2>8 DEF LandsInv
<1>3. QED
  BY <1>1, <1>2

LEMMA FetchKeeps ==
  ASSUME LandsInv, Fetch
  PROVE  LandsInv'
<1>1. CASE ~WellFormed(ask)
  BY <1>1, FailsKeeps DEF Fetch
<1>2. CASE WellFormed(ask)
  <2>1. /\ stage = "sent" /\ IsProxied(ask) /\ stage' = "fetch" /\ ref' = None
        /\ UNCHANGED <<ask, want, how, addr, last, only>>
    BY <1>2 DEF Fetch, siteVars, pageVars
  <2>2. Address(ask)
    BY <1>2, <2>1 DEF WellFormed, IsProxied, Address, LandsInv, GatewayStages
  <2>3. SitesOK' /\ GatewayStages'
    BY <2>1, <2>2 DEF LandsInv, SitesOK, GatewayStages, Address
  <2>4. Meant(ask)
    BY <2>1 DEF LandsInv, Aim, Meant, Astray
  <2>5. Aim' /\ PathAim'
    BY <2>1, <2>4 DEF LandsInv, Aim, PathAim, Meant
  <2>6. QED
    BY <2>3, <2>5 DEF LandsInv
<1>3. QED
  BY <1>1, <1>2

(* A page may only end that all pages came from one site.                     *)
LEMMA PageFromKeeps ==
  ASSUME LandsInv, NEW s \in Schemes \X Solid, PageFrom(s)
  PROVE  /\ SitesOK'
         /\ only # None => only' # None /\ (only' # Many => only' = only)
<1>1. s # None /\ Many # None
  BY GatewayAssumption DEF Solid
<1>2. last' = s /\ only' = IF only \in {None, s} THEN s ELSE Many
  BY DEF PageFrom
<1>3. SitesOK'
  BY <1>1, <1>2 DEF SitesOK
<1>4. only # None => only' # None /\ (only' # Many => only' = only)
  BY <1>1, <1>2
<1>5. QED
  BY <1>3, <1>4

LEMMA OtherTabKeeps ==
  ASSUME LandsInv, NEW s \in Sites, OtherTab(s)
  PROVE  LandsInv'
<1>1. s \in Schemes \X Solid
  BY WordsThere DEF Sites
<1>2. UNCHANGED <<stage, ask, ref, want, how, addr, base>>
  BY DEF OtherTab, askVars, pageVars
<1>3. SitesOK' /\ (only # None => only' # None /\ (only' # Many => only' = only))
  BY <1>1, PageFromKeeps DEF OtherTab
<1>4. \A a : Meant(a) => Meant(a)'
  BY <1>2, <1>3 DEF Meant
<1>5. GatewayStages'
  BY <1>2 DEF LandsInv, GatewayStages, BaseOK
<1>6. Aim' /\ PathAim'
  BY <1>2, <1>4 DEF LandsInv, Aim, PathAim, Meant
<1>7. QED
  BY <1>3, <1>5, <1>6 DEF LandsInv

LEMMA AnswerKeeps ==
  ASSUME LandsInv, NEW f,
         AnswerOther(f) \/ \E own \in OwnBases \cup {None} : AnswerPage(f, own)
  PROVE  LandsInv'
<1>1. CASE AnswerOther(f)
  <2>1. /\ stage = "fetch" /\ stage' = "idle" /\ how' = "straight"
        /\ UNCHANGED <<addr, last, only>>
    BY <1>1 DEF AnswerOther, siteVars, pageVars
  <2>2. addr' = None
    BY <2>1 DEF LandsInv, GatewayStages
  <2>3. QED
    BY <2>1, <2>2 DEF LandsInv, SitesOK, GatewayStages, Aim, PathAim
<1>2. ASSUME NEW own \in OwnBases \cup {None}, AnswerPage(f, own) PROVE LandsInv'
  <2> DEFINE s == <<Parse(ask).scheme, Parse(ask).host>>
  <2>1. /\ stage = "fetch" /\ stage' = "idle" /\ addr' = ask /\ PageFrom(s)
        /\ base' = BaseOf(own, ask, want)
        /\ UNCHANGED <<ask, ref, want, how>>
    BY <1>2 DEF AnswerPage, askVars
  <2>2. Address(ask) /\ Meant(ask) /\ want.scheme \in Schemes
    BY <2>1 DEF LandsInv, GatewayStages, Aim
  <2>3. s \in Schemes \X Solid
    BY <2>2, ParseAddress
  <2> HIDE DEF s
  <2>4. SitesOK' /\ (only # None => only' # None /\ (only' # Many => only' = only))
    BY <2>1, <2>3, PageFromKeeps
  <2>5. \A a : Meant(a) => Meant(a)'
    BY <2>1, <2>4 DEF Meant
  <2>6. BaseOK'
    BY <2>1, <2>2, BaseIs DEF BaseOK
  <2>7. GatewayStages'
    BY <2>1, <2>2, <2>6 DEF LandsInv, GatewayStages, Address
  <2>8. Meant(addr)'
    BY <2>1, <2>2, <2>5 DEF Meant
  <2>9. Aim' /\ PathAim'
    BY <2>1, <2>8 DEF Aim, PathAim
  <2>10. QED
    BY <2>4, <2>7, <2>9 DEF LandsInv
<1>3. QED
  BY <1>1, <1>2

LEMMA AnswerRedirectKeeps ==
  ASSUME LandsInv, NEW l \in Links, NEW page \in BOOLEAN, AnswerRedirect(l, page)
  PROVE  LandsInv'
<1> DEFINE u == Parse(ask)
           s == <<u.scheme, u.host>>
<1>1. /\ Address(ask) /\ Meant(ask) /\ want.scheme \in Schemes /\ addr = None /\ ref = None
      /\ how \in {"straight", "slash", "guess"} /\ stage = "fetch"
  BY DEF AnswerRedirect, LandsInv, GatewayStages, Aim
<1>2. /\ u.scheme = ask[2] /\ u.host = ask[3] /\ u.scheme \in Schemes /\ u.host \in Solid
      /\ u.path \in Seq(Solid) /\ Len(u.path) > 0
  BY <1>1, ParseAddress
<1>3. how = "straight" => want.path \in Paths /\ u.path = want.path
  BY <1>1 DEF LandsInv, PathAim
<1>4. /\ stage' = "sent" /\ ask' = Dots(RewriteLocation(l, u)) /\ want' = Resolve(l, want)
      /\ how' = IF l.form # "rel" THEN Named(l, want)
                ELSE IF how = "straight" /\ Last(l.path) \in {Blank, Here, Up} THEN "slash" ELSE how
      /\ ref' = ref /\ addr' = addr
      /\ IF page THEN PageFrom(s) ELSE UNCHANGED <<last, only>>
  BY DEF AnswerRedirect, siteVars, pageVars
<1>5. s \in Schemes \X Solid /\ SiteMeant(u) = SiteOf(ask)
  BY <1>2 DEF SiteMeant, SiteOf
<1> HIDE DEF u, s
<1>6. SitesOK' /\ (only # None => only' # None /\ (only' # Many => only' = only))
  <2>1. CASE page
    BY <1>4, <1>5, <2>1, PageFromKeeps
  <2>2. CASE ~page
    BY <1>4, <2>2 DEF LandsInv, SitesOK
  <2>3. QED
    BY <2>1, <2>2
<1>7. CASE l.form = "rel"
  <2> DEFINE p == ResolveRelative(u.path, l.path)
             q == Dots(Front(want.path) \o l.path)
             x == Proxied(Url(u.scheme, u.host, p))
  <2>1. l.path \in Paths
    BY <1>7, LinkIs
  <2>2. p \in Seq(Solid) /\ Len(p) > 0
    BY <1>2, <2>1, ResolveRelativeType
  <2>3. ask' = Dots(x)
    BY <1>4, <1>7 DEF RewriteLocation
  <2>4. want'.scheme = want.scheme /\ want'.host = want.host /\ want'.path = q
    BY <1>4, <1>7 DEF Resolve, Target, Url
  <2>5. how' = "straight" => how = "straight" /\ q = p /\ q \in Paths
    <3> SUFFICES ASSUME how' = "straight" PROVE how = "straight" /\ q = p /\ q \in Paths
      OBVIOUS
    <3>1. how = "straight" /\ Last(l.path) \notin {Blank, Here, Up}
      BY <1>4, <1>7
    <3>2. QED
      BY <1>3, <2>1, <3>1, RelativesAgree
  <2> HIDE DEF p, q
  <2>6. Address(x) /\ IsProxied(x) /\ SiteOf(x) = SiteOf(ask) /\ Parse(x).path = p
    <3>1. SiteOf(ask) = <<u.scheme, u.host>>
      BY <1>5 DEF SiteMeant
    <3>2. QED
      BY <1>2, <2>2, <3>1, ProxiedAddress
  <2> HIDE DEF x
  <2>7. ask' = x
    BY <2>3, <2>6, DotlessStays DEF Address
  <2>8. GatewayStages'
    BY <1>1, <1>4, <1>7, <2>4, <2>6, <2>7 DEF GatewayStages, Address, Astray
  <2>9. Meant(ask)'
    <3>1. SiteMeant(want)' = SiteMeant(want) /\ want'.host = want.host
      BY <1>4, <2>4 DEF SiteMeant
    <3>2. how' \in {"straight", "slash"} => how \in {"straight", "slash"}
      BY <1>1, <1>4, <1>7
    <3>3. how' = "guess" => how = "guess"
      BY <1>4, <1>7
    <3>4. \A t, o : Near(t, want, o) => Near(t, want', o)
      BY <2>4, <3>1 DEF Near, SiteMeant
    <3>5. QED
      BY <1>1, <1>6, <2>6, <2>7, <3>1, <3>2, <3>3, <3>4 DEF Meant
  <2>10. Aim'
    BY <1>4, <2>6, <2>7, <2>9 DEF Aim
  <2>11. PathAim'
    BY <1>4, <2>4, <2>5, <2>6, <2>7 DEF PathAim
  <2>12. QED
    BY <1>6, <2>8, <2>10, <2>11 DEF LandsInv
<1>8. CASE l.form # "rel"
  <2> DEFINE a == Dots(Proxied(Target(l, u)))
             v == Resolve(l, want)
             x == Target(l, u)
  <2>1. ask' = a /\ want' = v /\ how' = Named(l, want)
    BY <1>4, <1>8 DEF RewriteLocation
  <2>2. v.scheme \in Schemes
    BY <1>1, <1>8, ResolveIs, TargetIs
  <2>3. a \in Seq(Solid)
    <3> DEFINE t == x.scheme
               h == x.host
    <3>1. l.path \in Seq(Words) /\ Len(l.path) > 0
      BY <1>8, LinkIs, RootPathIs
    <3>2. x = Url(t, h, l.path) /\ t \in Schemes /\ h \in Solid
      BY <1>2, <1>8, TargetIs
    <3> HIDE DEF x, t, h
    <3>3. Proxied(x) \in Seq(Words) /\ Len(Proxied(x)) > 0
      BY <3>1, <3>2, ProxiedWords
    <3>4. Dots(Proxied(x)) \in Seq(Solid)
      BY <3>3, DotsType
    <3>5. QED
      BY <3>4 DEF x
  <2>4. CASE how' = "lost"
    <3> HIDE DEF a, v
    <3>1. GatewayStages'
      BY <1>1, <1>4, <2>1, <2>2, <2>3, <2>4 DEF GatewayStages, Astray
    <3>2. Aim' /\ PathAim'
      BY <1>1, <1>4, <2>4 DEF Aim, PathAim, Meant, Astray
    <3>3. QED
      BY <1>6, <3>1, <3>2 DEF LandsInv
  <2>5. CASE how' # "lost"
    <3>1. /\ ~Climbs(l.path) /\ how' \in {"straight", "guess"}
          /\ how' = "straight" => how \in {"straight", "slash"}
          /\ how' = "guess" => how = "guess"
      BY <1>1, <2>1, <2>5, NamedIs
    <3>2. \A o : /\ Address(a) /\ IsProxied(a) /\ v.path = Dots(l.path)
                 /\ Parse(a).path = Dots(l.path)
                 /\ SiteMeant(u) = SiteMeant(want) => SiteOf(a) = SiteMeant(v)
                 /\ Near(SiteMeant(u), want, o) => Near(SiteOf(a), v, o)
      BY <1>1, <1>2, <1>8, <3>1, LinkLands
    <3>3. Dots(l.path) \in Paths
      BY <1>8, LinkIs, RootPathIs
    <3> HIDE DEF a, v
    <3>4. GatewayStages'
      BY <1>1, <1>4, <2>1, <2>2, <2>3, <3>1, <3>2 DEF GatewayStages
    <3>5. Meant(ask)'
      BY <1>1, <1>5, <1>6, <2>1, <3>1, <3>2 DEF Meant
    <3>6. Aim'
      BY <1>4, <2>1, <3>2, <3>5 DEF Aim
    <3>7. PathAim'
      BY <1>4, <2>1, <3>2, <3>3 DEF PathAim
    <3>8. QED
      BY <1>6, <3>4, <3>6, <3>7 DEF LandsInv
  <2>6. QED
    BY <2>4, <2>5
<1>9. QED
  BY <1>7, <1>8

(* Along links, redirects and recovered requests the gateway fetches the site *)
(* and the path that the browser would have gone to directly, but for what    *)
(* LandsWhereMeant excepts: relative links, paths that climb, bases on other  *)
(* sites, and of directories redirected to and guesses all but the site.      *)
THEOREM LandsCorrect == GatewaySpec => []LandsWhereMeant
<1>1. LandsInv /\ [GatewayNext]_gwVars => LandsInv'
  <2> SUFFICES ASSUME LandsInv, [GatewayNext]_gwVars PROVE LandsInv'
    OBVIOUS
  <2>1. CASE \E s \in Schemes, h \in Hosts, p \in RootPaths : Type(Url(s, h, Dots(p)))
    BY <2>1, TypeKeeps
  <2>2. CASE \E l \in Links, place \in Places, r \in {addr, None} : Follow(l, place, r)
    BY <2>2, FollowKeeps
  <2>3. CASE Refuse \/ Unreachable
    BY <2>3, FailsKeeps DEF Refuse, Unreachable
  <2>4. CASE RecoverByReferer
    BY <2>4, RecoverByRefererKeeps
  <2>5. CASE Fallback
    BY <2>5, FallbackKeeps
  <2>6. CASE Fetch
    BY <2>6, FetchKeeps
  <2>7. CASE \E f \in Fetched : AnswerOther(f) \/ \E own \in OwnBases \cup {None} : AnswerPage(f, own)
    BY <2>7, AnswerKeeps
  <2>8. CASE \E l \in Links, page \in BOOLEAN : AnswerRedirect(l, page)
    BY <2>8, AnswerRedirectKeeps
  <2>9. CASE \E s \in Sites : OtherTab(s)
    BY <2>9, OtherTabKeeps
  <2>10. CASE UNCHANGED gwVars
    BY <2>10 DEF gwVars, LandsInv, SitesOK, GatewayStages, BaseOK, Aim, PathAim, Meant, Address
  <2>11. QED
    BY <2>1, <2>2, <2>3, <2>4, <2>5, <2>6, <2>7, <2>8, <2>9, <2>10 DEF GatewayNext
<1>2. LandsInv => LandsWhereMeant
  <2> SUFFICES ASSUME LandsInv, stage = "fetch"
               PROVE  /\ how \in {"straight", "slash"} => SameSite
                      /\ how = "straight" => SamePath
                      /\ how = "guess" /\ only = SiteMeant(want) => SameSite
    BY DEF LandsWhereMeant, SiteMeant
  <2>1. Address(ask) /\ Meant(ask) /\ want.scheme \in Schemes
    BY DEF LandsInv, GatewayStages, Aim
  <2>2. SiteOf(ask) = SiteMeant(want) => SameSite
    BY <2>1, ParseAddress DEF SiteOf, SiteMeant, SameSite
  <2>3. how = "straight" => SamePath
    BY DEF LandsInv, PathAim, SamePath
  <2>4. ASSUME how = "guess", only = SiteMeant(want) PROVE SiteOf(ask) = SiteMeant(want)
    <3>1. only # Many
      BY <2>1, <2>4 DEF SiteMeant, Many, Schemes
    <3>2. Near(SiteOf(ask), want, only)
      BY <2>1, <2>4, <3>1 DEF Meant
    <3>3. <<only[1], want.host>> = SiteMeant(want)
      BY <2>4 DEF SiteMeant
    <3>4. QED
      BY <2>4, <3>2, <3>3 DEF Near
  <2>5. how \in {"straight", "slash"} => SiteOf(ask) = SiteMeant(want)
    BY <2>1 DEF Meant
  <2>6. QED
    BY <2>2, <2>3, <2>4, <2>5
<1>3. QED
  BY <1>1, <1>2, LandsInvInit, PTL DEF GatewaySpec
=============================================================================
