----------------------------- MODULE SftpStart -----------------------------
(* How SFTP is started over an SSH session that is logged in, and the session *)
(* that browsing keeps.  The caller has the SSH session for itself.  An       *)
(* attempt opens a channel, asks for the subsystem or for an executable on    *)
(* it, and shakes hands; every wait for the server has its limit.  What the   *)
(* server sends meanwhile besides SFTP is kept as a diagnosis, and in mode    *)
(* auto it decides whether an executable is looked for and started instead.   *)
EXTENDS Naturals

CONSTANT MaxStarts       \* bound: the attempts and probes ever begun

ASSUME SftpAssumption == MaxStarts \in Nat

VARIABLES linked,     \* the session has its SSH connection
          mode,       \* sftp_launch_mode
          validPath,  \* sftp_server_path is an absolute path
          caller,     \* "browse", or "own" for one that keeps its session itself
          phase,      \* how far the call is
          request,    \* what the channel is asked for: SftpRequest, or the probe
          evidence,   \* has_remote_failure
          cached,     \* browse_sftp, and whether its channel still lives
          starts,     \* attempts and probes begun (history)
          sign,       \* the server gave a sign of failure to the subsystem (history)
          found,      \* the probe found an executable (history)
          strays,     \* channels that were opened and that nobody closes (history)
          lapses      \* waits that ran out, requests that could not be sent (history)

sftpVars == <<linked, mode, validPath, caller, phase, request, evidence,
              cached, starts, sign, found, strays, lapses>>
configVars == <<mode, validPath>>
callVars == <<caller, request>>
pastVars == <<sign, found>>

Modes == {"subsystem", "custom", "auto"}

SftpInit ==
  /\ linked = TRUE
  /\ mode \in Modes /\ validPath \in BOOLEAN
  /\ caller = "browse" /\ request = "subsystem"
  /\ phase = "idle"
  /\ evidence = FALSE
  /\ cached = "none"
  /\ starts = 0
  /\ sign = FALSE /\ found = FALSE
  /\ strays = 0 /\ lapses = 0

-----------------------------------------------------------------------------
(* The call is over, without a session.                                       *)
CallFails ==
  /\ phase' = "idle"
  /\ UNCHANGED <<linked, configVars, callVars, cached, starts>>

(* start_sftp_attempt, probe_sftp_server: with no connection there is nothing *)
(* to open a channel on.                                                      *)
Start(what, who) ==
  /\ starts < MaxStarts
  /\ starts' = starts + 1
  /\ caller' = who /\ request' = what
  /\ evidence' = FALSE
  /\ phase' = IF linked THEN "open" ELSE "idle"
  /\ UNCHANGED <<linked, configVars, cached, strays, lapses>>

(* open_sftp_with_info; with_browse_sftp does it when it has no session.      *)
OpenSftp(who) ==
  /\ phase = "idle"
  /\ who = "browse" => cached = "none"
  /\ mode = "custom" => validPath
  /\ Start(IF mode = "custom" THEN "exec" ELSE "subsystem", who)
  /\ sign' = FALSE /\ found' = FALSE

(* The channel is opened, or not, or not in time: an answer that comes after  *)
(* that opens a channel nobody has.                                           *)
ChannelOpens ==
  /\ phase = "open"
  /\ \/ /\ phase' = "request"
        /\ UNCHANGED <<linked, configVars, callVars, evidence, cached, starts, pastVars, strays, lapses>>
     \/ CallFails /\ UNCHANGED <<evidence, pastVars, strays, lapses>>
     \/ /\ CallFails /\ UNCHANGED pastVars
        /\ strays' \in {strays, strays + 1} /\ lapses' = lapses + 1
        /\ UNCHANGED evidence

(* The request is sent, or could not be.  Only the probe closes the channel   *)
(* then; an attempt lets go of it.                                            *)
RequestSent ==
  /\ phase = "request"
  /\ \/ /\ phase' = "reply"
        /\ UNCHANGED <<linked, configVars, callVars, evidence, cached, starts, pastVars, strays, lapses>>
     \/ /\ CallFails /\ UNCHANGED pastVars
        /\ strays' = IF request = "probe" THEN strays ELSE strays + 1
        /\ lapses' = lapses + 1
        /\ UNCHANGED evidence

(* Standard error, or an exit status that is not 0.                           *)
Diagnosed ==
  /\ phase \in {"reply", "shake"} /\ request # "probe"
  /\ evidence' = TRUE
  /\ sign' = (sign \/ request = "subsystem")
  /\ UNCHANGED <<linked, configVars, callVars, phase, cached, starts, found, strays, lapses>>

(* The attempt is over with an error after which another way may be tried.    *)
Recoverable ==
  IF mode = "auto" /\ request = "subsystem"
  THEN Start("probe", caller)
  ELSE CallFails /\ UNCHANGED <<evidence, strays, lapses>>

(* Mutant: the channel is not closed.                                         *)
RefusedOpen ==
  /\ phase = "reply" /\ request # "probe"
  /\ sign' = (sign \/ request = "subsystem") /\ UNCHANGED found
  /\ IF mode = "auto" /\ request = "subsystem" /\ starts < MaxStarts
     THEN /\ starts' = starts + 1 /\ request' = "probe" /\ phase' = "open"
          /\ evidence' = FALSE
          /\ UNCHANGED <<linked, configVars, caller, cached>>
     ELSE CallFails /\ UNCHANGED evidence
  /\ strays' = strays + 1
  /\ UNCHANGED lapses

(* The server rejects the request, or ends the channel, or sends data before  *)
(* it has accepted the request: the channel is closed.                        *)
Refused ==
  /\ phase = "reply" /\ request # "probe"
  /\ sign' = (sign \/ request = "subsystem") /\ UNCHANGED found
  /\ Recoverable

Accepted ==
  /\ phase = "reply" /\ request # "probe"
  /\ phase' = "shake"
  /\ UNCHANGED <<linked, configVars, callVars, evidence, cached, starts, pastVars, strays, lapses>>

(* It says neither: the channel is let go of, open.                           *)
ReplyLate ==
  /\ phase = "reply" /\ request # "probe"
  /\ CallFails
  /\ strays' = strays + 1 /\ lapses' = lapses + 1
  /\ UNCHANGED <<evidence, pastVars>>

(* The hands are shaken.  The stream is the session's, and closes the channel *)
(* when it is dropped.                                                        *)
Shaken ==
  /\ phase = "shake"
  /\ IF caller = "browse" THEN phase' = "use" /\ cached' = "live"
     ELSE phase' = "idle" /\ UNCHANGED cached
  /\ UNCHANGED <<linked, configVars, callVars, evidence, starts, pastVars, strays, lapses>>

(* The server speaks something else, or ends the channel.                     *)
ShakeFails ==
  /\ phase = "shake"
  /\ sign' = (sign \/ request = "subsystem") /\ UNCHANGED found
  /\ Recoverable

(* It says nothing more: that is a failure of the server only if it had said  *)
(* something on its standard error before, or had ended with a status.        *)
ShakeLate ==
  /\ phase = "shake"
  /\ UNCHANGED pastVars
  /\ IF evidence THEN Recoverable ELSE CallFails /\ UNCHANGED <<evidence, strays, lapses>>

(* probe_sftp_server: the channel is closed whatever came, and an executable  *)
(* that it found is started.                                                  *)
Probed ==
  /\ phase = "reply" /\ request = "probe"
  /\ \/ /\ found' = TRUE
        /\ Start("exec", caller)
        /\ UNCHANGED sign
     \/ CallFails /\ UNCHANGED <<evidence, pastVars, strays, lapses>>

(* with_browse_sftp: the operation is done on the session that is kept, ...   *)
Browse ==
  /\ phase = "idle" /\ cached # "none"
  /\ phase' = "use"
  /\ UNCHANGED <<linked, configVars, callVars, evidence, cached, starts, pastVars, strays, lapses>>

(* ... which stays if it succeeds, and goes with any error.                   *)
Browsed ==
  /\ phase = "use"
  /\ phase' = "idle"
  /\ \/ cached = "live" /\ UNCHANGED cached
     \/ cached' = "none"
  /\ UNCHANGED <<linked, configVars, callVars, evidence, starts, pastVars, strays, lapses>>

(* The server ends the session that is kept.                                  *)
SessionDies ==
  /\ cached = "live"
  /\ cached' = "dead"
  /\ UNCHANGED <<linked, configVars, callVars, phase, evidence, starts, pastVars, strays, lapses>>

(* disconnect, which is not called during another call; the channels go with  *)
(* the connection.                                                            *)
Unlink ==
  /\ phase = "idle" /\ linked
  /\ linked' = FALSE /\ cached' = "none"
  /\ strays' = 0 /\ lapses' = 0
  /\ UNCHANGED <<configVars, callVars, phase, evidence, starts, pastVars>>

-----------------------------------------------------------------------------
SftpNext ==
  \/ \E who \in {"browse", "own"} : OpenSftp(who)
  \/ ChannelOpens \/ RequestSent \/ Diagnosed
  \/ Refused \/ Accepted \/ ReplyLate
  \/ Shaken \/ ShakeFails \/ ShakeLate \/ Probed
  \/ Browse \/ Browsed \/ SessionDies \/ Unlink

SftpSpec == SftpInit /\ [][SftpNext]_sftpVars

-----------------------------------------------------------------------------
(* A channel is left open on the server only by a wait that ran out: each     *)
(* refusal, failed handshake and probe closes its own, so that a server with  *)
(* a small MaxSessions is not used up by attempts that it answers.            *)
OnlySilenceStrays == strays <= lapses

(* In mode auto an executable is started on the server only after the server  *)
(* itself gave a sign that its subsystem fails, and after the probe found it: *)
(* never because it was slow.                                                 *)
FallbackIsEarned ==
  mode = "auto" /\ request \in {"probe", "exec"} => sign /\ (request = "exec" => found)
=============================================================================
