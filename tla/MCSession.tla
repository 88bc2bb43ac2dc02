------------------------------ MODULE MCSession ------------------------------
(* What an SSH session does around its shell: it logs in, starts SFTP,        *)
(* forwards ports and serves the web gateway.  These parts share no state     *)
(* that the modules model, so the run takes them one at a time.               *)
EXTENDS SshAuth, SftpStart, Forwards, WebGateway, TLC

VARIABLE part
allVars == <<part, authVars, sftpVars, fwdVars, gwVars>>

MCWords == {".", "..", "", "__proxy__", "http", "https", "g", "h", "a", "b", "c"}
MCRootPaths == {<<"">>, <<"a", "..", "b", "">>, <<"..", "h", "a">>}
MCRelPaths == {<<"c">>, <<"..", "c">>, <<".">>}
MCOwnBases == {Link("full", "https", "h", <<"a", "..", "b", "">>),
               Link("root", None, None, <<"..", "h", "a">>), Link("rel", None, None, <<".">>)}

(* The parts that are not taken start in one fixed state.                     *)
OneAuth == /\ viaJump = FALSE /\ kbEnabled = FALSE /\ mute = FALSE
           /\ auth = [h \in Hops |-> <<"password">>] /\ right = [h \in Hops |-> {}]
           /\ needs = [h \in Hops |-> {"password"}]
OneSftp == mode = "auto" /\ validPath = TRUE

(* Bound: at the jump host the user passes what passes at the target, or all. *)
Alike == viaJump => right["jump"] \in {right["target"], Methods}

(* Bound: a page whose links are followed comes in chunks, and whole.         *)
Plain == addr' # None => relay' = <<"chunked", "whole">>

MCInit ==
  /\ part \in {"auth", "sftp", "forwards", "gateway"}
  /\ AuthInit /\ SftpInit /\ ForwardsInit /\ GatewayInit
  /\ Alike
  /\ part # "auth" => OneAuth
  /\ part # "sftp" => OneSftp

MCNext ==
  /\ UNCHANGED part
  /\ \/ part = "auth" /\ AuthNext /\ UNCHANGED <<sftpVars, fwdVars, gwVars>>
     \/ part = "sftp" /\ SftpNext /\ UNCHANGED <<authVars, fwdVars, gwVars>>
     \/ part = "forwards" /\ ForwardsNext /\ UNCHANGED <<authVars, sftpVars, gwVars>>
     \/ part = "gateway" /\ GatewayNext /\ Plain /\ UNCHANGED <<authVars, sftpVars, fwdVars>>

MCSpec == MCInit /\ [][MCNext]_allVars /\ ForwardsFairness
=============================================================================
