------------------------------ MODULE LiveFrames ------------------------------
(***************************************************************************)
(* The frames of one channel: the ring buffer late viewers are replayed    *)
(* from (starhub-live/src/frames.rs), the broadcast buffer and the two     *)
(* steps of push_frame and of subscribe (hub.rs), and what a panel can     *)
(* show of what it gets (client-nav StarHubLivePanel.tsx).                 *)
(*                                                                         *)
(* A frame is its number in the order of encoding and its kind; its        *)
(* payload only counts by its size.  MSG_PNG is the kind "png"; MSG_H264   *)
(* comes as "config", "key" or "delta" by its flags.                       *)
(***************************************************************************)
EXTENDS Naturals, Sequences, FiniteSets, SequencesExt

CONSTANTS
  Pump, Scrcpy,   \* the two tasks that push frames
  Viewers,        \* connections
  Size,           \* kind -> bytes of one encoded frame
  RingCap,        \* RING_CAP_BYTES
  BufferCap,      \* capacity of the broadcast channel
  MaxFrames       \* bound: frames ever encoded

Kinds == {"png", "config", "key", "delta"}

ASSUME FramesAssumption ==
  /\ Pump # Scrcpy
  /\ Size \in [Kinds -> Nat \ {0}]
  /\ {RingCap, BufferCap, MaxFrames} \subseteq Nat

VARIABLES
  encoded,     \* number of frames encoded so far
  ring,        \* PacketRing.entries
  bytes,       \* PacketRing.bytes
  cast,        \* what the broadcast channel was given, oldest first
  inHand,      \* pusher -> the frame it has in the ring and not yet sent
  announced,   \* whether scrcpy's config packet has been encoded
  viewer       \* viewer -> its connection and its panel

framesVars == <<encoded, ring, bytes, cast, inHand, announced, viewer>>

Pushers == {Pump, Scrcpy}
Frame == [n : 1 .. MaxFrames, kind : Kinds]

(* A connection: where it is, what it replays, how far it has read the     *)
(* broadcast and what it read; its panel: whether its decoder can be       *)
(* configured, and the number of the frame on its canvas.                  *)
NewViewer == [pc |-> "away", replay |-> <<>>, pos |-> 0, live |-> <<>>,
              described |-> FALSE, canvas |-> 0]

FramesTypeOK ==
  /\ encoded \in 0 .. MaxFrames
  /\ ring \in Seq(Frame)
  /\ bytes \in Nat
  /\ cast \in Seq(Frame)
  /\ inHand \in [Pushers -> Frame \cup {<<>>}]
  /\ announced \in BOOLEAN
  /\ DOMAIN viewer = Viewers
  /\ \A v \in Viewers :
       /\ viewer[v].pc \in {"away", "counted", "replayed", "watching"}
       /\ viewer[v].replay \in Seq(Frame)
       /\ viewer[v].live \in Seq(Frame)
       /\ viewer[v].pos \in 0 .. Len(cast)
       /\ viewer[v].described \in BOOLEAN
       /\ viewer[v].canvas \in 0 .. MaxFrames

FramesInit ==
  /\ encoded = 0
  /\ ring = <<>>
  /\ bytes = 0
  /\ cast = <<>>
  /\ inHand = [p \in Pushers |-> <<>>]
  /\ announced = FALSE
  /\ viewer = [v \in Viewers |-> NewViewer]

-----------------------------------------------------------------------------
BytesOf(s) == FoldSeq(LAMBDA f, sum : sum + Size[f.kind], 0, s)

(* PacketRing::push: append, then drop from the front while over the cap.  *)
(* What is kept is the longest suffix within the cap.                      *)
Kept(s) ==
  LET fits == {i \in 1 .. Len(s) + 1 : BytesOf(SubSeq(s, i, Len(s))) <= RingCap}
      first == CHOOSE i \in fits : \A j \in fits : i <= j
  IN  SubSeq(s, first, Len(s))

(* PacketRing::replay: from the latest frame that decodes by itself, from  *)
(* the oldest one if there is none.                                        *)
SelfContained(f) == f.kind \in {"png", "key"}
Replay(s) ==
  LET starts == {i \in DOMAIN s : SelfContained(s[i])}
  IN  IF starts = {} THEN s
      ELSE SubSeq(s, CHOOSE i \in starts : \A j \in starts : j <= i, Len(s))

(* What the panel makes of one frame: a png is drawn; a config packet only *)
(* yields the decoder's description, and without one an H.264 frame is     *)
(* not decoded.                                                            *)
Shown(panel, f) ==
  CASE f.kind = "png" -> [panel EXCEPT !.canvas = f.n]
    [] f.kind = "config" -> [panel EXCEPT !.described = TRUE]
    [] OTHER -> IF panel.described THEN [panel EXCEPT !.canvas = f.n] ELSE panel

-----------------------------------------------------------------------------
(* Channel::push_frame: into the ring, under its lock ...                  *)
PushToRing(p, kind) ==
  LET f == [n |-> encoded + 1, kind |-> kind] IN
  /\ inHand[p] = <<>>
  /\ encoded < MaxFrames
  /\ encoded' = encoded + 1
  /\ ring' = Kept(Append(ring, f))
  /\ bytes' = BytesOf(Kept(Append(ring, f)))
  /\ inHand' = [inHand EXCEPT ![p] = f]
  /\ UNCHANGED <<cast, viewer>>

(* ... and then to whoever has subscribed.                                 *)
Broadcast(p) ==
  /\ inHand[p] # <<>>
  /\ cast' = Append(cast, inHand[p])
  /\ inHand' = [inHand EXCEPT ![p] = <<>>]
  /\ UNCHANGED <<encoded, ring, bytes, announced, viewer>>

(* The pump pushes screenshots until the scrcpy run is ready; a screenshot *)
(* begun before may still come after.                                      *)
PushScreenshot ==
  /\ PushToRing(Pump, "png")
  /\ UNCHANGED announced

(* scrcpy sends one config packet, a key frame, then deltas and key frames.*)
PushVideo(kind) ==
  /\ announced \/ kind = "config"
  /\ announced => kind # "config"
  /\ kind = "delta" => \E i \in DOMAIN cast : cast[i].kind = "key"
  /\ PushToRing(Scrcpy, kind)
  /\ announced' = TRUE

(* Channel::subscribe counts the viewer, copies the replay under the       *)
(* ring's lock and only then attaches a receiver to the broadcast.         *)
Subscribe(v) ==
  /\ viewer[v].pc = "away"
  /\ viewer' = [viewer EXCEPT ![v] = [NewViewer EXCEPT !.pc = "counted"]]
  /\ UNCHANGED <<encoded, ring, bytes, cast, inHand, announced>>

TakeReplay(v) ==
  /\ viewer[v].pc = "counted"
  /\ viewer' = [viewer EXCEPT ![v].pc = "replayed", ![v].replay = Replay(ring)]
  /\ UNCHANGED <<encoded, ring, bytes, cast, inHand, announced>>

GoLive(v) ==
  LET seen == FoldLeft(Shown, viewer[v], viewer[v].replay) IN
  /\ viewer[v].pc = "replayed"
  /\ viewer' = [viewer EXCEPT ![v].pc = "watching", ![v].pos = Len(cast),
                              ![v].described = seen.described,
                              ![v].canvas = seen.canvas]
  /\ UNCHANGED <<encoded, ring, bytes, cast, inHand, announced>>

(* Mutant: a receiver that lags resumes at the oldest frame it can get.    *)
ReceiveLagging(v) ==
  LET me == viewer[v]
      at == IF Len(cast) - me.pos > BufferCap
            THEN Len(cast) - BufferCap + 1 ELSE me.pos + 1 IN
  /\ me.pc = "watching"
  /\ me.pos < Len(cast)
  /\ viewer' = [viewer EXCEPT ![v] =
       Shown([me EXCEPT !.pos = at, !.live = Append(@, cast[at])], cast[at])]
  /\ UNCHANGED <<encoded, ring, bytes, cast, inHand, announced>>

(* The forwarding loop takes the next frame; when the oldest one it has    *)
(* not read is gone from the buffer, the error ends the connection.        *)
Receive(v) ==
  LET me == viewer[v]
      f == cast[me.pos + 1] IN
  /\ me.pc = "watching"
  /\ me.pos < Len(cast)
  /\ viewer' = [viewer EXCEPT ![v] =
       IF Len(cast) - me.pos > BufferCap THEN NewViewer
       ELSE Shown([me EXCEPT !.pos = me.pos + 1, !.live = Append(@, f)], f)]
  /\ UNCHANGED <<encoded, ring, bytes, cast, inHand, announced>>

Leave(v) ==
  /\ viewer[v].pc = "watching"
  /\ viewer' = [viewer EXCEPT ![v] = NewViewer]
  /\ UNCHANGED <<encoded, ring, bytes, cast, inHand, announced>>

FramesNext ==
  \/ PushScreenshot
  \/ \E kind \in {"config", "key", "delta"} : PushVideo(kind)
  \/ \E p \in Pushers : Broadcast(p)
  \/ \E v \in Viewers : \/ Subscribe(v) \/ TakeReplay(v) \/ GoLive(v)
                        \/ Receive(v) \/ Leave(v)

FramesSpec == FramesInit /\ [][FramesNext]_framesVars

-----------------------------------------------------------------------------
Got(v) == viewer[v].replay \o viewer[v].live

(* While its connection lasts, a viewer reads everything that is broadcast *)
(* from the moment it attached, without a gap and in the order it was      *)
(* sent: one that falls behind the buffer is disconnected, never resumed   *)
(* past the hole (ws.rs forwarding loop).                                  *)
NoGapWhileWatching ==
  \A v \in Viewers : viewer[v].pc = "watching" =>
    viewer[v].live = SubSeq(cast, viewer[v].pos - Len(viewer[v].live) + 1,
                            viewer[v].pos)

-----------------------------------------------------------------------------
(* What the sources say and the code does not do.                          *)

(* frames.rs: a key frame decodes by itself, and that is what a late       *)
(* viewer gets; so a panel that was given one shows it or a later frame.   *)
KeyFrameIsShown ==
  \A v \in Viewers : viewer[v].pc = "watching" =>
    \A i \in DOMAIN Got(v) :
      Got(v)[i].kind = "key" => viewer[v].canvas >= Got(v)[i].n
=============================================================================
