------------------------ MODULE MainLoopMediaProofs ------------------------
(***************************************************************************)
(* Proofs about the two parts of the MUI port that run on its main task.   *)
(*                                                                         *)
(* The media player: no packet is left to a sleeping decoder, no paint job *)
(* outlives the player and the player comes to do what the page last asked *)
(* for, for every choice of streams and bounds.                            *)
(*                                                                         *)
(* The main loop, for any number of tasks, timers, functions and pushed    *)
(* methods: the inductive invariant, what the calls and returns of the main *)
(* task do to it, what each step does to it, and last the timers.          *)
(***************************************************************************)
EXTENDS MainLoop, MediaPlayer, QueueLemmas

-----------------------------------------------------------------------------
(* The media player.                                                       *)
DecoderPC == {"none", "head", "take", "asleep", "late", "woken", "decode", "posted", "bye"}

Types == /\ nextId \in Nat /\ nextId >= 1
         /\ pendingPaints \in Seq(Nat)
         /\ opened \in BOOLEAN
         /\ decoder \in [Streams -> DecoderPC]
         /\ queue \in [Streams -> Seq({"packet", "flush"})]

\* The decoders run for a file that is open, and only then: open() does not
\* start them a second time.
DecodersNeedFile ==
    /\ player = "opening" => ~opened
    /\ \A s \in Streams : decoder[s] # "none" => opened \/ player = "bye"

\* A frame was queued for painting, and its id is not yet kept.
Posted == Video \in Streams /\ decoder[Video] = "posted"
OnlyVideoPosts == \A s \in Streams : decoder[s] = "posted" => s = Video

\* The ids that are kept, or about to be.
Held == Len(pendingPaints) + (IF Posted THEN 1 ELSE 0)

\* The queued jobs are the newest ones, and so are the held ids, of which
\* there are at least as many, until the destructor has cancelled them.
PaintsAreNewest ==
    /\ mainQueue \in Seq(Nat)
    /\ \A i \in 1 .. Len(mainQueue) : mainQueue[i] = nextId - Len(mainQueue) + i - 1
    /\ \A i \in 1 .. Len(pendingPaints) : pendingPaints[i] = nextId - Held + i - 1
    /\ Len(mainQueue) <= Held

\* The player thread ends after the video decoder.
VideoEndsFirst ==
    player \in {"joinAudio", "audioJoin", "close", "bye"} /\ Video \in Streams =>
        decoder[Video] \in {"none", "bye"}

MediaIInv == /\ Types
             /\ NoPacketUnseen
             /\ DecodersNeedFile
             /\ OnlyVideoPosts
             /\ main = "gone" \/ PaintsAreNewest
             /\ VideoEndsFirst

-----------------------------------------------------------------------------
\* A player that was just made satisfies the invariant.
LEMMA InitMediaIInv == MediaInit => MediaIInv
<1> SUFFICES ASSUME MediaInit PROVE MediaIInv
  BY Zenon
<1> USE DEF MediaInit
<1>1. Types
  <2>1. <<>> \in Seq(Nat) /\ <<>> \in Seq({"packet", "flush"})
    OBVIOUS
  <2>2. queue \in [Streams -> Seq({"packet", "flush"})]
    BY <2>1, Zenon
  <2>3. decoder \in [Streams -> DecoderPC]
    BY Zenon DEF DecoderPC
  <2>4. nextId \in Nat /\ nextId >= 1
    OBVIOUS
  <2>5. QED
    BY <2>1, <2>2, <2>3, <2>4, Zenon DEF Types
<1>2. NoPacketUnseen /\ DecodersNeedFile /\ OnlyVideoPosts
  BY Zenon DEF NoPacketUnseen, DecodersNeedFile, OnlyVideoPosts
<1>3. PaintsAreNewest
  BY DEF PaintsAreNewest, Held, Posted
<1>4. VideoEndsFirst
  BY Zenon DEF VideoEndsFirst
<1>5. QED
  BY <1>1, <1>2, <1>3, <1>4, Zenon DEF MediaIInv

\* What the paint jobs are kept in.
paintVars == <<nextId, mainQueue, pendingPaints>>

\* A step that leaves the paint jobs and the decoders alone only has to keep
\* what is said of the player thread and the queues.
LEMMA SamePaints ==
    ASSUME MediaIInv, UNCHANGED paintVars, Posted' <=> Posted, main = "gone" => main' = "gone"
    PROVE  main' = "gone" \/ PaintsAreNewest'
<1>1. Held' = Held
  BY Zenon DEF Held, paintVars
<1>2. QED
  BY <1>1, Zenon DEF MediaIInv, PaintsAreNewest, paintVars

\* The steps that touch no decoder, no queue and no paint job.
LEMMA QuietSteps ==
    ASSUME MediaIInv, UNCHANGED <<paintVars, decoder, queue>>, main = "gone" => main' = "gone",
           opened' \in BOOLEAN, opened => opened' \/ player' = "bye",
           player' = "opening" => ~opened',
           player' \in {"joinAudio", "audioJoin", "close", "bye"} =>
               \/ player \in {"joinAudio", "audioJoin", "close"}
               \/ Video \in Streams => decoder[Video] \in {"none", "bye"},
           player = "bye" => player' = "bye"
    PROVE  MediaIInv'
<1> USE DEF MediaIInv, paintVars
<1>1. Types'
  BY Zenon DEF Types
<1>2. NoPacketUnseen'
  BY Zenon DEF NoPacketUnseen
<1>3. DecodersNeedFile'
  BY Zenon DEF DecodersNeedFile, Types
<1>4. OnlyVideoPosts'
  BY Zenon DEF OnlyVideoPosts
<1>5. main' = "gone" \/ PaintsAreNewest'
  <2>1. Posted' <=> Posted
    BY Zenon DEF Posted
  <2>2. QED
    BY <2>1, SamePaints, Zenon
<1>6. VideoEndsFirst'
  BY Zenon DEF VideoEndsFirst
<1>7. QED
  BY <1>1, <1>2, <1>3, <1>4, <1>5, <1>6, Zenon

\* The steps of the main thread keep the invariant.
LEMMA MainSteps == ASSUME MediaIInv, MediaMainStep PROVE MediaIInv'
<1>1. CASE ReceiveResponse
  BY <1>1, QuietSteps, Zenon DEF ReceiveResponse, SendCommand, flags, paintVars, MediaIInv, Types,
     DecodersNeedFile, VideoEndsFirst
<1>2. CASE ReceiveData
  BY <1>2, QuietSteps, Zenon DEF ReceiveData, flags, paintVars, MediaIInv, Types,
     DecodersNeedFile, VideoEndsFirst
<1>3. CASE Seek
  BY <1>3, QuietSteps, Zenon DEF Seek, SendCommand, mainVars, paintVars, MediaIInv, Types,
     DecodersNeedFile, VideoEndsFirst
<1>4. CASE Destroy
  BY <1>4, QuietSteps, Zenon DEF Destroy, SendCommand, paintVars, MediaIInv, Types,
     DecodersNeedFile, VideoEndsFirst
<1>5. ASSUME NEW cmd \in {"play", "pause"}, PlayOrPause(cmd) PROVE MediaIInv'
  BY <1>5, QuietSteps, Zenon DEF PlayOrPause, SendCommand, mainVars, flags, paintVars, MediaIInv, Types,
     DecodersNeedFile, VideoEndsFirst
<1>6. CASE Paint
  <2> USE <1>6 DEF Paint, flags, MediaIInv
  <2>1. Types'
    BY DEF Types
  <2>2. NoPacketUnseen' /\ DecodersNeedFile' /\ OnlyVideoPosts' /\ VideoEndsFirst'
    BY Zenon DEF NoPacketUnseen, DecodersNeedFile, OnlyVideoPosts, VideoEndsFirst
  <2>3. PaintsAreNewest /\ Types /\ (Posted' <=> Posted) /\ nextId' = nextId
    BY Zenon DEF Posted
  <2>4. /\ mainQueue' \in Seq(Nat) /\ Len(mainQueue) \in Nat \ {0}
        /\ Len(mainQueue') = Len(mainQueue) - 1
        /\ \A i \in 1 .. Len(mainQueue') : mainQueue'[i] = mainQueue[i + 1]
    BY <2>3 DEF PaintsAreNewest
  <2>5. \/ /\ Len(pendingPaints) \in Nat \ {0}
           /\ Len(pendingPaints') = Len(pendingPaints) - 1
           /\ \A i \in 1 .. Len(pendingPaints') : pendingPaints'[i] = pendingPaints[i + 1]
        \/ Len(pendingPaints) = 0 /\ Len(pendingPaints') = 0
    BY <2>3 DEF Types
  <2> HIDE <1>6 DEF Paint, MediaIInv
  <2>6. PaintsAreNewest'
    <3>1. \A i \in 1 .. Len(mainQueue') : mainQueue'[i] = nextId' - Len(mainQueue') + i - 1
      BY <2>3, <2>4 DEF PaintsAreNewest, Types
    <3>2. \A i \in 1 .. Len(pendingPaints') : pendingPaints'[i] = nextId' - Held' + i - 1
      <4> SUFFICES ASSUME NEW i \in 1 .. Len(pendingPaints')
                   PROVE  pendingPaints'[i] = nextId' - Held' + i - 1
        BY Zenon
      <4>1. /\ Len(pendingPaints) \in Nat \ {0}
            /\ Len(pendingPaints') = Len(pendingPaints) - 1
            /\ pendingPaints'[i] = pendingPaints[i + 1]
            /\ i + 1 \in 1 .. Len(pendingPaints)
        BY <2>5
      <4>2. Held' = Held - 1 /\ Held \in Nat /\ nextId \in Nat
        BY <2>3, <4>1 DEF Held, Types
      <4>3. pendingPaints[i + 1] = nextId - Held + (i + 1) - 1
        BY <2>3, <4>1, Zenon DEF PaintsAreNewest
      <4>4. QED
        BY <2>3, <4>1, <4>2, <4>3
    <3>3. Len(mainQueue') <= Held'
      BY <2>3, <2>4, <2>5 DEF PaintsAreNewest, Held
    <3>4. QED
      BY <2>4, <3>1, <3>2, <3>3, Zenon DEF PaintsAreNewest
  <2>7. QED
    BY <2>1, <2>2, <2>6, Zenon DEF MediaIInv
<1>7. CASE Destroyed
  BY <1>7, Zenon DEF Destroyed, flags, MediaIInv, Types, NoPacketUnseen, DecodersNeedFile,
     OnlyVideoPosts, VideoEndsFirst
<1>8. QED
  BY <1>1, <1>2, <1>3, <1>4, <1>5, <1>6, <1>7, Zenon DEF MediaMainStep

\* A signal to a decoder, with or without a packet.
LEMMA SignalSteps ==
    ASSUME MediaIInv, NEW s \in Streams, decoder' = Signalled(s),
           queue' \in {queue, [queue EXCEPT ![s] = Append(@, "packet")]},
           UNCHANGED <<main, paintVars, opened>>, player' # "opening", player # "bye",
           player' \in {"joinAudio", "audioJoin", "close", "bye"} =>
               player \in {"joinAudio", "audioJoin", "close"}
    PROVE  MediaIInv'
<1> USE DEF MediaIInv, paintVars, Signalled
<1>1. Types'
  <2>1. decoder' \in [Streams -> DecoderPC]
    BY Zenon DEF Types, DecoderPC
  <2>2. queue' \in [Streams -> Seq({"packet", "flush"})]
    <3>1. Append(queue[s], "packet") \in Seq({"packet", "flush"})
      BY DEF Types
    <3>2. QED
      BY <3>1, Zenon DEF Types
  <2>3. QED
    BY <2>1, <2>2, Zenon DEF Types
<1>2. NoPacketUnseen'
  BY Zenon DEF NoPacketUnseen, Types
<1>3. DecodersNeedFile'
  BY Zenon DEF DecodersNeedFile, Types
<1>4. OnlyVideoPosts'
  BY Zenon DEF OnlyVideoPosts, Types
<1>5. main' = "gone" \/ PaintsAreNewest'
  <2>1. Posted' <=> Posted
    BY Zenon DEF Posted, Types
  <2>2. QED
    BY <2>1, SamePaints, Zenon
<1>6. VideoEndsFirst'
  BY Zenon DEF VideoEndsFirst, Types
<1>7. QED
  BY <1>1, <1>2, <1>3, <1>4, <1>5, <1>6, Zenon

\* The steps of the player thread keep it.
LEMMA PlayerSteps == ASSUME MediaIInv, PlayerStep PROVE MediaIInv'
<1> USE DEF Player, mainVars, flags, paintVars
<1>1. CASE Hello
  BY <1>1, QuietSteps, Zenon DEF Hello, MediaIInv, Types
<1>2. CASE Loop
  BY <1>2, QuietSteps, Zenon DEF Loop, MediaIInv, Types
<1>3. CASE Sleep
  BY <1>3, QuietSteps, Zenon DEF Sleep, MediaIInv, Types
<1>4. CASE TakeCommand
  BY <1>4, QuietSteps, Zenon DEF TakeCommand, MediaIInv, Types
<1>5. CASE Open
  <2> USE <1>5 DEF Open, MediaIInv
  <2>1. \A s \in Streams : decoder[s] = "none"
    BY Zenon DEF DecodersNeedFile
  <2>2. Types'
    BY Zenon DEF Types, DecoderPC
  <2>3. NoPacketUnseen' /\ OnlyVideoPosts' /\ VideoEndsFirst'
    BY <2>1, Zenon DEF NoPacketUnseen, OnlyVideoPosts, VideoEndsFirst, Types
  <2>4. DecodersNeedFile'
    BY <2>1, Zenon DEF DecodersNeedFile, Types
  <2>5. Posted' <=> Posted
    BY <2>1, Zenon DEF Posted
  <2>6. QED
    BY <2>2, <2>3, <2>4, <2>5, SamePaints, Zenon
<1>6. CASE SeekNotNeeded
  BY <1>6, QuietSteps, Zenon DEF SeekNotNeeded, MediaIInv, Types
<1>7. CASE SeekStreams
  <2> USE <1>7 DEF SeekStreams, MediaIInv
  <2>1. Types'
    <3>1. <<"flush">> \in Seq({"packet", "flush"})
      OBVIOUS
    <3>2. queue' \in [Streams -> Seq({"packet", "flush"})]
      BY <3>1, Zenon DEF Types
    <3>3. QED
      BY <3>2, Zenon DEF Types
  <2>2. NoPacketUnseen'
    BY Zenon DEF NoPacketUnseen
  <2>3. OnlyVideoPosts' /\ VideoEndsFirst' /\ DecodersNeedFile'
    BY Zenon DEF OnlyVideoPosts, VideoEndsFirst, DecodersNeedFile
  <2>4. Posted' <=> Posted
    BY Zenon DEF Posted
  <2>5. QED
    BY <2>1, <2>2, <2>3, <2>4, SamePaints, Zenon
<1>8. CASE Demux
  <2>1. player = "demux" /\ player' \in {"demux", "loop"}
    BY <1>8, Zenon DEF Demux, AfterDemux
  <2>2. UNCHANGED <<main, paintVars, opened>>
    BY <1>8, Zenon DEF Demux
  <2>3. CASE UNCHANGED <<decoder, queue>>
    BY <2>1, <2>2, <2>3, QuietSteps, Zenon DEF MediaIInv, Types
  <2>4. ASSUME NEW s \in Streams, decoder' = Signalled(s),
               queue' = [queue EXCEPT ![s] = Append(@, "packet")]
        PROVE  MediaIInv'
    BY <2>1, <2>2, <2>4, SignalSteps, Zenon
  <2>5. QED
    BY <1>8, <2>3, <2>4, Zenon DEF Demux
<1>9. CASE Drain
  BY <1>9, QuietSteps, Zenon DEF Drain, AfterDemux, MediaIInv, Types
<1>10. CASE StopDecoder(Video, "joinVideo", "videoJoin", "joinAudio")
  <2>1. CASE Video \in Streams /\ decoder[Video] \notin {"none", "bye"}
    BY <1>10, <2>1, SignalSteps, Zenon DEF StopDecoder
  <2>2. CASE ~(Video \in Streams /\ decoder[Video] \notin {"none", "bye"})
    BY <1>10, <2>2, QuietSteps, Zenon DEF StopDecoder, MediaIInv, Types
  <2>3. QED
    BY <2>1, <2>2, Zenon
<1>11. CASE DecoderEnded(Video, "videoJoin", "joinAudio")
  BY <1>11, QuietSteps, Zenon DEF DecoderEnded, MediaIInv, Types
<1>12. CASE StopDecoder(Audio, "joinAudio", "audioJoin", "close")
  <2>1. CASE Audio \in Streams /\ decoder[Audio] \notin {"none", "bye"}
    BY <1>12, <2>1, SignalSteps, Zenon DEF StopDecoder
  <2>2. CASE ~(Audio \in Streams /\ decoder[Audio] \notin {"none", "bye"})
    BY <1>12, <2>2, QuietSteps, Zenon DEF StopDecoder, MediaIInv, Types
  <2>3. QED
    BY <2>1, <2>2
<1>13. CASE DecoderEnded(Audio, "audioJoin", "close")
  BY <1>13, QuietSteps, Zenon DEF DecoderEnded, MediaIInv, Types
<1>14. CASE Close
  BY <1>14, QuietSteps, Zenon DEF Close, MediaIInv, Types
<1>15. QED
  BY <1>1, <1>2, <1>3, <1>4, <1>5, <1>6, <1>7, <1>8, <1>9, <1>10, <1>11, <1>12, <1>13,
     <1>14, Zenon DEF PlayerStep

\* A step of a decoder that has no frame to post.
LEMMA QuietDecoderSteps ==
    ASSUME MediaIInv, NEW s \in Streams, NEW to \in DecoderPC, Decoder(s, decoder[s], to),
           decoder[s] \notin {"none", "bye", "posted"}, to \notin {"none", "posted"},
           to = "asleep" => queue'[s] = <<>>,
           queue' \in [Streams -> Seq({"packet", "flush"})],
           \A r \in Streams : r # s => queue'[r] = queue[r],
           UNCHANGED <<main, paintVars, opened, player>>
    PROVE  MediaIInv'
<1> USE DEF MediaIInv, paintVars, Decoder
<1>1. Types'
  BY Zenon DEF Types
<1>2. NoPacketUnseen'
  BY Zenon DEF NoPacketUnseen, Types
<1>3. DecodersNeedFile'
  BY Zenon DEF DecodersNeedFile, Types
<1>4. OnlyVideoPosts'
  BY Zenon DEF OnlyVideoPosts, Types
<1>5. main' = "gone" \/ PaintsAreNewest'
  <2>1. Posted' <=> Posted
    BY Zenon DEF Posted, Types
  <2>2. QED
    BY <2>1, SamePaints, Zenon
<1>6. VideoEndsFirst'
  BY Zenon DEF VideoEndsFirst, Types
<1>7. QED
  BY <1>1, <1>2, <1>3, <1>4, <1>5, <1>6, Zenon

\* The steps of the decoder threads keep it.
LEMMA DecoderSteps == ASSUME MediaIInv, NEW s \in Streams, DecoderStep(s) PROVE MediaIInv'
<1> USE DEF mainVars, flags, paintVars
<1>q. queue \in [Streams -> Seq({"packet", "flush"})]
  BY Zenon DEF MediaIInv, Types
<1>t. queue[s] # <<>> => Tail(queue[s]) \in Seq({"packet", "flush"})
  BY <1>q
<1>1. CASE DecoderLoop(s)
  <2>1. <<>> \in Seq({"packet", "flush"})
    OBVIOUS
  <2>2. PICK to \in {"bye", "head", "take"} : Decoder(s, "head", to)
    BY <1>1, Zenon DEF DecoderLoop
  <2>3. /\ queue' \in [Streams -> Seq({"packet", "flush"})]
        /\ \A r \in Streams : r # s => queue'[r] = queue[r]
    BY <1>1, <1>q, <2>1, Zenon DEF DecoderLoop
  <2>4. QED
    BY <1>1, <2>2, <2>3, QuietDecoderSteps, Zenon DEF DecoderLoop, Decoder, DecoderPC
<1>2. CASE Take(s)
  <2>1. CASE queue[s] = <<>>
    <3>1. PICK to \in {"late", "asleep"} : Decoder(s, "take", to)
      BY <1>2, <2>1, Zenon DEF Take
    <3>2. QED
      BY <1>2, <1>q, <2>1, <3>1, QuietDecoderSteps, Zenon DEF Take, Decoder, DecoderPC
  <2>2. CASE queue[s] # <<>>
    <3>1. PICK to \in {"head", "decode"} : Decoder(s, "take", to)
      BY <1>2, <2>2, Zenon DEF Take
    <3>2. queue' = [queue EXCEPT ![s] = Tail(@)]
      BY <1>2, <2>2, Zenon DEF Take
    <3>3. QED
      BY <1>2, <1>q, <1>t, <2>2, <3>1, <3>2, QuietDecoderSteps, Zenon DEF Take, Decoder, DecoderPC
  <2>3. QED
    BY <2>1, <2>2, Zenon
<1>3. CASE WakeUp(s)
  <2>1. PICK to \in {"head", "decode"} : Decoder(s, "woken", to)
    BY <1>3, Zenon DEF WakeUp
  <2>2. /\ queue' \in [Streams -> Seq({"packet", "flush"})]
        /\ \A r \in Streams : r # s => queue'[r] = queue[r]
    BY <1>3, <1>q, <1>t, Zenon DEF WakeUp
  <2>3. QED
    BY <1>3, <2>1, <2>2, QuietDecoderSteps, Zenon DEF WakeUp, Decoder, DecoderPC
<1>4. CASE Decode(s)
  <2>1. CASE Decoder(s, "decode", "head") /\ UNCHANGED <<mainQueue, nextId>>
    BY <1>4, <1>q, <2>1, QuietDecoderSteps, Zenon DEF Decode, Decoder, DecoderPC
  <2>2. CASE /\ s = Video /\ Decoder(s, "decode", "posted")
             /\ mainQueue' = Append(mainQueue, nextId) /\ nextId' = nextId + 1
    <3>1. UNCHANGED <<main, pendingPaints, opened, player, queue>>
      BY <1>4, Zenon DEF Decode
    <3>2. Types' /\ Posted' /\ ~Posted
      BY <2>2, <3>1 DEF MediaIInv, Types, DecoderPC, Decoder, Posted
    <3>3. NoPacketUnseen' /\ OnlyVideoPosts'
      BY <2>2, <3>1, Zenon DEF MediaIInv, Types, Decoder, NoPacketUnseen, OnlyVideoPosts
    <3>4. DecodersNeedFile' /\ VideoEndsFirst'
      BY <2>2, <3>1, Zenon DEF MediaIInv, Types, Decoder, DecodersNeedFile, VideoEndsFirst
    <3>5. ASSUME PaintsAreNewest PROVE PaintsAreNewest'
      <4>1. /\ mainQueue' \in Seq(Nat) /\ Len(mainQueue) \in Nat
            /\ Len(mainQueue') = Len(mainQueue) + 1
            /\ mainQueue'[Len(mainQueue')] = nextId
            /\ \A i \in 1 .. Len(mainQueue) : mainQueue'[i] = mainQueue[i]
        BY <2>2, <3>5 DEF PaintsAreNewest, MediaIInv, Types
      <4>2. Held' = Held + 1 /\ Len(pendingPaints) \in Nat /\ Held = Len(pendingPaints)
        BY <3>1, <3>2 DEF Held, MediaIInv, Types
      <4>3. \A i \in 1 .. Len(mainQueue') :
                mainQueue'[i] = nextId' - Len(mainQueue') + i - 1
        BY <2>2, <3>5, <4>1 DEF PaintsAreNewest, MediaIInv, Types
      <4>4. \A i \in 1 .. Len(pendingPaints') :
                pendingPaints'[i] = nextId' - Held' + i - 1
        BY <2>2, <3>1, <3>5, <4>2 DEF PaintsAreNewest, MediaIInv, Types
      <4>5. QED
        BY <3>5, <4>1, <4>2, <4>3, <4>4 DEF PaintsAreNewest
    <3>6. QED
      BY <3>1, <3>2, <3>3, <3>4, <3>5, Zenon DEF MediaIInv
  <2>3. QED
    BY <1>4, <2>1, <2>2, Zenon DEF Decode
<1>5. CASE KeepId(s)
  <2>1. UNCHANGED <<main, mainQueue, nextId, opened, player, queue>>
    BY <1>5, Zenon DEF KeepId
  <2>2. /\ s = Video /\ Decoder(s, "posted", "head")
        /\ pendingPaints' = Append(pendingPaints, nextId - 1)
    BY <1>5, Zenon DEF KeepId, Decoder, MediaIInv, OnlyVideoPosts
  <2>3. Posted /\ ~Posted' /\ decoder' \in [Streams -> DecoderPC]
    BY <2>2, Zenon DEF Posted, Decoder, MediaIInv, Types, DecoderPC
  <2>4. NoPacketUnseen' /\ OnlyVideoPosts'
    BY <2>1, <2>2, Zenon DEF MediaIInv, Types, Decoder, NoPacketUnseen, OnlyVideoPosts
  <2>5. DecodersNeedFile' /\ VideoEndsFirst'
    BY <2>1, <2>2, Zenon DEF MediaIInv, Types, Decoder, DecodersNeedFile, VideoEndsFirst
  <2>6. /\ pendingPaints' \in Seq(Nat) /\ Len(pendingPaints) \in Nat
        /\ Len(pendingPaints') = Len(pendingPaints) + 1
        /\ pendingPaints'[Len(pendingPaints')] = nextId - 1
        /\ \A i \in 1 .. Len(pendingPaints) : pendingPaints'[i] = pendingPaints[i]
    BY <2>2 DEF MediaIInv, Types
  <2>7. Types'
    BY <2>1, <2>3, <2>6, Zenon DEF MediaIInv, Types
  <2>8. Held' = Held /\ Held = Len(pendingPaints')
    BY <2>3, <2>6 DEF Held
  <2>9. ASSUME PaintsAreNewest PROVE PaintsAreNewest'
    <3>1. \A i \in 1 .. Len(pendingPaints') : pendingPaints'[i] = nextId' - Held' + i - 1
      <4> SUFFICES ASSUME NEW i \in 1 .. Len(pendingPaints')
                   PROVE  pendingPaints'[i] = nextId' - Held' + i - 1
        BY Zenon
      <4>1. nextId \in Nat /\ nextId' = nextId
        BY <2>1, Zenon DEF MediaIInv, Types
      <4>2. CASE i = Len(pendingPaints')
        BY <2>6, <2>8, <4>1, <4>2
      <4>3. CASE i # Len(pendingPaints')
        <5>1. i \in 1 .. Len(pendingPaints) /\ pendingPaints'[i] = pendingPaints[i]
          BY <2>6, <4>3
        <5>2. QED
          BY <2>8, <2>9, <4>1, <5>1, Zenon DEF PaintsAreNewest
      <4>4. QED
        BY <4>2, <4>3, Zenon
    <3>2. QED
      BY <2>1, <2>8, <2>9, <3>1, Zenon DEF PaintsAreNewest
  <2>10. QED
    BY <2>1, <2>4, <2>5, <2>7, <2>9, Zenon DEF MediaIInv
<1>6. QED
  BY <1>1, <1>2, <1>3, <1>4, <1>5, Zenon DEF DecoderStep

-----------------------------------------------------------------------------
\* Every step keeps it.
LEMMA NextIInv == MediaIInv /\ [MediaNext]_mediaVars => MediaIInv'
<1> SUFFICES ASSUME MediaIInv, [MediaNext]_mediaVars PROVE MediaIInv'
  BY Zenon
<1>1. CASE MediaNext
  BY <1>1, MainSteps, PlayerSteps, DecoderSteps, Zenon DEF MediaNext
<1>2. CASE UNCHANGED mediaVars
  BY <1>2, QuietSteps, Zenon DEF mediaVars, mainVars, flags, paintVars, MediaIInv, Types, DecodersNeedFile,
     VideoEndsFirst
<1>3. QED
  BY <1>1, <1>2, Zenon

\* The invariant holds throughout.
LEMMA MediaInvariance == MediaSpec => []MediaIInv
  BY InitMediaIInv, NextIInv, PTL DEF MediaSpec

\* No packet waits for a decoder that sleeps on its condition, whatever the
\* streams and however many packets and commands there are: only the flush
\* packet of a seek is left there without a signal.
THEOREM NoLostPacket == MediaSpec => []NoPacketUnseen
<1>1. MediaIInv => NoPacketUnseen
  BY Zenon DEF MediaIInv
<1>2. QED
  BY <1>1, MediaInvariance, PTL

\* When the destructor goes through m_pendingPaintQueue, every paint job that
\* is queued for the main thread is in it, however many frames were decoded.
THEOREM NoPaintOutlives == MediaSpec => []PaintsKnown
<1>1. MediaIInv => PaintsKnown
  <2> SUFFICES ASSUME MediaIInv, main = "stopping", player = "bye", NEW i \in DOMAIN mainQueue
               PROVE  \E k \in DOMAIN pendingPaints : pendingPaints[k] = mainQueue[i]
    BY Zenon DEF PaintsKnown
  <2>1. PaintsAreNewest /\ ~Posted /\ Types
    BY Zenon DEF MediaIInv, VideoEndsFirst, Posted
  <2>2. Held = Len(pendingPaints) /\ Len(pendingPaints) \in Nat
    BY <2>1 DEF Held, Types
  <2>3. Len(mainQueue) \in Nat /\ i \in 1 .. Len(mainQueue)
    BY <2>1 DEF PaintsAreNewest
  <2>4. DOMAIN pendingPaints = 1 .. Len(pendingPaints)
    BY <2>1 DEF Types
  <2> DEFINE k == i + Len(pendingPaints) - Len(mainQueue)
  <2>5. k \in 1 .. Len(pendingPaints)
    BY <2>1, <2>2, <2>3 DEF PaintsAreNewest
  <2>6. pendingPaints[k] = mainQueue[i]
    BY <2>1, <2>2, <2>3, <2>5 DEF PaintsAreNewest, Types
  <2>7. QED
    BY <2>4, <2>5, <2>6, Zenon
<1>2. QED
  BY <1>1, MediaInvariance, PTL

-----------------------------------------------------------------------------
(* The commands, and what the page wants.                                  *)

Commands == {"load", "play", "pause", "seek", "stop"}

\* The commands q end with the player paused: a pause and no play after it,
PausesIn(q) == \E i \in 1 .. Len(q) :
    q[i] = "pause" /\ \A k \in 1 .. Len(q) : k > i => q[k] # "play"

\* and with the player playing, if it does without them.
PlayFollows(q) == \A i \in 1 .. Len(q) :
    q[i] = "pause" => \E k \in 1 .. Len(q) : k > i /\ q[k] = "play"

LoadedOnce(q) == \A i, k \in 1 .. Len(q) : q[i] = "load" /\ q[k] = "load" => i = k

\* The destructor stops the player thread, and nothing else does.
StopIsLast ==
    /\ main # "ready" => wanted = "any"
    /\ main = "ready" => (ctxRunning \/ player = "new") /\ ~Contains(commands, "stop")

\* The file is opened once, on the only load command, and played after that.
OpenedOnce ==
    /\ LoadedOnce(commands)
    /\ opened \/ player = "opening" \/ network = "none" => ~Contains(commands, "load")
    /\ network = "none" => ~opened /\ player # "opening"
    /\ player = "opening" => ~opened
    /\ started => opened \/ player = "bye"

\* A pause is still to come, or has been obeyed.
PauseHeeded == wanted = "pause" =>
    PausesIn(commands) \/ (~started /\ ~Contains(commands, "play"))

\* A playing player demuxes, or will when it comes to a play or a seek.
PlayHeeded ==
    /\ wanted = "play" => PlayFollows(commands)
    /\ wanted = "play" /\ opened /\ started =>
           player \in {"demux", "seek"} \/ Contains(commands, "play") \/ Contains(commands, "seek")

OInv == /\ commands \in Seq(Commands) /\ wanted \in {"play", "pause", "any"}
        /\ StopIsLast
        /\ OpenedOnce
        /\ PauseHeeded
        /\ PlayHeeded

\* A command is added at the end.
LEMMA CommandAdded ==
    ASSUME NEW q \in Seq(Commands), NEW c \in Commands, NEW r, r = Append(q, c)
    PROVE  /\ r \in Seq(Commands)
           /\ \A x : Contains(r, x) <=> Contains(q, x) \/ x = c
           /\ c # "play" /\ PausesIn(q) => PausesIn(r)
           /\ c = "pause" => PausesIn(r)
           /\ c # "pause" /\ PlayFollows(q) => PlayFollows(r)
           /\ c = "play" => PlayFollows(r)
           /\ LoadedOnce(q) /\ (c = "load" => ~Contains(q, "load")) => LoadedOnce(r)
<1>1. PICK n : n = Len(q) BY Zenon
<1>2. /\ n \in Nat /\ r \in Seq(Commands) /\ Len(r) = n + 1 /\ r[n + 1] = c
      /\ \A i \in 1 .. n : r[i] = q[i]
  BY <1>1
<1>3. \A i \in 1 .. (n + 1) : i \in 1 .. n \/ i = n + 1 BY <1>2
<1>4. \A i \in 1 .. n : i \in 1 .. (n + 1) /\ n + 1 > i BY <1>2
<1>5. n + 1 \in 1 .. (n + 1) BY <1>2
<1>6. ASSUME NEW x PROVE Contains(r, x) <=> Contains(q, x) \/ x = c
  BY <1>1, <1>2, <1>3, <1>4, <1>5, Zenon DEF Contains
<1>7. ASSUME c # "play", PausesIn(q) PROVE PausesIn(r)
  BY <1>1, <1>2, <1>3, <1>4, <1>7 DEF PausesIn
<1>8. ASSUME c = "pause" PROVE PausesIn(r)
  BY <1>2, <1>3, <1>4, <1>5, <1>8 DEF PausesIn
<1>9. ASSUME c # "pause", PlayFollows(q) PROVE PlayFollows(r)
  BY <1>1, <1>2, <1>3, <1>4, <1>9 DEF PlayFollows
<1>10. ASSUME c = "play" PROVE PlayFollows(r)
  BY <1>2, <1>3, <1>4, <1>5, <1>10, Zenon DEF PlayFollows
<1>11. ASSUME LoadedOnce(q), c = "load" => ~Contains(q, "load") PROVE LoadedOnce(r)
  BY <1>1, <1>2, <1>3, <1>4, <1>11 DEF LoadedOnce, Contains
<1> QED BY <1>2, <1>6, <1>7, <1>8, <1>9, <1>10, <1>11, Zenon

\* The first command is taken.
LEMMA CommandTaken ==
    ASSUME NEW q \in Seq(Commands), q # <<>>, NEW h, h = Head(q), NEW t, t = Tail(q)
    PROVE  /\ t \in Seq(Commands) /\ h \in Commands
           /\ \A x : Contains(q, x) <=> Contains(t, x) \/ x = h
           /\ PausesIn(q) => PausesIn(t) \/ (h = "pause" /\ ~Contains(t, "play"))
           /\ PlayFollows(q) => PlayFollows(t)
           /\ LoadedOnce(q) => LoadedOnce(t) /\ (h = "load" => ~Contains(t, "load"))
<1>1. PICK n : n = Len(t) BY Zenon
<1>2. /\ n \in Nat /\ t \in Seq(Commands) /\ Len(q) = n + 1 /\ q[1] = h /\ h \in Commands
      /\ \A i \in 1 .. n : t[i] = q[i + 1]
  BY <1>1
<1>3. \A i \in 1 .. (n + 1) : i = 1 \/ (i - 1 \in 1 .. n /\ q[i] = t[i - 1])
  <2> SUFFICES ASSUME NEW i \in 1 .. (n + 1), i # 1
               PROVE  i - 1 \in 1 .. n /\ q[i] = t[i - 1]
    BY Zenon
  <2>1. i - 1 \in 1 .. n /\ (i - 1) + 1 = i BY <1>2
  <2> QED BY <1>2, <2>1, Zenon
<1>4. \A i \in 1 .. n : i + 1 \in 1 .. (n + 1) /\ i + 1 > 1 BY <1>2
<1>5. 1 \in 1 .. (n + 1) BY <1>2
<1>6. ASSUME NEW x PROVE Contains(q, x) <=> Contains(t, x) \/ x = h
  BY <1>1, <1>2, <1>3, <1>4, <1>5 DEF Contains
<1>7. ASSUME PausesIn(q), ~PausesIn(t) PROVE h = "pause" /\ ~Contains(t, "play")
  <2>1. PICK i \in 1 .. (n + 1) : q[i] = "pause" /\ \A k \in 1 .. (n + 1) : k > i => q[k] # "play"
    BY <1>2, <1>7, Zenon DEF PausesIn
  <2>2. \A k \in 1 .. n : k + 1 > i => t[k] # "play" BY <1>2, <1>4, <2>1, Zenon
  <2>3. CASE i = 1
    BY <1>1, <1>2, <1>4, <2>1, <2>2, <2>3, Zenon DEF Contains
  <2>4. CASE i # 1
    <3>1. i - 1 \in 1 .. n /\ t[i - 1] = "pause" BY <1>3, <2>1, <2>4, Zenon
    <3>2. \A k \in 1 .. n : k > i - 1 => k + 1 > i BY <1>2
    <3> QED BY <1>1, <1>7, <2>2, <3>1, <3>2, Zenon DEF PausesIn
  <2> QED BY <2>3, <2>4, Zenon
<1>8. ASSUME PlayFollows(q) PROVE PlayFollows(t)
  <2> SUFFICES ASSUME NEW i \in 1 .. n, t[i] = "pause"
               PROVE  \E k \in 1 .. n : k > i /\ t[k] = "play"
    BY <1>1, Zenon DEF PlayFollows
  <2>1. PICK k \in 1 .. (n + 1) : k > i + 1 /\ q[k] = "play"
    BY <1>2, <1>4, <1>8, Zenon DEF PlayFollows
  <2>2. k - 1 \in 1 .. n /\ k - 1 > i /\ t[k - 1] = "play" BY <1>2, <1>3, <2>1
  <2> QED BY <2>2, Zenon
<1>9. ASSUME LoadedOnce(q) PROVE LoadedOnce(t) /\ (h = "load" => ~Contains(t, "load"))
  <2>1. ASSUME NEW i \in 1 .. n, NEW k \in 1 .. n, t[i] = "load", t[k] = "load" PROVE i = k
    <3>1. i + 1 = k + 1 BY <1>2, <1>4, <1>9, <2>1, Zenon DEF LoadedOnce
    <3> QED BY <3>1
  <2>2. ASSUME h = "load", NEW i \in 1 .. n, t[i] = "load" PROVE FALSE
    <3>1. i + 1 = 1 BY <1>2, <1>4, <1>5, <1>9, <2>2, Zenon DEF LoadedOnce
    <3> QED BY <1>2, <3>1
  <2> QED BY <1>1, <2>1, <2>2, Zenon DEF LoadedOnce, Contains
<1> QED BY <1>2, <1>6, <1>7, <1>8, <1>9, Zenon

\* A step that leaves the commands, and takes a playing player from its work
\* only when there is a play or a seek to come.
LEMMA NoCommand ==
    ASSUME OInv, commands' = commands, main' = "ready" <=> main = "ready",
           wanted' \in {wanted, "any"},
           main = "ready" => ctxRunning' \/ player' = "new",
           network' = "none" => network = "none",
           opened' => opened, started' => started,
           player' = "opening" => player = "opening",
           started' => opened' \/ player' = "bye",
           /\ wanted' = "play" /\ opened' /\ started'
           /\ player \in {"demux", "seek"} /\ player' \notin {"demux", "seek"}
           => Contains(commands, "play") \/ Contains(commands, "seek")
    PROVE  OInv'
<1>1. StopIsLast' BY Zenon DEF OInv, StopIsLast
<1>2. OpenedOnce' BY Zenon DEF OInv, OpenedOnce
<1>3. PauseHeeded' BY Zenon DEF OInv, PauseHeeded
<1>4. PlayHeeded' BY Zenon DEF OInv, PlayHeeded
<1> QED BY <1>1, <1>2, <1>3, <1>4, Zenon DEF OInv

\* What the step of a player whose page wants to play finds.
LEMMA PlayIsNext ==
    ASSUME OInv, wanted = "play", opened, commands # <<>>
    PROVE  Contains(commands, "play") \/ Contains(commands, "seek")
<1>1. /\ commands \in Seq(Commands) /\ PlayFollows(commands)
      /\ ~Contains(commands, "load") /\ ~Contains(commands, "stop")
  BY Zenon DEF OInv, PlayHeeded, OpenedOnce, StopIsLast
<1>2. 1 \in 1 .. Len(commands) /\ commands[1] \in Commands BY <1>1
<1>3. commands[1] # "load" /\ commands[1] # "stop" BY <1>1, <1>2, Zenon DEF Contains
<1>4. CASE commands[1] = "pause" BY <1>1, <1>2, <1>4, Zenon DEF PlayFollows, Contains
<1> QED BY <1>2, <1>3, <1>4, Zenon DEF Contains, Commands

\* sendCommand() adds the command, or finds it there.
LEMMA CommandSent ==
    ASSUME OInv, NEW c \in Commands, SendCommand(c)
    PROVE  /\ \/ commands' = Append(commands, c)
              \/ commands' = commands /\ c = "seek" /\ Contains(commands, "seek")
           /\ player' = player \/ (player = "asleep" /\ player' = "command")
<1>1. ASSUME commands # <<>>, commands[Len(commands)] = "seek" PROVE Contains(commands, "seek")
  <2>1. commands \in Seq(Commands) BY Zenon DEF OInv
  <2>2. Len(commands) \in 1 .. Len(commands) BY <1>1, <2>1
  <2> QED BY <1>1, <2>2, Zenon DEF Contains
<1> QED BY <1>1, Zenon DEF SendCommand, Queued

\* The steps of the main thread that send a command.
LEMMA PageSteps ==
    ASSUME OInv, \/ ReceiveResponse \/ Seek \/ Destroy
                 \/ \E cmd \in {"play", "pause"} : PlayOrPause(cmd)
    PROVE  OInv'
<1>1. PICK c \in Commands : SendCommand(c) /\ \/ ReceiveResponse /\ c = "load"
                                              \/ Seek /\ c = "seek"
                                              \/ Destroy /\ c = "stop"
                                              \/ c \in {"play", "pause"} /\ PlayOrPause(c)
  BY Zenon DEF ReceiveResponse, Seek, Destroy, PlayOrPause, Commands
<1>2. /\ \/ commands' = Append(commands, c)
         \/ commands' = commands /\ c = "seek" /\ Contains(commands, "seek")
      /\ player' = player \/ (player = "asleep" /\ player' = "command")
  BY <1>1, CommandSent, Zenon
<1>3. /\ main = "ready" /\ opened' = opened
      /\ main' = (IF c = "stop" THEN "stopping" ELSE "ready")
      /\ wanted' = (IF c = "stop" THEN "any" ELSE IF c \in {"play", "pause"} THEN c ELSE wanted)
      /\ network' = (IF c = "load" THEN "waiting" ELSE network)
      /\ c = "load" => network = "none"
      /\ c # "stop" => ctxRunning' = ctxRunning /\ started' = started
      /\ c = "stop" => started' = FALSE
  BY <1>1, Zenon DEF ReceiveResponse, Seek, Destroy, PlayOrPause, Ready, flags, mainVars
<1>4. /\ commands' \in Seq(Commands)
      /\ \A x : Contains(commands', x) <=> Contains(commands, x) \/ x = c
      /\ c # "play" /\ PausesIn(commands) => PausesIn(commands')
      /\ c = "pause" => PausesIn(commands')
      /\ c # "pause" /\ PlayFollows(commands) => PlayFollows(commands')
      /\ c = "play" => PlayFollows(commands')
      /\ LoadedOnce(commands) /\ (c = "load" => ~Contains(commands, "load")) => LoadedOnce(commands')
  <2>1. CASE commands' = Append(commands, c)
    <3>1. commands \in Seq(Commands) BY Zenon DEF OInv
    <3> QED BY <2>1, <3>1, CommandAdded, Zenon
  <2>2. CASE commands' = commands /\ c = "seek" /\ Contains(commands, "seek")
    BY <2>2, Zenon DEF OInv
  <2> QED BY <1>2, <2>1, <2>2, Zenon
<1>5. StopIsLast' BY <1>2, <1>3, <1>4 DEF OInv, StopIsLast
<1>6. OpenedOnce' BY <1>2, <1>3, <1>4 DEF OInv, OpenedOnce
<1>7. PauseHeeded' BY <1>2, <1>3, <1>4, Zenon DEF OInv, PauseHeeded
<1>8. PlayHeeded' BY <1>2, <1>3, <1>4 DEF OInv, PlayHeeded
<1>9. wanted' \in {"play", "pause", "any"} BY <1>3, Zenon DEF OInv
<1> QED BY <1>4, <1>5, <1>6, <1>7, <1>8, <1>9, Zenon DEF OInv

\* The player thread takes a command: a pause ends playing, a play leads to
\* demux(), and a seek keeps what was.
LEMMA TakeStep ==
    ASSUME OInv, TakeCommand
    PROVE  OInv'
<1>1. PICK h : h = Head(commands) BY Zenon
<1>2. /\ commands # <<>> /\ commands' = Tail(commands)
      /\ player = "command"
      /\ player' = (CASE h = "load" /\ ~opened -> "opening"
                      [] h = "seek" -> "seek"
                      [] h = "play" /\ opened -> "demux"
                      [] OTHER -> "loop")
      /\ ctxRunning' = (ctxRunning /\ h # "stop")
      /\ started' = ((started /\ h # "pause") \/ (h = "play" /\ opened))
      /\ UNCHANGED <<main, network, opened, wanted>>
  BY <1>1, Zenon DEF TakeCommand, Player, mainVars
<1>3. /\ commands' \in Seq(Commands) /\ h \in Commands
      /\ \A x : Contains(commands, x) <=> Contains(commands', x) \/ x = h
      /\ PausesIn(commands) => PausesIn(commands') \/ (h = "pause" /\ ~Contains(commands', "play"))
      /\ PlayFollows(commands) => PlayFollows(commands')
      /\ LoadedOnce(commands) =>
             LoadedOnce(commands') /\ (h = "load" => ~Contains(commands', "load"))
  BY <1>1, <1>2, CommandTaken, Zenon DEF OInv
<1>4. /\ player' = "opening" <=> h = "load" /\ ~opened
      /\ player' = "seek" <=> h = "seek"
      /\ player' = "demux" <=> h = "play" /\ opened
      /\ player' \notin {"bye", "new"}
  BY <1>2, Zenon
<1>5. /\ started' => (started /\ h # "pause") \/ (h = "play" /\ opened)
      /\ ctxRunning /\ h # "stop" => ctxRunning'
  BY <1>2, Zenon
<1>6. StopIsLast' BY <1>2, <1>3, <1>4, <1>5, Zenon DEF OInv, StopIsLast
<1>7. OpenedOnce' BY <1>2, <1>3, <1>4, <1>5, Zenon DEF OInv, OpenedOnce
<1>8. PauseHeeded' BY <1>2, <1>3, <1>4, <1>5, Zenon DEF OInv, PauseHeeded
<1>9. PlayHeeded'
  <2>1. wanted' = "play" => PlayFollows(commands') BY <1>2, <1>3, Zenon DEF OInv, PlayHeeded
  <2>2. ASSUME wanted' = "play", opened', started', player' \notin {"demux", "seek"}
        PROVE  Contains(commands', "play") \/ Contains(commands', "seek")
    <3>1. wanted = "play" /\ opened /\ started /\ h # "play" /\ h # "seek" /\ h # "pause"
      BY <1>2, <1>4, <1>5, <2>2, Zenon
    <3>2. player = "command" BY <1>2, Zenon
    <3> QED BY <1>3, <3>1, <3>2, Zenon DEF OInv, PlayHeeded
  <2> QED BY <2>1, <2>2, Zenon DEF PlayHeeded
<1> QED BY <1>2, <1>3, <1>6, <1>7, <1>8, <1>9, Zenon DEF OInv

\* open() comes before the first play.
LEMMA OpenStep ==
    ASSUME OInv, Open
    PROVE  OInv'
<1>1. /\ player = "opening" /\ player' = "loop" /\ commands' = commands
      /\ UNCHANGED <<main, ctxRunning, started, wanted>> /\ network' \in {network, "waiting"}
  BY Zenon DEF Open, Player
<1>2. ~started BY <1>1, Zenon DEF OInv, OpenedOnce
<1>3. network # "none" BY <1>1, Zenon DEF OInv, OpenedOnce
<1>4. StopIsLast' BY <1>1, Zenon DEF OInv, StopIsLast
<1>5. OpenedOnce' BY <1>1, <1>2, <1>3, Zenon DEF OInv, OpenedOnce
<1>6. PauseHeeded' BY <1>1, Zenon DEF OInv, PauseHeeded
<1>7. PlayHeeded' BY <1>1, <1>2, Zenon DEF OInv, PlayHeeded
<1> QED BY <1>1, <1>4, <1>5, <1>6, <1>7, Zenon DEF OInv

\* A seek of a player that plays makes it go on.
LEMMA SeekStep ==
    ASSUME OInv, SeekStreams
    PROVE  OInv'
<1>1. /\ player = "seek" /\ player' = "loop" /\ opened
      /\ commands' = (IF ctxRunning /\ started THEN Queued("play") ELSE commands)
      /\ wanted' = (IF ctxRunning /\ started /\ Contains(commands, "pause") THEN "any" ELSE wanted)
      /\ UNCHANGED <<main, network, ctxRunning, started, opened>>
  BY Zenon DEF SeekStreams, Player, mainVars
<1>2. Queued("play") = Append(commands, "play") BY Zenon DEF Queued
<1>3. CASE ~(ctxRunning /\ started)
  <2>1. ~(wanted = "play" /\ started)
    BY <1>1, <1>3, Zenon DEF OInv, StopIsLast
  <2> QED BY <1>1, <1>3, <2>1, NoCommand, Zenon DEF OInv, StopIsLast, OpenedOnce
<1>4. CASE ctxRunning /\ started
  <2>1. commands' = Append(commands, "play") BY <1>1, <1>2, <1>4, Zenon
  <2>2. "play" \in Commands BY Zenon DEF Commands
  <2>3. /\ commands' \in Seq(Commands)
        /\ \A x : Contains(commands', x) <=> Contains(commands, x) \/ x = "play"
        /\ PlayFollows(commands')
        /\ LoadedOnce(commands) => LoadedOnce(commands')
    BY <2>1, <2>2, CommandAdded, Zenon DEF OInv
  <2>4. wanted' # "pause"
    <3>1. SUFFICES ASSUME wanted = "pause" PROVE Contains(commands, "pause")
      BY <1>1, <1>4, Zenon
    <3>2. PausesIn(commands) BY <1>4, <3>1, Zenon DEF OInv, PauseHeeded
    <3> QED BY <3>2, Zenon DEF PausesIn, Contains
  <2>5. wanted' \in {wanted, "any"} BY <1>1, Zenon
  <2>6. StopIsLast' BY <1>1, <2>3, <2>5, Zenon DEF OInv, StopIsLast
  <2>7. OpenedOnce' BY <1>1, <2>3, Zenon DEF OInv, OpenedOnce
  <2>8. PauseHeeded' BY <2>4, Zenon DEF PauseHeeded
  <2>9. PlayHeeded' BY <2>3, Zenon DEF PlayHeeded
  <2> QED BY <2>3, <2>5, <2>6, <2>7, <2>8, <2>9, Zenon DEF OInv
<1> QED BY <1>3, <1>4, Zenon

\* A playing player leaves the loop of PLAY for a command, or at the end.
LEMMA DemuxStep ==
    ASSUME OInv, Demux \/ Drain
    PROVE  OInv'
<1>1. /\ player = "demux" /\ player' \in {"demux", "loop"}
      /\ UNCHANGED <<main, commands, ctxRunning, opened, wanted>> /\ network' \in {network, "waiting"}
  BY Zenon DEF Demux, Drain, Player, AfterDemux, mainVars, flags
<1>2. /\ started' => started
      /\ started' /\ ctxRunning /\ player' = "loop" => commands # <<>>
  <2>1. CASE Demux BY <2>1, Zenon DEF Demux, Player, AfterDemux, flags
  <2>2. CASE Drain
    <3>1. CASE \A s \in Streams : queue[s] = <<>>
      <4>1. started' = (started /\ ~ctxRunning) BY <2>2, <3>1, Zenon DEF Drain
      <4> QED BY <4>1, Zenon
    <3>2. CASE ~(\A s \in Streams : queue[s] = <<>>)
      BY <2>2, <3>2, Zenon DEF Drain, Player, AfterDemux
    <3> QED BY <3>1, <3>2, Zenon
  <2> QED BY <2>1, <2>2, Zenon
<1>3. wanted = "play" => ctxRunning BY <1>1, Zenon DEF OInv, StopIsLast
<1>4. started => opened BY <1>1, Zenon DEF OInv, OpenedOnce
<1>5. wanted = "play" /\ started' /\ player' = "loop" =>
          Contains(commands, "play") \/ Contains(commands, "seek")
  BY <1>2, <1>3, <1>4, PlayIsNext, Zenon
<1>6. main = "ready" => ctxRunning' BY <1>1, Zenon DEF OInv, StopIsLast
<1> QED BY <1>1, <1>2, <1>4, <1>5, <1>6, NoCommand, Zenon

\* The other steps of the player thread.
LEMMA OtherPlayerSteps ==
    ASSUME OInv, \/ Hello \/ Loop \/ Sleep \/ SeekNotNeeded \/ Close
                 \/ \E s, from, at, next :
                       /\ from \in {"joinVideo", "joinAudio"}
                       /\ at \in {"videoJoin", "audioJoin"}
                       /\ next \in {"joinAudio", "close"}
                       /\ StopDecoder(s, from, at, next) \/ DecoderEnded(s, at, next)
    PROVE  OInv'
<1>1. CASE Hello
  BY <1>1, NoCommand, Zenon DEF Hello, Player, mainVars, OInv, OpenedOnce
<1>2. CASE Loop
  BY <1>2, NoCommand, Zenon DEF Loop, Player, mainVars, flags, OInv, OpenedOnce, StopIsLast
<1>3. CASE Sleep
  BY <1>3, NoCommand, Zenon DEF Sleep, Player, mainVars, flags, OInv, OpenedOnce, StopIsLast
<1>4. CASE SeekNotNeeded
  BY <1>4, NoCommand, Zenon DEF SeekNotNeeded, Player, mainVars, OInv, OpenedOnce, StopIsLast
<1>5. CASE Close
  BY <1>5, NoCommand, Zenon DEF Close, Player, mainVars, OInv, StopIsLast
<1>6. ASSUME NEW s, NEW from, NEW at, NEW next,
             from \in {"joinVideo", "joinAudio"}, at \in {"videoJoin", "audioJoin"},
             next \in {"joinAudio", "close"},
             StopDecoder(s, from, at, next) \/ DecoderEnded(s, at, next)
      PROVE  OInv'
  <2>1. /\ UNCHANGED <<mainVars, commands, flags, wanted>>
        /\ player \in {"joinVideo", "joinAudio", "videoJoin", "audioJoin"}
        /\ player' \in {"videoJoin", "audioJoin", "joinAudio", "close"}
    BY <1>6, Zenon DEF StopDecoder, DecoderEnded, Player
  <2> QED BY <2>1, NoCommand, Zenon DEF mainVars, flags, OInv, OpenedOnce, StopIsLast
<1> QED BY <1>1, <1>2, <1>3, <1>4, <1>5, <1>6

\* Every step keeps it.
LEMMA NextOInv == OInv /\ [MediaNext]_mediaVars => OInv'
<1> SUFFICES ASSUME OInv, [MediaNext]_mediaVars PROVE OInv'
  OBVIOUS
<1>1. CASE MediaMainStep
  <2>1. CASE ReceiveData \/ Paint \/ Destroyed
    BY <2>1, NoCommand DEF ReceiveData, Paint, Destroyed, flags, OInv, OpenedOnce, StopIsLast
  <2> QED BY <1>1, <2>1, PageSteps, Zenon DEF MediaMainStep
<1>2. CASE PlayerStep
  <2>1. CASE \/ StopDecoder(Video, "joinVideo", "videoJoin", "joinAudio")
             \/ DecoderEnded(Video, "videoJoin", "joinAudio")
             \/ StopDecoder(Audio, "joinAudio", "audioJoin", "close")
             \/ DecoderEnded(Audio, "audioJoin", "close")
    BY <2>1, OtherPlayerSteps
  <2> QED
    BY <1>2, <2>1, OtherPlayerSteps, TakeStep, OpenStep, SeekStep, DemuxStep, Zenon DEF PlayerStep
<1>3. ASSUME NEW s \in Streams, DecoderStep(s) PROVE OInv'
  <2>1. UNCHANGED <<main, network, commands, flags, player, wanted>>
    BY <1>3, Zenon DEF DecoderStep, DecoderLoop, Take, WakeUp, Decode, KeepId, mainVars
  <2> QED BY <2>1, NoCommand, Zenon DEF flags, OInv, OpenedOnce, StopIsLast
<1>4. CASE UNCHANGED mediaVars
  BY <1>4, NoCommand, Zenon DEF mediaVars, mainVars, flags, OInv, OpenedOnce, StopIsLast
<1> QED BY <1>1, <1>2, <1>3, <1>4, Zenon DEF MediaNext

\* The player, once it has obeyed all commands, does what the page asked for
\* last, whatever commands were sent while it was opening, seeking or demuxing:
\* it does not sleep when it should play, and not play when it should pause.
THEOREM PageIsObeyed == MediaSpec => []ObeysThePage
<1>1. MediaInit => OInv
  <2> SUFFICES ASSUME MediaInit PROVE OInv
    OBVIOUS
  <2>1. commands = <<>> /\ commands \in Seq(Commands) BY DEF MediaInit
  <2>2. \A x : ~Contains(commands, x) BY <2>1 DEF Contains
  <2>3. LoadedOnce(commands) BY <2>1 DEF LoadedOnce
  <2> QED BY <2>1, <2>2, <2>3
      , Zenon DEF MediaInit, OInv, StopIsLast, OpenedOnce, PauseHeeded, PlayHeeded
<1>2. OInv => ObeysThePage
  <2> SUFFICES ASSUME OInv, commands = <<>>, opened, started
               PROVE  /\ player = "asleep" => wanted = "any"
                      /\ player = "demux" => wanted # "pause"
    BY Zenon DEF ObeysThePage
  <2>1. \A x : ~Contains(commands, x) BY DEF Contains
  <2>2. ~PausesIn(commands) BY DEF PausesIn
  <2> QED BY <2>1, <2>2, Zenon DEF OInv, PauseHeeded, PlayHeeded
<1> QED BY <1>1, <1>2, NextOInv, PTL DEF MediaSpec

-----------------------------------------------------------------------------
(* The main loop.                                                          *)
\* Where main_loop() and what follows it are, with nothing called.
Bottom == {"wait", "input", "dispose", "disposed"}
Resting == Bottom \cup {"exit", "deleting", "gone"}

\* Where OWBApp_WebKitEvents is.
Events == {"dispatch", "function", "fire", "firing", "fired", "endFiring"}
Inside == Events \cup {"check", "method", "own"}

\* The stack is that of the C code: main_loop() is at its bottom,
\* OWBApp_WebKitEvents returns to a methodstack_check(), and the main task
\* pushes at most one method of its own at a time.
StackOK ==
    /\ pc \in Resting \cup Inside
    /\ stack \in Seq(Bottom \cup Inside)
    /\ pc \in Resting <=> stack = <<>>
    /\ \A i \in 1 .. Len(stack) : stack[i] \in Bottom <=> i = Len(stack)
    /\ pc \in Events => stack[1] = "check"
    /\ \A i \in 1 .. Len(stack) : stack[i] \in Events => stack[i + 1] = "check"
    /\ \A i, k \in 1 .. Len(stack) : stack[i] = "own" /\ stack[k] = "own" => i = k
    /\ pc = "own" => \A i \in 1 .. Len(stack) : stack[i] # "own"
    /\ \A i \in 1 .. Len(stack) : stack[i] = "method" =>
          IF i = 1 THEN pc = "own" ELSE stack[i - 1] = "own"

InStack(label) == \E i \in 1 .. Len(stack) : stack[i] = label

\* Somebody will come back for the functions in the queue.
JobSeen ==
    /\ mstask # Main => pc \in {"exit", "deleting", "gone"}
    /\ mstask = Main /\ invocationQueue # <<>> /\ ~callbacksPaused =>
          \/ "CTRL_E" \in signals
          \/ \E w \in Workers : workerPC[w] = "schedule"
          \/ pc \in {"dispatch", "function"}
          \/ InStack("function")

Method == [task : Workers, sync : BOOLEAN, id : Nat]
Frame == [method : Method, not_empty : BOOLEAN]

QueueTypes ==
    /\ invocationQueue \in Seq(Nat)
    /\ g_functionid \in Nat
    /\ workerPC \in [Workers -> {"idle", "schedule", "signal", "waitPort"}]
    /\ methodlist \in Seq(Method)
    /\ current \in Seq(Frame)
    /\ pushes \in Nat
    /\ mark \in Nat

\* All methods that wait were pushed after the main task's own one.
NewerThanMark == \A i \in 1 .. Len(methodlist) : mark < methodlist[i].id

\* The ids of the methods that run and wait are in the order of the pushes.
IdsInOrder ==
    /\ \A i \in 1 .. Len(methodlist) : 0 < methodlist[i].id /\ methodlist[i].id <= pushes
    /\ \A i, k \in 1 .. Len(methodlist) : i < k => methodlist[i].id < methodlist[k].id
    /\ \A c \in 1 .. Len(current) : current[c].method.id <= pushes
    /\ \A c \in 1 .. Len(current), i \in 1 .. Len(methodlist) :
          current[c].method.id < methodlist[i].id

\* A method runs, or is interrupted by one pushed by the main task, or both.
CurrentCounted ==
    Len(current) = (IF pc = "method" THEN 1 ELSE 0) + (IF InStack("method") THEN 1 ELSE 0)

\* When the main task's own method runs, now or after the one that runs.
OwnIsNewer ==
    /\ pc = "own" => NewerThanMark
    /\ pc = "method" /\ stack[1] = "own" /\ ~current[1].not_empty => NewerThanMark

MethodsOK == mark <= pushes /\ IdsInOrder /\ CurrentCounted /\ OwnIsNewer

IInv == StackOK /\ QueueTypes /\ JobSeen /\ MethodsOK

-----------------------------------------------------------------------------
(* The stack.                                                              *)

\* A call returns to where it was made.
LEMMA Returned ==
    ASSUME StackOK, pc \in Inside, Return
    PROVE  /\ StackOK'
           /\ Len(stack) \in Nat /\ Len(stack) >= 1
           /\ pc' = stack[1]
           /\ \A l : InStack(l) => pc' = l \/ InStack(l)'
           /\ \A l : InStack(l)' => InStack(l)
           /\ pc' = "method" => pc = "own" /\ ~InStack("method")'
<1>1. stack # <<>> /\ stack \in Seq(Bottom \cup Inside)
  BY Zenon DEF StackOK, Resting, Bottom, Inside, Events
<1>2. /\ Len(stack) \in Nat /\ Len(stack) >= 1
      /\ pc' = stack[1] /\ stack' \in Seq(Bottom \cup Inside)
      /\ Len(stack') = Len(stack) - 1
      /\ \A i \in 1 .. Len(stack') : stack'[i] = stack[i + 1]
      /\ stack[1] \in Bottom \cup Inside
  BY <1>1 DEF Return
<1>3. \A l : InStack(l) => pc' = l \/ InStack(l)'
  <2> SUFFICES ASSUME NEW l, NEW i \in 1 .. Len(stack), stack[i] = l, i # 1
               PROVE  InStack(l)'
    BY <1>2, Zenon DEF InStack
  <2>1. i - 1 \in 1 .. Len(stack') /\ stack'[i - 1] = l BY <1>2
  <2> QED BY <2>1, Zenon DEF InStack
<1>4. \A l : InStack(l)' => InStack(l)
  <2> SUFFICES ASSUME NEW l, NEW i \in 1 .. Len(stack'), stack'[i] = l PROVE InStack(l)
    BY Zenon DEF InStack
  <2>1. i + 1 \in 1 .. Len(stack) /\ stack[i + 1] = l BY <1>2
  <2> QED BY <2>1, Zenon DEF InStack
<1>5. \A i \in 1 .. Len(stack') : stack'[i] \in Bottom <=> i = Len(stack')
  BY <1>2 DEF StackOK
<1>6. \A i \in 1 .. Len(stack') : stack'[i] \in Events => stack'[i + 1] = "check"
  <2> SUFFICES ASSUME NEW i \in 1 .. Len(stack'), stack'[i] \in Events
               PROVE  stack'[i + 1] = "check"
    BY Zenon
  <2>1. i + 1 \in 1 .. Len(stack) /\ stack[i + 1] \in Events BY <1>2
  <2>2. stack[i + 2] = "check" BY <2>1 DEF StackOK
  <2>3. i # Len(stack') BY <1>5, Zenon DEF Bottom, Events
  <2>4. i + 1 \in 1 .. Len(stack') BY <1>2, <2>3
  <2> QED BY <1>2, <2>2, <2>4
<1>7. \A i, k \in 1 .. Len(stack') : stack'[i] = "own" /\ stack'[k] = "own" => i = k
  <2> SUFFICES ASSUME NEW i \in 1 .. Len(stack'), NEW k \in 1 .. Len(stack'),
                      stack'[i] = "own", stack'[k] = "own"
               PROVE  i = k
    BY Zenon
  <2>1. /\ i + 1 \in 1 .. Len(stack) /\ stack[i + 1] = "own"
        /\ k + 1 \in 1 .. Len(stack) /\ stack[k + 1] = "own"
    BY <1>2
  <2>2. i + 1 = k + 1 BY <2>1, Zenon DEF StackOK
  <2> QED BY <2>2
<1>8. pc' = "own" => \A i \in 1 .. Len(stack') : stack'[i] # "own"
  <2> SUFFICES ASSUME stack[1] = "own", NEW i \in 1 .. Len(stack'), stack'[i] = "own"
               PROVE  FALSE
    BY <1>2, Zenon
  <2>1. /\ i + 1 \in 1 .. Len(stack) /\ stack[i + 1] = "own"
        /\ 1 \in 1 .. Len(stack)
    BY <1>2
  <2>2. i + 1 = 1 BY <2>1, Zenon DEF StackOK
  <2> QED BY <2>2
<1>9. \A i \in 1 .. Len(stack') : stack'[i] = "method" =>
          IF i = 1 THEN pc' = "own" ELSE stack'[i - 1] = "own"
  <2> SUFFICES ASSUME NEW i \in 1 .. Len(stack'), stack'[i] = "method"
               PROVE  IF i = 1 THEN pc' = "own" ELSE stack'[i - 1] = "own"
    BY Zenon
  <2>1. i + 1 \in 1 .. Len(stack) /\ stack[i + 1] = "method" /\ i + 1 # 1 BY <1>2
  <2>2. stack[i] = "own" BY <2>1 DEF StackOK
  <2>3. CASE i = 1 BY <1>2, <2>2, <2>3, Zenon
  <2>4. CASE i # 1 BY <1>2, <2>2, <2>4
  <2> QED BY <2>3, <2>4, Zenon
<1>10. pc' \in Events => stack'[1] = "check"
  <2> SUFFICES ASSUME stack[1] \in Events PROVE stack'[1] = "check"
    BY <1>2, Zenon
  <2>1. stack[2] = "check" BY <1>2 DEF StackOK
  <2>2. 1 # Len(stack) BY <1>2 DEF StackOK, Bottom, Events
  <2> QED BY <1>2, <2>1, <2>2
<1>11. pc' \in Resting <=> stack' = <<>>
  <2>1. pc' \in Bottom <=> Len(stack) = 1 BY <1>2 DEF StackOK
  <2>2. pc' \in Resting <=> pc' \in Bottom BY <1>2, Zenon DEF Resting, Inside, Events, Bottom
  <2> QED BY <1>2, <2>1, <2>2
<1>12. StackOK'
  BY <1>2, <1>5, <1>6, <1>7, <1>8, <1>9, <1>10, <1>11, Zenon DEF StackOK, Resting
<1>13. pc' = "method" => pc = "own" /\ ~InStack("method")'
  <2> SUFFICES ASSUME stack[1] = "method" PROVE pc = "own" /\ ~InStack("method")'
    BY <1>2, Zenon
  <2>1. pc = "own" BY <1>2 DEF StackOK
  <2>2. \A i \in 1 .. Len(stack') : stack'[i] # "method"
    <3> SUFFICES ASSUME NEW i \in 1 .. Len(stack'), stack'[i] = "method" PROVE FALSE
      BY Zenon
    <3>1. i + 1 \in 1 .. Len(stack) /\ stack[i + 1] = "method" /\ i + 1 # 1
          /\ i \in 1 .. Len(stack)
      BY <1>2
    <3>2. stack[i] = "own" BY <3>1 DEF StackOK
    <3> QED BY <2>1, <3>1, <3>2, Zenon DEF StackOK
  <2> QED BY <2>1, <2>2, Zenon DEF InStack
<1> QED BY <1>2, <1>3, <1>4, <1>12, <1>13, Zenon

\* Inside a call the main task goes on to another point of the same call.
LEMMA WentOn ==
    ASSUME StackOK, pc \in Inside, pc # "own",
           NEW label \in Inside, label # "own", Goto(label),
           label \in Events => stack[1] = "check"
    PROVE  StackOK'
<1>1. label \notin Resting /\ pc \notin Resting
  BY Zenon DEF Resting, Bottom, Inside, Events
<1>2. \A i \in 1 .. Len(stack) : stack[i] = "method" =>
          IF i = 1 THEN pc' = "own" ELSE stack[i - 1] = "own"
  BY Zenon DEF StackOK
<1> QED BY <1>1, <1>2, Zenon DEF StackOK, Goto

\* A call from main_loop() itself.
LEMMA CalledFromLoop ==
    ASSUME StackOK, pc \in Bottom, NEW b \in Bottom, NEW label,
           \/ label \in {"check"} /\ Call(label, <<b>>)
           \/ label \in {"check", "dispatch", "fire"} /\ Call(label, <<"check", b>>)
    PROVE  /\ StackOK'
           /\ pc' = label /\ label \in Inside
           /\ stack = <<>>
           /\ stack' = <<b>> \/ stack' = <<"check", b>>
           /\ \A l : ~InStack(l)
           /\ ~InStack("method")'
<1>1. stack = <<>> /\ pc' = label BY Zenon DEF StackOK, Resting, Call
<1>2. \A l : ~InStack(l) BY <1>1 DEF InStack
<1>3. CASE label = "check" /\ Call(label, <<b>>)
  <2>1. stack' = <<b>> BY <1>1, <1>3 DEF Call
  <2>2. stack' \in Seq(Bottom \cup Inside) /\ Len(stack') = 1 /\ stack'[1] = b BY <2>1
  <2>3. \A i \in 1 .. Len(stack') : i = 1 /\ stack'[i] = b BY <2>2
  <2>4. b \notin Events /\ b # "own" /\ b # "method" BY Zenon DEF Bottom, Events
  <2>5. StackOK'
    BY <1>1, <1>3, <2>1, <2>2, <2>3, <2>4 DEF StackOK, Resting, Bottom, Inside, Events
  <2> QED BY <1>1, <1>2, <1>3, <2>1, <2>3, <2>4, <2>5, Zenon DEF InStack, Inside
<1>4. CASE label \in {"check", "dispatch", "fire"} /\ Call(label, <<"check", b>>)
  <2>1. stack' = <<"check", b>> BY <1>1, <1>4 DEF Call
  <2>2. /\ stack' \in Seq(Bottom \cup Inside) /\ Len(stack') = 2
        /\ stack'[1] = "check" /\ stack'[2] = b
    BY <2>1 DEF Inside
  <2>3. \A i \in 1 .. Len(stack') : (i = 1 /\ stack'[i] = "check") \/ (i = 2 /\ stack'[i] = b)
    BY <2>2
  <2>4. b \notin Events /\ b # "own" /\ b # "method" BY DEF Bottom, Events
  <2>5. /\ "check" \notin Bottom /\ "check" \notin Events
        /\ label \in Inside /\ label \notin Resting /\ stack' # <<>>
    BY <1>4, <2>2 DEF Bottom, Events, Inside, Resting
  <2>6. \A i \in 1 .. Len(stack') : stack'[i] # "own" /\ stack'[i] # "method"
          /\ stack'[i] \notin Events
    BY <2>3, <2>4, <2>5, Zenon
  <2>7. \A i \in 1 .. Len(stack') : stack'[i] \in Bottom <=> i = Len(stack')
    BY <2>2, <2>3, <2>5, Zenon
  <2>8. StackOK'
    BY <1>1, <2>2, <2>5, <2>6, <2>7, Zenon DEF StackOK
  <2> QED BY <1>1, <1>2, <2>1, <2>5, <2>6, <2>8, Zenon DEF InStack
<1> QED BY <1>3, <1>4, Zenon

\* The main task pushes a method of its own, from wherever it is.
LEMMA CalledByClient ==
    ASSUME StackOK, pc \in ClientPoints, pc # "own", "own" \notin Range(stack),
           Call("check", <<"own", pc>>)
    PROVE  /\ StackOK'
           /\ pc' = "check"
           /\ InStack("method")' <=> pc = "method" \/ InStack("method")
           /\ \A l : pc = l \/ InStack(l) => InStack(l)'
           /\ Len(stack) \in Nat /\ Len(stack') = Len(stack) + 2
           /\ stack'[1] = "own" /\ stack'[2] = pc
           /\ \A i \in 3 .. Len(stack') : stack'[i] = stack[i - 2]
<1>1. /\ stack \in Seq(Bottom \cup Inside) /\ Len(stack) \in Nat
      /\ pc \in Bottom \cup Inside
  BY DEF StackOK, ClientPoints, Resting, Bottom, Inside, Events
<1>2. /\ stack' \in Seq(Bottom \cup Inside) /\ Len(stack') = Len(stack) + 2
      /\ stack'[1] = "own" /\ stack'[2] = pc
      /\ \A i \in 1 .. Len(stack) : stack'[i + 2] = stack[i]
      /\ \A i \in 3 .. Len(stack') : stack'[i] = stack[i - 2]
      /\ pc' = "check"
  <2>1. <<"own", pc>> \in Seq(Bottom \cup Inside) /\ Len(<<"own", pc>>) = 2
    BY <1>1 DEF Inside
  <2>2. stack' = <<"own", pc>> \o stack /\ pc' = "check" BY Zenon DEF Call
  <2>3. /\ stack' \in Seq(Bottom \cup Inside)
        /\ Len(stack') = 2 + Len(stack)
        /\ \A i \in 1 .. Len(stack') :
              stack'[i] = IF i <= 2 THEN <<"own", pc>>[i] ELSE stack[i - 2]
    BY <1>1, <2>1, <2>2
  <2>4. stack'[1] = "own" /\ stack'[2] = pc BY <1>1, <2>3
  <2>5. \A i \in 3 .. Len(stack') : stack'[i] = stack[i - 2] BY <1>1, <2>3
  <2>6. \A i \in 1 .. Len(stack) : stack'[i + 2] = stack[i] BY <1>1, <2>3
  <2> QED BY <1>1, <2>2, <2>3, <2>4, <2>5, <2>6
<1>3. \A i \in 1 .. Len(stack) : stack[i] # "own" BY <1>1 DEF Range
<1>4. \A i \in 1 .. Len(stack) : stack[i] # "method" BY <1>3 DEF StackOK
<1>5. \A i \in 1 .. Len(stack') : stack'[i] = "own" <=> i = 1
  <2> SUFFICES ASSUME NEW i \in 1 .. Len(stack') PROVE stack'[i] = "own" <=> i = 1
    BY Zenon
  <2>1. CASE i >= 3
    <3>1. i - 2 \in 1 .. Len(stack) /\ stack'[i] = stack[i - 2] BY <1>1, <1>2, <2>1
    <3> QED BY <1>3, <2>1, <3>1
  <2> QED BY <1>2, <2>1
<1>6. \A i \in 1 .. Len(stack') : stack'[i] = "method" <=> i = 2 /\ pc = "method"
  <2> SUFFICES ASSUME NEW i \in 1 .. Len(stack')
               PROVE  stack'[i] = "method" <=> i = 2 /\ pc = "method"
    BY Zenon
  <2>1. CASE i >= 3
    <3>1. i - 2 \in 1 .. Len(stack) /\ stack'[i] = stack[i - 2] BY <1>1, <1>2, <2>1
    <3> QED BY <1>4, <2>1, <3>1
  <2>2. CASE i = 1 BY <1>2, <2>2, Zenon
  <2>3. CASE i = 2 BY <1>2, <2>3, Zenon
  <2> QED BY <1>1, <1>2, <2>1, <2>2, <2>3
<1>7. pc \in Bottom <=> Len(stack) = 0
  BY <1>1 DEF StackOK, ClientPoints, Resting, Bottom, Inside, Events
<1>8. \A i \in 1 .. Len(stack') : stack'[i] \in Bottom <=> i = Len(stack')
  <2> SUFFICES ASSUME NEW i \in 1 .. Len(stack')
               PROVE  stack'[i] \in Bottom <=> i = Len(stack')
    BY Zenon
  <2>1. CASE i >= 3
    <3>1. i - 2 \in 1 .. Len(stack) /\ stack'[i] = stack[i - 2] BY <1>1, <1>2, <2>1
    <3>2. stack[i - 2] \in Bottom <=> i - 2 = Len(stack) BY <3>1, Zenon DEF StackOK
    <3> QED BY <1>1, <1>2, <2>1, <3>1, <3>2
  <2>2. CASE i = 1 BY <1>1, <1>2, <2>2 DEF Bottom
  <2>3. CASE i = 2 BY <1>1, <1>2, <1>7, <2>3
  <2> QED BY <1>1, <1>2, <2>1, <2>2, <2>3
<1>9. \A i \in 1 .. Len(stack') : stack'[i] \in Events => stack'[i + 1] = "check"
  <2> SUFFICES ASSUME NEW i \in 1 .. Len(stack'), stack'[i] \in Events
               PROVE  stack'[i + 1] = "check"
    BY Zenon
  <2>1. CASE i >= 3
    <3>1. i - 2 \in 1 .. Len(stack) /\ stack'[i] = stack[i - 2] BY <1>1, <1>2, <2>1
    <3>2. stack[(i - 2) + 1] = "check" BY <3>1, Zenon DEF StackOK
    <3>3. i # Len(stack') BY <1>8, Zenon DEF Bottom, Events
    <3>4. i + 1 \in 3 .. Len(stack') /\ (i + 1) - 2 = (i - 2) + 1 BY <1>1, <1>2, <2>1, <3>3
    <3> QED BY <1>2, <3>2, <3>4, Zenon
  <2>2. CASE i = 1 BY <1>2, <2>2, Zenon DEF Events
  <2>3. CASE i = 2
    <3>1. pc \in Events /\ stack[1] = "check" BY <1>2, <2>3, Zenon DEF StackOK
    <3>2. Len(stack) # 0 BY <1>7, <3>1, Zenon DEF Bottom, Events
    <3> QED BY <1>1, <1>2, <2>3, <3>1, <3>2
  <2> QED BY <1>1, <1>2, <2>1, <2>2, <2>3
<1>10. \A i \in 1 .. Len(stack') : stack'[i] = "method" =>
          IF i = 1 THEN pc' = "own" ELSE stack'[i - 1] = "own"
  BY <1>2, <1>6
<1>11. StackOK'
  <2>1. stack' # <<>> BY <1>1, <1>2
  <2>2. pc' \notin Resting /\ pc' \notin Events /\ pc' \in Inside /\ pc' # "own"
    BY <1>2, Zenon DEF Resting, Bottom, Inside, Events
  <2> QED BY <1>2, <1>5, <1>8, <1>9, <1>10, <2>1, <2>2, Zenon DEF StackOK
<1>12. InStack("method")' <=> pc = "method"
  BY <1>1, <1>2, <1>6 DEF InStack
<1>13. \A l : pc = l \/ InStack(l) => InStack(l)'
  <2> SUFFICES ASSUME NEW l, pc = l \/ InStack(l) PROVE InStack(l)'
    BY Zenon
  <2>1. CASE pc = l
    <3>1. 2 \in 1 .. Len(stack') BY <1>1, <1>2
    <3> QED BY <1>2, <2>1, <3>1, Zenon DEF InStack
  <2>2. CASE InStack(l)
    <3>1. PICK i \in 1 .. Len(stack) : stack[i] = l BY <2>2, Zenon DEF InStack
    <3>2. i + 2 \in 1 .. Len(stack') /\ stack'[i + 2] = l BY <1>1, <1>2, <3>1
    <3> QED BY <3>2, Zenon DEF InStack
  <2> QED BY <2>1, <2>2, Zenon
<1> QED BY <1>2, <1>4, <1>11, <1>12, <1>13 DEF InStack

-----------------------------------------------------------------------------
(* Steps that disturb only a part of the invariant.                        *)

InFunction == pc \in {"dispatch", "function"} \/ InStack("function")

\* A step that adds no function to an empty queue, takes no signal and leaves
\* no loop of functions keeps JobSeen.
LEMMA JobKept ==
    ASSUME JobSeen, UNCHANGED mstask,
           mstask # Main => pc' \in {"exit", "deleting", "gone"},
           invocationQueue' # <<>> => invocationQueue # <<>>,
           ~callbacksPaused' => ~callbacksPaused,
           "CTRL_E" \in signals => "CTRL_E" \in signals',
           \A w \in Workers : workerPC[w] = "schedule" => workerPC'[w] = "schedule",
           InFunction => InFunction'
    PROVE  JobSeen'
BY Zenon DEF JobSeen, InFunction

\* A step that leaves the methods alone, and goes neither to a method nor away
\* from one nor to the main task's own one.
LEMMA MethodsKept ==
    ASSUME MethodsOK, UNCHANGED <<methodlist, pushes, current, mark>>,
           pc' # "method", pc # "method", pc' # "own",
           InStack("method") <=> InStack("method")'
    PROVE  MethodsOK'
BY Zenon DEF MethodsOK, IdsInOrder, CurrentCounted, OwnIsNewer

\* A step that leaves the main task where it is.
LEMMA LoopKept ==
    ASSUME UNCHANGED <<pc, stack>>
    PROVE  /\ StackOK => StackOK'
           /\ InFunction => InFunction'
           /\ InStack("method") <=> InStack("method")'
BY DEF StackOK, InFunction, InStack

\* A step that leaves the main task where it is, and the methods as well.
LEMMA MethodsStay ==
    ASSUME MethodsOK, UNCHANGED <<pc, stack, methodlist, pushes, current, mark>>
    PROVE  MethodsOK'
BY Zenon DEF MethodsOK, IdsInOrder, CurrentCounted, OwnIsNewer, NewerThanMark, InStack

-----------------------------------------------------------------------------
(* Initially.                                                              *)
\* main_loop() starts with nothing called and nothing queued.
LEMMA Initially == Init => IInv
<1> SUFFICES ASSUME Init PROVE IInv
  OBVIOUS
<1> USE DEF Init, QueueInit, StackInit
<1>1. StackOK BY DEF StackOK, Resting, Bottom, Inside, Events
<1>2. QueueTypes BY DEF QueueTypes
<1>3. JobSeen BY Zenon DEF JobSeen
<1>4. MethodsOK BY DEF MethodsOK, IdsInOrder, CurrentCounted, OwnIsNewer, InStack, NewerThanMark
<1> QED BY <1>1, <1>2, <1>3, <1>4, Zenon DEF IInv

-----------------------------------------------------------------------------
(* main_loop().                                                            *)
\* NewInput() is followed by methodstack_check().
LEMMA InputKeeps ==
    ASSUME IInv, NEW b \in BOOLEAN, NewInput(b) \/ NewInputQuit
    PROVE  IInv'
<1>0. StackOK /\ QueueTypes /\ JobSeen /\ MethodsOK BY Zenon DEF IInv
<1>1. /\ pc = "input"
      /\ UNCHANGED <<signals, mstask, invocationQueue, g_functionid, callbacksPaused,
                     methodlist, pushes, current, mark, workerPC>>
      /\ \/ Call("check", <<"wait">>)
         \/ Call("check", <<"check", "input">>)
         \/ Call("check", <<"check", "dispose">>)
  BY Zenon DEF NewInput, NewInputQuit, KeepTask, KeepQueue, KeepStack, KeepLoop, queueVars, stackVars
<1>2. /\ StackOK' /\ pc' = "check"
      /\ \A l : ~InStack(l)
      /\ ~InStack("method")'
  BY <1>0, <1>1, CalledFromLoop, Zenon DEF Bottom
<1>3. QueueTypes' BY <1>0, <1>1, Zenon DEF QueueTypes
<1>4. ~InFunction /\ mstask = Main BY <1>0, <1>1, <1>2, Zenon DEF InFunction, JobSeen
<1>5. JobSeen' BY <1>0, <1>1, <1>4, JobKept, Zenon
<1>6. MethodsOK' BY <1>0, <1>1, <1>2, MethodsKept, Zenon
<1> QED BY <1>2, <1>3, <1>5, <1>6, Zenon DEF IInv

\* Wait() takes SIGBREAKF_CTRL_E only to go and look at the queue.
LEMMA WaitKeeps ==
    ASSUME IInv, Wait
    PROVE  IInv'
<1>0. StackOK /\ QueueTypes /\ JobSeen /\ MethodsOK BY Zenon DEF IInv
<1>1. /\ pc = "wait"
      /\ UNCHANGED <<mstask, invocationQueue, g_functionid, callbacksPaused,
                     methodlist, pushes, current, mark, workerPC>>
  BY Zenon DEF Wait, KeepQueue, KeepStack, queueVars, stackVars
<1>2. PICK next \in {"input", "dispose"} :
         \/ "CTRL_E" \in signals /\ Call(WebKitEvents, <<"check", next>>)
         \/ "CTRL_E" \notin signals /\ Call("check", <<next>>)
  BY Zenon DEF Wait, WaitMask
<1>3. PICK label \in {"check", "dispatch", "fire"} :
         \/ label = "check" /\ Call(label, <<next>>)
         \/ Call(label, <<"check", next>>)
  BY <1>2, Zenon DEF WebKitEvents
<1>4. /\ StackOK' /\ pc' = label
      /\ \A l : ~InStack(l)
      /\ ~InStack("method")'
  BY <1>0, <1>1, <1>3, CalledFromLoop, Zenon DEF Bottom
<1>5. QueueTypes' BY <1>0, <1>1, Zenon DEF QueueTypes
<1>6. ~InFunction /\ mstask = Main BY <1>0, <1>1, <1>4, Zenon DEF InFunction, JobSeen
<1>7. JobSeen'
  <2>1. CASE "CTRL_E" \in signals
    <3>1. callbacksPaused \/ pc' = "dispatch" BY <1>2, <2>1, Zenon DEF Call, WebKitEvents
    <3> QED BY <1>1, <1>6, <3>1, Zenon DEF JobSeen
  <2>2. CASE "CTRL_E" \notin signals BY <1>0, <1>1, <1>6, <2>2, JobKept, Zenon
  <2> QED BY <2>1, <2>2, Zenon
<1>8. MethodsOK' BY <1>0, <1>1, <1>4, MethodsKept, Zenon
<1> QED BY <1>4, <1>5, <1>7, <1>8, Zenon DEF IInv

-----------------------------------------------------------------------------
(* methodstack_check().                                                    *)
\* With nothing in the list methodstack_check() just returns.
LEMMA CheckEmptyKeeps ==
    ASSUME IInv, CheckEmpty
    PROVE  IInv'
<1>0. StackOK /\ QueueTypes /\ JobSeen /\ MethodsOK BY DEF IInv
<1>1. /\ pc = "check" /\ methodlist = <<>> /\ Return
      /\ UNCHANGED <<signals, mstask, invocationQueue, g_functionid, callbacksPaused,
                     methodlist, pushes, current, mark, workerPC>>
  BY Zenon DEF CheckEmpty, KeepTask, KeepQueue, KeepStack, KeepLoop, queueVars, stackVars
<1>2. /\ StackOK'
      /\ \A l : InStack(l) => pc' = l \/ InStack(l)'
      /\ \A l : InStack(l)' => InStack(l)
      /\ pc' # "method"
  BY <1>0, <1>1, Returned, Zenon DEF Inside
<1>3. QueueTypes' BY <1>0, <1>1, Zenon DEF QueueTypes
<1>4. InFunction => InFunction' BY <1>1, <1>2, Zenon DEF InFunction
<1>5. JobSeen' BY <1>0, <1>1, <1>4, JobKept, Zenon DEF JobSeen
<1>6. InStack("method") <=> InStack("method")' BY <1>2, Zenon
<1>7. NewerThanMark' BY <1>1 DEF NewerThanMark
<1>8. MethodsOK'
  <2>1. mark' <= pushes' /\ IdsInOrder' BY <1>0, <1>1, Zenon DEF MethodsOK, IdsInOrder
  <2>2. CurrentCounted' BY <1>0, <1>1, <1>2, <1>6, Zenon DEF MethodsOK, CurrentCounted
  <2>3. OwnIsNewer' BY <1>2, <1>7, Zenon DEF OwnIsNewer
  <2> QED BY <2>1, <2>2, <2>3, Zenon DEF MethodsOK
<1> QED BY <1>2, <1>3, <1>5, <1>8, Zenon DEF IInv

\* The method that is taken was pushed before those that are left.
LEMMA CheckMethodKeeps ==
    ASSUME IInv, CheckMethod
    PROVE  IInv'
<1>0. StackOK /\ QueueTypes /\ JobSeen /\ MethodsOK BY DEF IInv
<1>1. /\ pc = "check" /\ Goto("method")
      /\ UNCHANGED <<signals, mstask, invocationQueue, g_functionid, callbacksPaused,
                     pushes, mark, workerPC>>
      /\ methodlist # <<>>
      /\ methodlist' = Tail(methodlist)
      /\ current' = <<[method |-> Head(methodlist), not_empty |-> Tail(methodlist) # <<>>]>>
                        \o current
  BY Zenon DEF CheckMethod, RemHead, KeepTask, KeepQueue, KeepLoop, queueVars
<1>2. StackOK' BY <1>0, <1>1, WentOn, Zenon DEF Inside, Events
<1>3. /\ methodlist \in Seq(Method) /\ current \in Seq(Frame)
      /\ Len(methodlist) \in Nat /\ Len(methodlist) >= 1 /\ Len(current) \in Nat
  BY <1>0, <1>1 DEF QueueTypes
<1>4. /\ methodlist' \in Seq(Method) /\ Len(methodlist') = Len(methodlist) - 1
      /\ \A i \in 1 .. Len(methodlist') :
            i + 1 \in 1 .. Len(methodlist) /\ methodlist'[i] = methodlist[i + 1]
  BY <1>1, <1>3
<1>5. PICK frame \in Frame :
         /\ frame.method = methodlist[1]
         /\ ~frame.not_empty => methodlist' = <<>>
         /\ current' = <<frame>> \o current
  <2> DEFINE taken == [method |-> Head(methodlist), not_empty |-> Tail(methodlist) # <<>>]
  <2>1. methodlist[1] \in Method /\ Head(methodlist) = methodlist[1] BY <1>3
  <2>2. taken \in Frame BY <2>1, Zenon DEF Frame
  <2>3. taken.method = methodlist[1] BY <2>1, Zenon
  <2>4. ~taken.not_empty => methodlist' = <<>> BY <1>1, Zenon
  <2>5. current' = <<taken>> \o current BY <1>1, Zenon
  <2> HIDE DEF taken
  <2> QED BY <2>2, <2>3, <2>4, <2>5, Zenon
<1>6. /\ current' \in Seq(Frame) /\ Len(current') = Len(current) + 1
      /\ current'[1] = frame
      /\ \A c \in 1 .. Len(current') : c # 1 =>
            c - 1 \in 1 .. Len(current) /\ current'[c] = current[c - 1]
  <2>1. current \in Seq(Frame) /\ current' = <<frame>> \o current BY <1>3, <1>5, Zenon
  <2> DEFINE pushed == <<frame>> \o current
  <2>2. /\ pushed \in Seq(Frame) /\ Len(pushed) = Len(current) + 1 /\ pushed[1] = frame
        /\ \A c \in 1 .. Len(pushed) : c # 1 =>
              c - 1 \in 1 .. Len(current) /\ pushed[c] = current[c - 1]
    BY <2>1, PushedElements
  <2>3. current' = pushed BY <2>1, Zenon
  <2> HIDE DEF pushed
  <2> QED BY <2>2, <2>3, Zenon
<1>7. QueueTypes' BY <1>0, <1>1, <1>4, <1>6, Zenon DEF QueueTypes
<1>8. InFunction => InFunction' BY <1>1, Zenon DEF InFunction, Goto, InStack
<1>9. JobSeen' BY <1>0, <1>1, <1>8, JobKept DEF JobSeen
<1>10. MethodsOK'
  <2>1. /\ \A i \in 1 .. Len(methodlist) :
              methodlist[i].id \in Nat /\ 0 < methodlist[i].id /\ methodlist[i].id <= pushes
        /\ \A i, k \in 1 .. Len(methodlist) : i < k => methodlist[i].id < methodlist[k].id
        /\ \A c \in 1 .. Len(current) : current[c].method.id <= pushes
        /\ \A c \in 1 .. Len(current), i \in 1 .. Len(methodlist) :
              current[c].method.id < methodlist[i].id
        /\ mark <= pushes
        /\ Len(current) = IF InStack("method") THEN 1 ELSE 0
    <3>1. \A i \in 1 .. Len(methodlist) : methodlist[i].id \in Nat
      <4>1. \A i \in 1 .. Len(methodlist) : methodlist[i] \in Method BY <1>3
      <4>2. \A m \in Method : m.id \in Nat BY Zenon DEF Method
      <4> QED BY <4>1, <4>2, Zenon
    <3> QED BY <1>0, <1>1, <3>1 DEF MethodsOK, IdsInOrder, CurrentCounted
  <2>2. \A i \in 1 .. Len(methodlist') : 0 < methodlist'[i].id /\ methodlist'[i].id <= pushes
    BY <1>4, <2>1, Zenon
  <2>3. \A i, k \in 1 .. Len(methodlist') : i < k => methodlist'[i].id < methodlist'[k].id
    <3> SUFFICES ASSUME NEW i \in 1 .. Len(methodlist'), NEW k \in 1 .. Len(methodlist'), i < k
                 PROVE  methodlist'[i].id < methodlist'[k].id
      BY Zenon
    <3>1. i + 1 < k + 1 BY <1>4
    <3> QED BY <1>4, <2>1, <3>1, Zenon
  <2>4. \A c \in 1 .. Len(current') : current'[c].method.id <= pushes
    <3> SUFFICES ASSUME NEW c \in 1 .. Len(current') PROVE current'[c].method.id <= pushes
      BY Zenon
    <3>1. CASE c = 1 BY <1>3, <1>5, <1>6, <2>1, <3>1
    <3>2. CASE c # 1 BY <1>6, <2>1, <3>2, Zenon
    <3> QED BY <3>1, <3>2, Zenon
  <2>5. \A c \in 1 .. Len(current'), i \in 1 .. Len(methodlist') :
           current'[c].method.id < methodlist'[i].id
    <3> SUFFICES ASSUME NEW c \in 1 .. Len(current'), NEW i \in 1 .. Len(methodlist')
                 PROVE  current'[c].method.id < methodlist'[i].id
      BY Zenon
    <3>1. CASE c = 1
      <4>1. 1 \in 1 .. Len(methodlist) /\ 1 < i + 1 BY <1>3
      <4> QED BY <1>4, <1>5, <1>6, <2>1, <3>1, <4>1, Zenon
    <3>2. CASE c # 1 BY <1>4, <1>6, <2>1, <3>2, Zenon
    <3> QED BY <3>1, <3>2, Zenon
  <2>6. pc' = "method" /\ (InStack("method") <=> InStack("method")')
    BY <1>1, Zenon DEF Goto, InStack
  <2>7. Len(current') = 1 + (IF InStack("method")' THEN 1 ELSE 0)
    BY <1>3, <1>6, <2>1, <2>6
  <2>8. ~current'[1].not_empty => NewerThanMark' BY <1>5, <1>6 DEF NewerThanMark
  <2>9. mark' <= pushes' /\ pushes' = pushes BY <1>1, <2>1, Zenon
  <2>10. IdsInOrder' BY <2>2, <2>3, <2>4, <2>5, <2>9, Zenon DEF IdsInOrder
  <2>11. CurrentCounted' BY <2>6, <2>7, Zenon DEF CurrentCounted
  <2>12. OwnIsNewer' BY <2>6, <2>8, Zenon DEF OwnIsNewer
  <2> QED BY <2>9, <2>10, <2>11, <2>12, Zenon DEF MethodsOK
<1> QED BY <1>2, <1>7, <1>9, <1>10, Zenon DEF IInv

\* If the list was empty when the method was taken then all that wait now were
\* pushed since, after the main task's own one.
LEMMA MethodReturnsKeeps ==
    ASSUME IInv, MethodReturns
    PROVE  IInv'
<1>0. StackOK /\ QueueTypes /\ JobSeen /\ MethodsOK BY DEF IInv
<1>1. /\ pc = "method"
      /\ UNCHANGED <<signals, mstask, invocationQueue, g_functionid, callbacksPaused,
                     methodlist, pushes, mark, workerPC>>
      /\ current' = Tail(current)
      /\ IF Head(current).not_empty THEN Goto("check") ELSE Return
  BY Zenon DEF MethodReturns, ReplyMsg, KeepTask, KeepQueue, KeepLoop, queueVars
<1>2. current \in Seq(Frame) /\ Len(current) \in Nat /\ Len(current) >= 1
  BY <1>0, <1>1 DEF QueueTypes, MethodsOK, CurrentCounted
<1>3. /\ current' \in Seq(Frame) /\ Len(current') = Len(current) - 1
      /\ \A c \in 1 .. Len(current') :
            c + 1 \in 1 .. Len(current) /\ current'[c] = current[c + 1]
      /\ Head(current) = current[1]
  BY <1>1, <1>2
<1>4. /\ StackOK'
      /\ InFunction => InFunction'
      /\ InStack("method") <=> InStack("method")'
      /\ pc' # "method"
      /\ pc' = "own" => stack[1] = "own" /\ ~current[1].not_empty
  <2>1. CASE Goto("check")
    <3>1. StackOK' BY <1>0, <1>1, <2>1, WentOn, Zenon DEF Inside, Events
    <3> QED BY <1>1, <2>1, <3>1, Zenon DEF Goto, InFunction, InStack
  <2>2. CASE Return /\ ~current[1].not_empty
    <3>1. /\ StackOK' /\ pc' = stack[1]
          /\ \A l : InStack(l) => pc' = l \/ InStack(l)'
          /\ \A l : InStack(l)' => InStack(l)
          /\ pc' # "method"
      BY <1>0, <1>1, <2>2, Returned, Zenon DEF Inside
    <3> QED BY <1>1, <2>2, <3>1, Zenon DEF InFunction
  <2> QED BY <1>1, <1>3, <2>1, <2>2, Zenon
<1>5. QueueTypes' BY <1>0, <1>1, <1>3, Zenon DEF QueueTypes
<1>6. JobSeen' BY <1>0, <1>1, <1>4, JobKept, Zenon DEF JobSeen
<1>7. NewerThanMark <=> NewerThanMark' BY <1>1, Zenon DEF NewerThanMark
<1>8. MethodsOK'
  <2>1. Len(current') = IF InStack("method")' THEN 1 ELSE 0
    <3>1. Len(current) = 1 + (IF InStack("method") THEN 1 ELSE 0)
      BY <1>0, <1>1, Zenon DEF MethodsOK, CurrentCounted
    <3> QED BY <1>3, <1>4, <3>1
  <2>2. pc' = "own" => NewerThanMark' BY <1>0, <1>1, <1>4, <1>7, Zenon DEF MethodsOK, OwnIsNewer
  <2>3. /\ \A c \in 1 .. Len(current') : current'[c].method.id <= pushes'
        /\ \A c \in 1 .. Len(current'), i \in 1 .. Len(methodlist') :
              current'[c].method.id < methodlist'[i].id
    BY <1>0, <1>1, <1>3, Zenon DEF MethodsOK, IdsInOrder
  <2>4. mark' <= pushes' /\ IdsInOrder' BY <1>0, <1>1, <2>3, Zenon DEF MethodsOK, IdsInOrder
  <2>5. CurrentCounted' BY <1>4, <2>1 DEF CurrentCounted
  <2>6. OwnIsNewer' BY <1>4, <2>2, Zenon DEF OwnIsNewer
  <2> QED BY <2>4, <2>5, <2>6 DEF MethodsOK
<1> QED BY <1>4, <1>5, <1>6, <1>8, Zenon DEF IInv

\* The own method returns, perhaps to the method that pushed it.
LEMMA OwnMethodReturnsKeeps ==
    ASSUME IInv, OwnMethodReturns
    PROVE  IInv'
<1>0. StackOK /\ QueueTypes /\ JobSeen /\ MethodsOK BY DEF IInv
<1>1. /\ pc = "own" /\ Return /\ mark' = 0
      /\ UNCHANGED <<signals, mstask, invocationQueue, g_functionid, callbacksPaused,
                     methodlist, pushes, current, workerPC>>
  BY Zenon DEF OwnMethodReturns, KeepTask, KeepQueue, KeepStack, queueVars, stackVars
<1>2. /\ StackOK'
      /\ \A l : InStack(l) => pc' = l \/ InStack(l)'
      /\ \A l : InStack(l)' => InStack(l)
      /\ pc' = stack[1] /\ Len(stack) \in Nat /\ Len(stack) >= 1
      /\ pc' = "method" => ~InStack("method")'
  BY <1>0, <1>1, Returned, Zenon DEF Inside
<1>3. QueueTypes' BY <1>0, <1>1, Zenon DEF QueueTypes
<1>4. InFunction => InFunction' BY <1>1, <1>2, Zenon DEF InFunction
<1>5. JobSeen' BY <1>0, <1>1, <1>4, JobKept, Zenon DEF JobSeen
<1>6. Len(current') = (IF pc' = "method" THEN 1 ELSE 0) + (IF InStack("method")' THEN 1 ELSE 0)
  <2>1. Len(current') = IF InStack("method") THEN 1 ELSE 0
    BY <1>0, <1>1 DEF MethodsOK, CurrentCounted
  <2>2. CASE pc' = "method"
    <3>1. 1 \in 1 .. Len(stack) /\ stack[1] = "method" BY <1>2, <2>2
    <3>2. InStack("method") BY <3>1, Zenon DEF InStack
    <3> QED BY <1>2, <2>1, <2>2, <3>2
  <2>3. CASE pc' # "method" BY <1>2, <2>1, <2>3
  <2> QED BY <2>2, <2>3, Zenon
<1>7. NewerThanMark' BY <1>0, <1>1, Zenon DEF NewerThanMark, MethodsOK, IdsInOrder
<1>8. mark' <= pushes' BY <1>0, <1>1 DEF QueueTypes
<1>9. IdsInOrder' BY <1>0, <1>1, Zenon DEF MethodsOK, IdsInOrder
<1>10. MethodsOK' BY <1>6, <1>7, <1>8, <1>9, Zenon DEF MethodsOK, CurrentCounted, OwnIsNewer
<1> QED BY <1>2, <1>3, <1>5, <1>10, Zenon DEF IInv

-----------------------------------------------------------------------------
(* OWBApp_WebKitEvents.                                                    *)

\* What holds inside it: it was not called by a method directly.
LEMMA EventsReturn ==
    ASSUME StackOK, pc \in Events, Return
    PROVE  /\ StackOK' /\ pc' = "check"
           /\ \A l : InStack(l) => pc' = l \/ InStack(l)'
           /\ \A l : InStack(l)' => InStack(l)
BY Returned, Zenon DEF StackOK, Inside

\* The queue is left when it is empty, or with a signal for the rest of it.
LEMMA DispatchKeeps ==
    ASSUME IInv, NEW b \in BOOLEAN,
           DispatchEmpty \/ DispatchFunction \/ FunctionReturns(b)
    PROVE  IInv'
<1>0. StackOK /\ QueueTypes /\ JobSeen /\ MethodsOK BY Zenon DEF IInv
<1>1. /\ UNCHANGED <<mstask, methodlist, pushes, current, mark, workerPC,
                     g_functionid, callbacksPaused>>
      /\ pc \in {"dispatch", "function"}
      /\ \/ /\ invocationQueue = <<>> /\ UNCHANGED invocationQueue /\ Goto("fire")
         \/ /\ invocationQueue # <<>> /\ invocationQueue' = Tail(invocationQueue)
            /\ Goto("function")
         \/ /\ UNCHANGED invocationQueue /\ Goto("dispatch")
         \/ /\ UNCHANGED invocationQueue /\ Goto("fire") /\ WakeTimer
  BY Zenon DEF DispatchEmpty, DispatchFunction, FunctionReturns, TakeFirst, KeepTask, KeepQueue,
         KeepStack, KeepLoop, queueVars, stackVars, ScheduleDispatchFunctionsOnMainThread
<1>2. PICK label \in {"fire", "function", "dispatch"} : Goto(label) BY <1>1, Zenon
<1>3. mstask = Main BY <1>0, <1>1, Zenon DEF JobSeen
<1>4. StackOK'
  <2>1. pc \in Events /\ stack[1] = "check" BY <1>0, <1>1, Zenon DEF StackOK, Events
  <2> QED BY <1>0, <1>1, <1>2, <2>1, WentOn, Zenon DEF Inside, Events
<1>5. QueueTypes'
  <2>1. invocationQueue \in Seq(Nat) BY <1>0, Zenon DEF QueueTypes
  <2>2. invocationQueue # <<>> => Tail(invocationQueue) \in Seq(Nat) BY <2>1
  <2>3. invocationQueue' \in Seq(Nat) BY <1>1, <2>1, <2>2, Zenon
  <2> QED BY <1>0, <1>1, <2>3, Zenon DEF QueueTypes
<1>6. JobSeen'
  <2>1. CASE invocationQueue' = <<>> BY <1>1, <1>3, <2>1, Zenon DEF JobSeen
  <2>2. CASE pc' \in {"function", "dispatch"} BY <1>1, <1>3, <2>2, Zenon DEF JobSeen
  <2>3. CASE WakeTimer
    <3>1. "CTRL_E" \in signals' BY <1>3, <2>3, Zenon DEF WakeTimer, SignalMstask, SignalMain
    <3> QED BY <1>1, <1>3, <3>1, Zenon DEF JobSeen
  <2> QED BY <1>1, <2>1, <2>2, <2>3, Zenon DEF Goto
<1>7. MethodsOK'
  <2>1. pc' \notin {"method", "own"} /\ (InStack("method") <=> InStack("method")')
    BY <1>2, Zenon DEF Goto, InStack
  <2> QED BY <1>0, <1>1, <2>1, MethodsKept, Zenon
<1> QED BY <1>4, <1>5, <1>6, <1>7, Zenon DEF IInv

\* fireTimerIfNeeded() touches neither the functions nor the methods.
LEMMA FiringKeeps ==
    ASSUME IInv, NEW b \in BOOLEAN,
           SharedTimerFired \/ FireTimer \/ FiredReturns(b) \/ SharedTimerDone
    PROVE  IInv'
<1>0. StackOK /\ QueueTypes /\ JobSeen /\ MethodsOK BY Zenon DEF IInv
<1>1. /\ UNCHANGED <<signals, mstask, methodlist, pushes, current, mark, workerPC,
                     invocationQueue, g_functionid, callbacksPaused>>
      /\ pc \in {"fire", "firing", "fired", "endFiring"}
      /\ \/ Return
         \/ \E label \in {"firing", "fired", "endFiring"} : Goto(label)
  BY Zenon DEF SharedTimerFired, FireTimer, FiredReturns, SharedTimerDone, KeepTask, KeepQueue,
         KeepStack, KeepLoop, queueVars, stackVars
<1>2. pc \in Events /\ stack[1] = "check" BY <1>0, <1>1, Zenon DEF StackOK, Events
<1>3. /\ StackOK' /\ pc' \notin {"method", "own"}
      /\ InStack("method") <=> InStack("method")'
      /\ InFunction => InFunction'
  <2>1. CASE Return
    <3>1. /\ StackOK' /\ pc' = "check"
          /\ \A l : InStack(l) => pc' = l \/ InStack(l)'
          /\ \A l : InStack(l)' => InStack(l)
      BY <1>0, <1>2, <2>1, EventsReturn, Zenon
    <3>2. InStack("method") => InStack("method")' BY <3>1, Zenon
    <3>3. InStack("function") => InStack("function")' BY <3>1, Zenon
    <3> QED BY <1>1, <3>1, <3>2, <3>3, Zenon DEF InFunction
  <2>2. CASE \E label \in {"firing", "fired", "endFiring"} : Goto(label)
    <3>1. PICK label \in {"firing", "fired", "endFiring"} : Goto(label) BY <2>2, Zenon
    <3>2. StackOK' BY <1>0, <1>1, <1>2, <3>1, WentOn, Zenon DEF Inside, Events
    <3> QED BY <1>1, <3>1, <3>2, Zenon DEF Goto, InStack, InFunction
  <2> QED BY <1>1, <2>1, <2>2, Zenon
<1>4. QueueTypes' BY <1>0, <1>1, Zenon DEF QueueTypes
<1>5. JobSeen' BY <1>0, <1>1, <1>3, JobKept, Zenon DEF JobSeen
<1>6. MethodsOK' BY <1>0, <1>1, <1>3, MethodsKept, Zenon
<1> QED BY <1>3, <1>4, <1>5, <1>6, Zenon DEF IInv

-----------------------------------------------------------------------------
(* After the loop.                                                         *)
\* destroy_application() and TimerDelete() end with mstask NULL.
LEMMA EndKeeps ==
    ASSUME IInv, DisposeObject \/ DestroyApplication \/ TimerDelete \/ TimerDeleted
    PROVE  IInv'
<1>0. StackOK /\ QueueTypes /\ JobSeen /\ MethodsOK BY Zenon DEF IInv
<1>1. /\ UNCHANGED <<pushes, current, mark, workerPC, invocationQueue, g_functionid,
                     callbacksPaused, stack>>
      /\ methodlist' = methodlist \/ methodlist' = <<>>
      /\ "CTRL_E" \in signals => "CTRL_E" \in signals'
      /\ \/ pc = "dispose" /\ pc' = "disposed" /\ UNCHANGED mstask
         \/ pc = "disposed" /\ pc' = "exit" /\ mstask' = None
         \/ pc = "exit" /\ pc' = "deleting" /\ UNCHANGED mstask
         \/ pc = "deleting" /\ pc' = "gone" /\ UNCHANGED mstask
  BY Zenon DEF DisposeObject, DestroyApplication, TimerDelete, TimerDeleted, Flush, Cleanup,
         KeepTask, KeepQueue, KeepStack, KeepLoop, queueVars, stackVars, Goto
<1>2. StackOK' BY <1>0, <1>1 DEF StackOK, Resting, Bottom, Inside, Events
<1>3. QueueTypes'
  <2>1. methodlist \in Seq(Method) /\ <<>> \in Seq(Method) BY <1>0 DEF QueueTypes
  <2>2. methodlist' \in Seq(Method) BY <1>1, <2>1, Zenon
  <2> QED BY <1>0, <1>1, <2>2, Zenon DEF QueueTypes
<1>5. pc \notin {"dispatch", "function"} BY <1>1, Zenon
<1>6. InStack("function") <=> InStack("function")' BY <1>1, Zenon DEF InStack
<1>7. JobSeen'
  <2>1. CASE mstask' # Main
    BY <1>0, <1>1, <2>1, Zenon DEF JobSeen
  <2>2. CASE mstask' = Main
    <3>1. mstask = Main BY <1>0, <1>1, <2>2, Zenon DEF JobSeen
    <3> QED BY <1>0, <1>1, <1>5, <1>6, <2>2, <3>1, Zenon DEF JobSeen
  <2> QED BY <1>1, <2>1, <2>2, Zenon
<1>8. MethodsOK'
  <2>1. InStack("method") <=> InStack("method")' BY <1>1, Zenon DEF InStack
  <2>2. CASE methodlist' = methodlist BY <1>0, <1>1, <2>1, <2>2, MethodsKept, Zenon
  <2>3. CASE methodlist' = <<>>
    <3>1. IdsInOrder' BY <1>0, <1>1, <2>3 DEF MethodsOK, IdsInOrder
    <3>2. NewerThanMark' BY <2>3 DEF NewerThanMark
    <3>3. CurrentCounted' BY <1>0, <1>1, <2>1, Zenon DEF MethodsOK, CurrentCounted
    <3> QED BY <1>0, <1>1, <3>1, <3>2, <3>3, Zenon DEF MethodsOK, OwnIsNewer
  <2> QED BY <1>1, <2>2, <2>3, Zenon
<1> QED BY <1>2, <1>3, <1>7, <1>8, Zenon DEF IInv

-----------------------------------------------------------------------------
(* The application in the main task.                                       *)

\* The timers are no part of the invariant.
LEMMA ClientTimerKeeps ==
    ASSUME IInv, NEW m, NEW time, NEW repeat,
           ClientStartTimer(m, time, repeat) \/ ClientStopTimer(m) \/ ClientNestedEventLoop
    PROVE  IInv'
<1>0. StackOK /\ QueueTypes /\ JobSeen /\ MethodsOK BY Zenon DEF IInv
<1>1. UNCHANGED <<signals, mstask, methodlist, pushes, current, mark, workerPC,
                  invocationQueue, g_functionid, callbacksPaused, pc, stack>>
  BY Zenon DEF ClientStartTimer, ClientStopTimer, ClientNestedEventLoop, Op, KeepTask, KeepQueue,
         KeepStack, queueVars, stackVars, Goto
<1>2. StackOK' /\ (InFunction => InFunction') BY <1>0, <1>1, LoopKept, Zenon
<1>3. QueueTypes' BY <1>0, <1>1, Zenon DEF QueueTypes
<1>4. JobSeen' BY <1>0, <1>1, <1>2, JobKept, Zenon DEF JobSeen
<1>5. MethodsOK' BY <1>0, <1>1, MethodsStay, Zenon
<1> QED BY <1>2, <1>3, <1>4, <1>5, Zenon DEF IInv

\* Taking a function from the queue leaves a queue.
LEMMA OneRemoved ==
    ASSUME NEW s \in Seq(Nat), NEW i \in DOMAIN s
    PROVE  Removed(s, i) \in Seq(Nat)
<1>1. Len(s) \in Nat /\ i \in 1 .. Len(s) OBVIOUS
<1> QED BY <1>1, RemovedElements, Zenon

\* Whoever puts a function in an empty queue, or ends a pause, signals.
LEMMA ClientQueueKeeps ==
    ASSUME IInv, NEW id,
           \/ ClientCallOnMainThread \/ ClientRemoveJob(id)
           \/ ClientPause \/ ClientUnpause
    PROVE  IInv'
<1>0. StackOK /\ QueueTypes /\ JobSeen /\ MethodsOK BY Zenon DEF IInv
<1>1. UNCHANGED <<mstask, methodlist, pushes, current, mark, workerPC, pc, stack>>
  BY Zenon DEF ClientCallOnMainThread, ClientRemoveJob, ClientPause, ClientUnpause, Op,
         KeepStack, KeepLoop, stackVars, Goto
<1>2. \/ /\ invocationQueue' = Append(invocationQueue, g_functionid')
         /\ g_functionid' = g_functionid + 1
         /\ callbacksPaused' = callbacksPaused
         /\ IF invocationQueue = <<>> THEN WakeTimer ELSE signals' = signals
      \/ /\ UNCHANGED <<g_functionid, callbacksPaused>>
         /\ \/ invocationQueue' = invocationQueue
            \/ /\ id \in Range(invocationQueue)
               /\ \E i \in DOMAIN invocationQueue :
                     invocationQueue' = Removed(invocationQueue, i)
         /\ WakeTimer \/ signals' = signals
      \/ /\ UNCHANGED <<g_functionid, invocationQueue>>
         /\ callbacksPaused' = TRUE /\ signals' = signals
      \/ /\ UNCHANGED <<g_functionid, invocationQueue>>
         /\ callbacksPaused' = FALSE /\ WakeTimer
  BY Zenon DEF ClientCallOnMainThread, ClientRemoveJob, ClientPause, ClientUnpause,
         AppendInvocation, NeedToSchedule, RemoveFromMainThreadByJobID,
         SetMainThreadCallbacksPaused, ScheduleDispatchFunctionsOnMainThread
<1>3. StackOK' /\ (InFunction => InFunction') BY <1>0, <1>1, LoopKept, Zenon
<1>4. invocationQueue' \in Seq(Nat) /\ g_functionid' \in Nat
  <2>1. invocationQueue \in Seq(Nat) /\ g_functionid \in Nat BY <1>0, Zenon DEF QueueTypes
  <2>2. Append(invocationQueue, g_functionid + 1) \in Seq(Nat) BY <2>1
  <2>3. \A i \in DOMAIN invocationQueue : Removed(invocationQueue, i) \in Seq(Nat)
    BY <2>1, OneRemoved, Zenon
  <2>4. invocationQueue' \in Seq(Nat) BY <1>2, <2>1, <2>2, <2>3, Zenon
  <2>5. g_functionid' = g_functionid \/ g_functionid' = g_functionid + 1 BY <1>2, Zenon
  <2> QED BY <2>1, <2>4, <2>5
<1>5. QueueTypes' BY <1>0, <1>1, <1>4, Zenon DEF QueueTypes
<1>6. WakeTimer /\ mstask = Main => "CTRL_E" \in signals'
  BY Zenon DEF WakeTimer, SignalMstask
<1>7. "CTRL_E" \in signals => "CTRL_E" \in signals'
  BY <1>2, Zenon DEF WakeTimer, SignalMstask
<1>8. mstask' # Main => pc' \in {"exit", "deleting", "gone"} BY <1>0, <1>1, Zenon DEF JobSeen
<1>9. JobSeen'
  <2>1. CASE WakeTimer /\ mstask = Main BY <1>1, <1>6, <2>1, Zenon DEF JobSeen
  <2>2. CASE mstask # Main BY <1>1, <1>8, <2>2, Zenon DEF JobSeen
  <2>3. CASE signals' = signals
    <3>1. CASE callbacksPaused' = TRUE BY <1>1, <1>8, <3>1, Zenon DEF JobSeen
    <3>2. CASE callbacksPaused' = callbacksPaused /\ (invocationQueue' # <<>> => invocationQueue # <<>>)
      BY <1>0, <1>1, <1>3, <1>7, <1>8, <3>2, JobKept, Zenon
    <3>3. CASE id \in Range(invocationQueue) /\ UNCHANGED callbacksPaused
      <4>1. invocationQueue # <<>> BY <3>3 DEF Range
      <4> QED BY <3>2, <3>3, <4>1, Zenon
    <3>4. CASE callbacksPaused' = FALSE /\ WakeTimer BY <2>1, <2>2, <3>4, Zenon
    <3>5. CASE invocationQueue = <<>> /\ WakeTimer BY <2>1, <2>2, <3>5, Zenon
    <3> QED BY <1>2, <2>3, <3>1, <3>2, <3>3, <3>4, <3>5, Zenon
  <2> QED BY <1>2, <2>1, <2>2, <2>3, Zenon
<1>10. MethodsOK' BY <1>0, <1>1, MethodsStay, Zenon
<1> QED BY <1>3, <1>5, <1>9, <1>10, Zenon DEF IInv

\* The main task pushes a method of its own: none that waits is newer than it,
\* and all of them come first.
LEMMA ClientPushKeeps ==
    ASSUME IInv, ClientPush
    PROVE  IInv'
<1>0. StackOK /\ QueueTypes /\ JobSeen /\ MethodsOK BY DEF IInv
<1>1. /\ UNCHANGED <<signals, mstask, methodlist, pushes, current, workerPC,
                     invocationQueue, g_functionid, callbacksPaused>>
      /\ pc \in ClientPoints /\ pc # "own" /\ "own" \notin Range(stack)
      /\ mark' = pushes
      /\ Call("check", <<"own", pc>>)
  BY Zenon DEF ClientPush, Op, KeepTask, KeepQueue, KeepStack, queueVars, stackVars
<1>2. /\ StackOK' /\ pc' = "check"
      /\ InStack("method")' <=> pc = "method" \/ InStack("method")
      /\ \A l : pc = l \/ InStack(l) => InStack(l)'
  BY <1>0, <1>1, CalledByClient, Zenon
<1>3. QueueTypes' BY <1>0, <1>1, Zenon DEF QueueTypes
<1>4. InFunction => InFunction'
  <2>1. pc # "dispatch" BY <1>1, Zenon DEF ClientPoints
  <2>2. pc = "function" \/ InStack("function") => InStack("function")' BY <1>2, Zenon
  <2> QED BY <2>1, <2>2, Zenon DEF InFunction
<1>5. mstask = Main BY <1>0, <1>1, Zenon DEF JobSeen, ClientPoints
<1>6. JobSeen' BY <1>0, <1>1, <1>4, <1>5, JobKept, Zenon
<1>7. ~(pc = "method" /\ InStack("method"))
  <2> SUFFICES ASSUME InStack("method") PROVE pc # "method"
    BY Zenon
  <2>1. PICK i \in 1 .. Len(stack) : stack[i] = "method" BY Zenon DEF InStack
  <2>2. IF i = 1 THEN pc = "own" ELSE stack[i - 1] = "own" BY <1>0, <2>1, Zenon DEF StackOK
  <2>3. CASE i # 1
    <3>1. stack \in Seq(Bottom \cup Inside) BY <1>0, Zenon DEF StackOK
    <3>2. i - 1 \in 1 .. Len(stack) /\ stack[i - 1] = "own" BY <2>2, <2>3, <3>1
    <3> QED BY <1>1, <3>1, <3>2 DEF Range
  <2> QED BY <1>1, <2>2, <2>3, Zenon
<1>8. Len(current') = IF InStack("method")' THEN 1 ELSE 0
  BY <1>0, <1>1, <1>2, <1>7 DEF MethodsOK, CurrentCounted
<1>9. mark' <= pushes' BY <1>0, <1>1 DEF QueueTypes
<1>10. MethodsOK'
  <2>1. IdsInOrder' BY <1>0, <1>1, Zenon DEF MethodsOK, IdsInOrder
  <2>2. CurrentCounted' BY <1>2, <1>8 DEF CurrentCounted
  <2>3. OwnIsNewer' BY <1>2, Zenon DEF OwnIsNewer
  <2> QED BY <1>9, <2>1, <2>2, <2>3, Zenon DEF MethodsOK
<1> QED BY <1>2, <1>3, <1>6, <1>10, Zenon DEF IInv

-----------------------------------------------------------------------------
(* The other tasks.                                                        *)

\* A thread that puts a function in an empty queue is about to signal.
LEMMA WorkerCallKeeps ==
    ASSUME IInv, NEW w \in Workers, WorkerCall(w)
    PROVE  IInv'
<1>0. StackOK /\ QueueTypes /\ JobSeen /\ MethodsOK BY Zenon DEF IInv
<1>1. /\ UNCHANGED <<signals, mstask, methodlist, pushes, current, mark, pc, stack,
                     callbacksPaused>>
      /\ invocationQueue' = Append(invocationQueue, g_functionid')
      /\ g_functionid' = g_functionid + 1
      /\ workerPC[w] = "idle"
      /\ workerPC' = [workerPC EXCEPT ![w] = IF invocationQueue = <<>> THEN "schedule" ELSE "idle"]
  BY Zenon DEF WorkerCall, AppendInvocation, WorkerGoto, NeedToSchedule, KeepTask, KeepStack, stackVars
<1>2. StackOK' /\ (InFunction => InFunction') BY <1>0, <1>1, LoopKept, Zenon
<1>3. QueueTypes'
  <2>1. invocationQueue \in Seq(Nat) /\ g_functionid \in Nat BY <1>0, Zenon DEF QueueTypes
  <2>2. invocationQueue' \in Seq(Nat) /\ g_functionid' \in Nat BY <1>1, <2>1
  <2>3. workerPC' \in [Workers -> {"idle", "schedule", "signal", "waitPort"}]
    BY <1>0, <1>1, Zenon DEF QueueTypes
  <2> QED BY <1>0, <1>1, <2>2, <2>3, Zenon DEF QueueTypes
<1>4. mstask' # Main => pc' \in {"exit", "deleting", "gone"} BY <1>0, <1>1, Zenon DEF JobSeen
<1>5. JobSeen'
  <2>1. CASE invocationQueue = <<>>
    <3>1. workerPC'[w] = "schedule" BY <1>0, <1>1, <2>1, Zenon DEF QueueTypes
    <3> QED BY <1>4, <3>1, Zenon DEF JobSeen
  <2>2. CASE invocationQueue # <<>>
    <3>1. \A v \in Workers : workerPC[v] = "schedule" => workerPC'[v] = "schedule"
      BY <1>0, <1>1, <2>2, Zenon DEF QueueTypes
    <3> QED BY <1>0, <1>1, <1>2, <1>4, <2>2, <3>1, JobKept, Zenon
  <2> QED BY <2>1, <2>2, Zenon
<1>6. MethodsOK' BY <1>0, <1>1, MethodsStay, Zenon
<1> QED BY <1>2, <1>3, <1>5, <1>6, Zenon DEF IInv

\* It signals, it or another one waits for the answer to a method.
LEMMA WorkerStepKeeps ==
    ASSUME IInv, NEW w \in Workers, WorkerStep(w)
    PROVE  IInv'
<1>0. StackOK /\ QueueTypes /\ JobSeen /\ MethodsOK BY DEF IInv
<1>1. /\ UNCHANGED <<mstask, methodlist, pushes, current, mark, pc, stack,
                     invocationQueue, g_functionid, callbacksPaused>>
      /\ \/ workerPC[w] = "schedule" /\ WakeTimer
         \/ workerPC[w] # "schedule" /\ SignalMstask({"CTRL_F"})
         \/ workerPC[w] # "schedule" /\ signals' = signals
      /\ \E label \in {"idle", "waitPort"} : workerPC' = [workerPC EXCEPT ![w] = label]
  BY Zenon DEF WorkerStep, WorkerSchedule, WorkerSignal, WorkerReply, WorkerGoto, GetReply,
         KeepTask, KeepQueue, KeepStack, queueVars, stackVars,
         ScheduleDispatchFunctionsOnMainThread
<1>2. StackOK' /\ (InFunction => InFunction') BY <1>0, <1>1, LoopKept, Zenon
<1>3. QueueTypes'
  <2>1. workerPC' \in [Workers -> {"idle", "schedule", "signal", "waitPort"}]
    BY <1>0, <1>1, Zenon DEF QueueTypes
  <2> QED BY <1>0, <1>1, <2>1, Zenon DEF QueueTypes
<1>4. mstask' # Main => pc' \in {"exit", "deleting", "gone"} BY <1>0, <1>1, Zenon DEF JobSeen
<1>5. JobSeen'
  <2>1. CASE workerPC[w] = "schedule" /\ WakeTimer
    <3>1. mstask = Main => "CTRL_E" \in signals' BY <2>1, Zenon DEF WakeTimer, SignalMstask
    <3> QED BY <1>1, <1>4, <3>1, Zenon DEF JobSeen
  <2>2. CASE workerPC[w] # "schedule" /\ (SignalMstask({"CTRL_F"}) \/ signals' = signals)
    <3>1. \A v \in Workers : workerPC[v] = "schedule" => workerPC'[v] = "schedule"
      BY <1>0, <1>1, <2>2, Zenon DEF QueueTypes
    <3>2. "CTRL_E" \in signals => "CTRL_E" \in signals' BY <2>2, Zenon DEF SignalMstask
    <3> QED BY <1>0, <1>1, <1>2, <1>4, <3>1, <3>2, JobKept, Zenon
  <2> QED BY <1>1, <2>1, <2>2, Zenon
<1>6. MethodsOK' BY <1>0, <1>1, MethodsStay, Zenon
<1> QED BY <1>2, <1>3, <1>5, <1>6 DEF IInv

\* A pushed method is newer than all others.
LEMMA WorkerPushKeeps ==
    ASSUME IInv, NEW w \in Workers, WorkerPush(w) \/ WorkerPushSync(w)
    PROVE  IInv'
<1>0. StackOK /\ QueueTypes /\ JobSeen /\ MethodsOK BY Zenon DEF IInv
<1>1. /\ UNCHANGED <<signals, mstask, current, mark, pc, stack,
                     invocationQueue, g_functionid, callbacksPaused>>
      /\ workerPC[w] = "idle"
      /\ \E label \in {"idle", "signal"} : workerPC' = [workerPC EXCEPT ![w] = label]
      /\ pushes' = pushes + 1
      /\ \E sync \in BOOLEAN :
            methodlist' = Append(methodlist, [task |-> w, sync |-> sync, id |-> pushes + 1])
  BY Zenon DEF WorkerPush, WorkerPushSync, AddTail, WorkerGoto, KeepTask, KeepQueue, queueVars
<1>2. StackOK' /\ (InFunction => InFunction') /\ (InStack("method") <=> InStack("method")')
  BY <1>0, <1>1, LoopKept, Zenon
<1>3. pushes \in Nat /\ mark \in Nat /\ methodlist \in Seq(Method) /\ Len(methodlist) \in Nat
  BY <1>0 DEF QueueTypes
<1>4. PICK sync \in BOOLEAN :
         methodlist' = Append(methodlist, [task |-> w, sync |-> sync, id |-> pushes + 1])
  BY <1>1, Zenon
<1>5. PICK new \in Method : new.id = pushes + 1 /\ methodlist' = Append(methodlist, new)
  <2> DEFINE m == [task |-> w, sync |-> sync, id |-> pushes + 1]
  <2>1. m \in Method /\ m.id = pushes + 1 BY <1>3 DEF Method
  <2>2. methodlist' = Append(methodlist, m) BY <1>4, Zenon
  <2> HIDE DEF m
  <2> QED BY <2>1, <2>2, Zenon
<1>6. /\ methodlist' \in Seq(Method) /\ Len(methodlist') = Len(methodlist) + 1
      /\ methodlist'[Len(methodlist) + 1] = new
      /\ \A i \in 1 .. Len(methodlist) : methodlist'[i] = methodlist[i]
  <2>1. methodlist \in Seq(Method) /\ methodlist' = Append(methodlist, new) BY <1>3, <1>5, Zenon
  <2> DEFINE longer == Append(methodlist, new)
  <2>2. /\ longer \in Seq(Method) /\ Len(longer) = Len(methodlist) + 1
        /\ longer[Len(methodlist) + 1] = new
        /\ \A i \in 1 .. Len(methodlist) : longer[i] = methodlist[i]
    BY <2>1, AppendElements
  <2>3. methodlist' = longer BY <2>1, Zenon
  <2> HIDE DEF longer
  <2> QED BY <2>2, <2>3, Zenon
<1>7. QueueTypes'
  <2>1. workerPC' \in [Workers -> {"idle", "schedule", "signal", "waitPort"}]
    BY <1>0, <1>1 DEF QueueTypes
  <2>2. pushes' \in Nat BY <1>1, <1>3
  <2> QED BY <1>0, <1>1, <1>6, <2>1, <2>2, Zenon DEF QueueTypes
<1>8. JobSeen'
  <2>1. \A v \in Workers : workerPC[v] = "schedule" => workerPC'[v] = "schedule"
    BY <1>0, <1>1, Zenon DEF QueueTypes
  <2>2. mstask # Main => pc' \in {"exit", "deleting", "gone"} BY <1>0, <1>1, Zenon DEF JobSeen
  <2> QED BY <1>0, <1>1, <1>2, <2>1, <2>2, JobKept, Zenon
<1>9. MethodsOK'
  <2>1. /\ \A i \in 1 .. Len(methodlist) :
              methodlist[i].id \in Nat /\ 0 < methodlist[i].id /\ methodlist[i].id <= pushes
        /\ \A i, k \in 1 .. Len(methodlist) : i < k => methodlist[i].id < methodlist[k].id
        /\ \A c \in 1 .. Len(current) :
              current[c].method.id \in Nat /\ current[c].method.id <= pushes
        /\ \A c \in 1 .. Len(current), i \in 1 .. Len(methodlist) :
              current[c].method.id < methodlist[i].id
        /\ mark <= pushes
    <3>1. \A i \in 1 .. Len(methodlist) : methodlist[i].id \in Nat
      <4>1. \A i \in 1 .. Len(methodlist) : methodlist[i] \in Method BY <1>3
      <4>2. \A m \in Method : m.id \in Nat BY Zenon DEF Method
      <4> QED BY <4>1, <4>2, Zenon
    <3>2. \A c \in 1 .. Len(current) : current[c].method.id \in Nat
      <4>1. \A c \in 1 .. Len(current) : current[c] \in Frame BY <1>0 DEF QueueTypes
      <4>2. \A f \in Frame : f.method.id \in Nat BY Zenon DEF Frame, Method
      <4> QED BY <4>1, <4>2, Zenon
    <3> QED BY <1>0, <3>1, <3>2, Zenon DEF MethodsOK, IdsInOrder
  <2>2. \A i \in 1 .. Len(methodlist') :
           \/ i \in 1 .. Len(methodlist) /\ methodlist'[i] = methodlist[i]
           \/ i = Len(methodlist) + 1 /\ methodlist'[i].id = pushes + 1
    BY <1>3, <1>5, <1>6
  <2>3. ASSUME NEW i \in 1 .. Len(methodlist')
        PROVE  0 < methodlist'[i].id /\ methodlist'[i].id <= pushes + 1
    <3>1. CASE i \in 1 .. Len(methodlist) /\ methodlist'[i] = methodlist[i]
      <4>1. methodlist[i].id \in Nat /\ 0 < methodlist[i].id /\ methodlist[i].id <= pushes
        BY <2>1, <3>1, Zenon
      <4> QED BY <1>3, <3>1, <4>1
    <3>2. CASE methodlist'[i].id = pushes + 1 BY <1>3, <3>2
    <3> QED BY <2>2, <3>1, <3>2, Zenon
  <2>4. \A i, k \in 1 .. Len(methodlist') : i < k => methodlist'[i].id < methodlist'[k].id
    <3> SUFFICES ASSUME NEW i \in 1 .. Len(methodlist'), NEW k \in 1 .. Len(methodlist'), i < k
                 PROVE  methodlist'[i].id < methodlist'[k].id
      BY Zenon
    <3>1. i \in 1 .. Len(methodlist) /\ methodlist'[i] = methodlist[i] BY <1>3, <1>6, <2>2
    <3>2. CASE k \in 1 .. Len(methodlist) /\ methodlist'[k] = methodlist[k]
      BY <2>1, <3>1, <3>2, Zenon
    <3>3. CASE methodlist'[k].id = pushes + 1
      <4>1. methodlist[i].id \in Nat /\ methodlist[i].id <= pushes BY <2>1, <3>1, Zenon
      <4> QED BY <1>3, <3>1, <3>3, <4>1
    <3> QED BY <2>2, <3>2, <3>3, Zenon
  <2>5. /\ \A c \in 1 .. Len(current) : current[c].method.id <= pushes + 1
        /\ \A c \in 1 .. Len(current), i \in 1 .. Len(methodlist') :
              current[c].method.id < methodlist'[i].id
    <3>1. ASSUME NEW c \in 1 .. Len(current)
          PROVE  current[c].method.id \in Nat /\ current[c].method.id <= pushes
      BY <2>1, Zenon
    <3>2. ASSUME NEW c \in 1 .. Len(current), NEW i \in 1 .. Len(methodlist')
          PROVE  current[c].method.id < methodlist'[i].id
      <4>1. CASE i \in 1 .. Len(methodlist) /\ methodlist'[i] = methodlist[i]
        BY <2>1, <4>1, Zenon
      <4>2. CASE methodlist'[i].id = pushes + 1 BY <1>3, <3>1, <4>2
      <4> QED BY <2>2, <4>1, <4>2, Zenon
    <3>3. ASSUME NEW c \in 1 .. Len(current) PROVE current[c].method.id <= pushes + 1
      BY <1>3, <3>1
    <3> QED BY <3>2, <3>3, Zenon
  <2>6. NewerThanMark => NewerThanMark'
    <3>1. mark' = mark /\ mark < pushes + 1
      <4>1. mark <= pushes BY <2>1, Zenon
      <4> QED BY <1>1, <1>3, <4>1
    <3> SUFFICES ASSUME NewerThanMark, NEW i \in 1 .. Len(methodlist')
                 PROVE  mark' < methodlist'[i].id
      BY Zenon DEF NewerThanMark
    <3>2. CASE i \in 1 .. Len(methodlist) /\ methodlist'[i] = methodlist[i]
      BY <3>1, <3>2, Zenon DEF NewerThanMark
    <3> QED BY <2>2, <3>1, <3>2, Zenon
  <2>7. mark' <= pushes'
    <3>1. mark <= pushes BY <2>1, Zenon
    <3> QED BY <1>1, <1>3, <3>1
  <2>8. /\ pushes' = pushes + 1 /\ current' = current /\ pc' = pc /\ stack' = stack
        /\ Len(current) = (IF pc = "method" THEN 1 ELSE 0)
                            + (IF InStack("method") THEN 1 ELSE 0)
        /\ pc = "own" => NewerThanMark
        /\ pc = "method" /\ stack[1] = "own" /\ ~current[1].not_empty => NewerThanMark
    BY <1>0, <1>1, Zenon DEF MethodsOK, CurrentCounted, OwnIsNewer
  <2>9. Len(current') = (IF pc' = "method" THEN 1 ELSE 0)
                            + (IF InStack("method")' THEN 1 ELSE 0)
    BY <1>2, <2>8, Zenon
  <2>10. IdsInOrder' BY <2>3, <2>4, <2>5, <2>8, Zenon DEF IdsInOrder
  <2>11. OwnIsNewer' BY <2>6, <2>8, Zenon DEF OwnIsNewer
  <2> QED BY <2>7, <2>9, <2>10, <2>11, Zenon DEF MethodsOK, CurrentCounted
<1> QED BY <1>2, <1>7, <1>8, <1>9, Zenon DEF IInv

\* The user, the timer task and the clock only send signals.
LEMMA OthersKeep ==
    ASSUME IInv, NEW bit, Input(bit) \/ TimerStep \/ ClockStep
    PROVE  IInv'
<1>0. StackOK /\ QueueTypes /\ JobSeen /\ MethodsOK BY Zenon DEF IInv
<1>1. /\ UNCHANGED <<mstask, methodlist, pushes, current, mark, pc, stack, workerPC,
                     invocationQueue, g_functionid, callbacksPaused>>
      /\ "CTRL_E" \in signals => "CTRL_E" \in signals'
  <2>1. CASE Input(bit)
    BY <2>1, Zenon DEF Input, SignalMain, KeepQueue, KeepStack, queueVars, stackVars, loopVars
  <2>2. CASE TimerStep
    <3>1. signals' = signals \/ SignalMain({"CTRL_E"}) \/ SignalMain({"TaskSig"})
      BY <2>2, Zenon DEF TimerStep, TimerTask, OuterStart, OuterTerm, InnerTerm, InnerStop, InnerStart,
                  InnerTimer, DelayStop, DelayStart, TimerEnds
    <3> QED BY <2>2, <3>1, Zenon DEF TimerStep, SignalMain, KeepQueue, KeepStack, queueVars, stackVars,
                              loopVars
  <2>3. CASE ClockStep
    BY <2>3, Zenon DEF ClockStep, RequestCompletes, Tick, KeepQueue, KeepStack, queueVars, stackVars,
                loopVars
  <2> QED BY <2>1, <2>2, <2>3, Zenon
<1>2. StackOK' /\ (InFunction => InFunction') BY <1>0, <1>1, LoopKept, Zenon
<1>3. QueueTypes' BY <1>0, <1>1, Zenon DEF QueueTypes
<1>4. JobSeen' BY <1>0, <1>1, <1>2, JobKept, Zenon DEF JobSeen
<1>5. MethodsOK' BY <1>0, <1>1, MethodsStay, Zenon
<1> QED BY <1>2, <1>3, <1>4, <1>5, Zenon DEF IInv

-----------------------------------------------------------------------------
\* A step of nobody here.
LEMMA StutterKeeps ==
    ASSUME IInv, UNCHANGED vars
    PROVE  IInv'
<1>0. StackOK /\ QueueTypes /\ JobSeen /\ MethodsOK BY Zenon DEF IInv
<1>1. UNCHANGED <<signals, mstask, methodlist, pushes, current, mark, pc, stack, workerPC,
                  invocationQueue, g_functionid, callbacksPaused>>
  BY Zenon DEF vars, queueVars, stackVars, loopVars
<1>2. StackOK' /\ (InFunction => InFunction') BY <1>0, <1>1, LoopKept, Zenon
<1>3. QueueTypes' BY <1>0, <1>1, Zenon DEF QueueTypes
<1>4. JobSeen' BY <1>0, <1>1, <1>2, JobKept, Zenon DEF JobSeen
<1>5. MethodsOK' BY <1>0, <1>1, MethodsStay, Zenon
<1> QED BY <1>2, <1>3, <1>4, <1>5, Zenon DEF IInv

\* Every step of the system keeps the invariant.
LEMMA NextKeeps == IInv /\ [Next]_vars => IInv'
<1> SUFFICES ASSUME IInv, [Next]_vars PROVE IInv'
  OBVIOUS
<1>1. CASE MainStep
  <2>1. ASSUME NEW b \in BOOLEAN, NewInput(b) PROVE IInv' BY <2>1, InputKeeps, Zenon
  <2>2. ASSUME NEW b \in BOOLEAN, FunctionReturns(b) PROVE IInv' BY <2>2, DispatchKeeps, Zenon
  <2>3. ASSUME NEW b \in BOOLEAN, FiredReturns(b) PROVE IInv' BY <2>3, FiringKeeps, Zenon
  <2>4. CASE Wait BY <2>4, WaitKeeps, Zenon
  <2>5. CASE CheckEmpty BY <2>5, CheckEmptyKeeps, Zenon
  <2>6. CASE CheckMethod BY <2>6, CheckMethodKeeps, Zenon
  <2>7. CASE MethodReturns BY <2>7, MethodReturnsKeeps
  <2>8. CASE DispatchEmpty \/ DispatchFunction BY <2>8, DispatchKeeps, Zenon
  <2>9. CASE SharedTimerFired \/ FireTimer \/ SharedTimerDone BY <2>9, FiringKeeps, Zenon
  <2>10. CASE OwnMethodReturns BY <2>10, OwnMethodReturnsKeeps
  <2>11. CASE DisposeObject \/ DestroyApplication \/ TimerDelete \/ TimerDeleted
    BY <2>11, EndKeeps, Zenon
  <2> QED BY <1>1, <2>1, <2>2, <2>3, <2>4, <2>5, <2>6, <2>7, <2>8, <2>9, <2>10, <2>11
         , Zenon DEF MainStep
<1>2. CASE NewInputQuit BY <1>2, InputKeeps, Zenon
<1>3. CASE ClientStep
  <2>1. ASSUME NEW m, NEW time, NEW repeat, ClientStartTimer(m, time, repeat) PROVE IInv'
    BY <2>1, ClientTimerKeeps, Zenon
  <2>2. ASSUME NEW m, ClientStopTimer(m) PROVE IInv' BY <2>2, ClientTimerKeeps, Zenon
  <2>3. ASSUME NEW id, ClientRemoveJob(id) PROVE IInv' BY <2>3, ClientQueueKeeps, Zenon
  <2>4. CASE ClientNestedEventLoop BY <2>4, ClientTimerKeeps, Zenon
  <2>5. CASE ClientCallOnMainThread \/ ClientPause \/ ClientUnpause BY <2>5, ClientQueueKeeps, Zenon
  <2>6. CASE ClientPush BY <2>6, ClientPushKeeps
  <2> QED BY <1>3, <2>1, <2>2, <2>3, <2>4, <2>5, <2>6, Zenon DEF ClientStep
<1>4. CASE TimerStep \/ ClockStep BY <1>4, OthersKeep, Zenon
<1>5. ASSUME NEW w \in Workers,
             WorkerStep(w) \/ WorkerCall(w) \/ WorkerPush(w) \/ WorkerPushSync(w)
      PROVE  IInv'
  BY <1>5, WorkerStepKeeps, WorkerCallKeeps, WorkerPushKeeps, Zenon
<1>6. ASSUME NEW bit, Input(bit) PROVE IInv' BY <1>6, OthersKeep, Zenon
<1>7. CASE UNCHANGED vars BY <1>7, StutterKeeps, Zenon
<1> QED BY <1>1, <1>2, <1>3, <1>4, <1>5, <1>6, <1>7, Zenon DEF Next

\* The invariant holds throughout.
LEMMA Invariance == Spec => []IInv
BY Initially, NextKeeps, PTL DEF Spec

-----------------------------------------------------------------------------
\* However many threads send functions to the main thread, and whatever the
\* application does meanwhile, main_loop() never goes to Wait() and forgets
\* functions in the queue: the signal that callOnMainThread() sends only for an
\* empty queue is enough.
THEOREM JobsAreSeen == Spec => []NoStrandedJob
<1>1. IInv => NoStrandedJob
  <2> SUFFICES ASSUME IInv, pc = "wait", invocationQueue # <<>>, ~callbacksPaused
               PROVE  "CTRL_E" \in signals \/ \E w \in Workers : workerPC[w] = "schedule"
    BY Zenon DEF NoStrandedJob
  <2>1. stack = <<>> /\ mstask = Main
    BY Zenon DEF IInv, StackOK, JobSeen, Resting, Bottom
  <2>2. ~InStack("function") BY <2>1 DEF InStack
  <2> QED BY <2>1, <2>2, Zenon DEF IInv, JobSeen
<1> QED BY <1>1, Invariance, PTL

\* However many methods are pushed, and from wherever, the main task performs
\* no method before an older one, and its own only after all that waited.
THEOREM OlderMethodsFirst == Spec => []WaitingMethodsFirst
<1>1. IInv => WaitingMethodsFirst
  <2> SUFFICES ASSUME IInv, NEW m \in Range(methodlist)
               PROVE  /\ \A i \in DOMAIN current : current[i].method.id < m.id
                      /\ pc = "own" => mark < m.id
    BY Zenon DEF WaitingMethodsFirst
  <2>1. methodlist \in Seq(Method) /\ current \in Seq(Frame) BY Zenon DEF IInv, QueueTypes
  <2>2. PICK i \in 1 .. Len(methodlist) : m = methodlist[i] BY <2>1 DEF Range
  <2>3. DOMAIN current = 1 .. Len(current) BY <2>1
  <2> QED BY <2>2, <2>3, Zenon DEF IInv, MethodsOK, IdsInOrder, OwnIsNewer, NewerThanMark
<1> QED BY <1>1, Invariance, PTL

-----------------------------------------------------------------------------
(* The timers.                                                             *)

\* The points of OWBApp_WebKitEvents from which it is still to fire timers, and
\* those where it does.
Coming == {"dispatch", "function", "fire"}
Firing == {"firing", "fired", "endFiring"}

\* The main task is at one of these points, or will return to it.
At(labels) == \E l \in labels : pc = l \/ InStack(l)

\* OWBApp_WebKitEvents is called by main_loop() only, and so never twice.
EventsAtBottom ==
    /\ pc \in Events => Len(stack) = 2
    /\ \A i \in 1 .. Len(stack) : stack[i] \in Events => i = Len(stack) - 2

\* Somebody will wake the main task for its timers.
Attended ==
    \/ "CTRL_E" \in signals
    \/ "Start" \in timerSignals
    \/ timerPC \in {"inner", "delayStart"}

Ended == pc \in {"deleting", "gone"}

\* A fire time is pending only as long as the timer task works on it or has
\* told the main task; the heap is not left alone outside the firing of timers.
TInv ==
    /\ EventsAtBottom
    /\ m_firingTimers => At(Firing)
    /\ "Term" \in timerSignals \/ timerPC \in {"ending", "ended"} => Ended
    /\ m_pendingSharedTimerFireTime # None => Attended \/ At(Coming) \/ Ended
    /\ m_timerHeap # <<>> /\ ~m_firingTimers =>
          Attended \/ At(Coming) \/ At(Firing) \/ Ended

\* What a step does that neither takes a signal, nor touches the timers, nor
\* leaves OWBApp_WebKitEvents.
LEMMA TimersKept ==
    ASSUME TInv, UNCHANGED timerVars, EventsAtBottom',
           "CTRL_E" \in signals => "CTRL_E" \in signals',
           At(Coming) => At(Coming)', At(Firing) => At(Firing)', Ended => Ended'
    PROVE  TInv'
BY Zenon DEF TInv, Attended, timerVars, threadTimersVars, handleVars, timerTaskVars

\* The main task stays in OWBApp_WebKitEvents, or out of it.
LEMMA EventsGoOn ==
    ASSUME EventsAtBottom, NEW label, Goto(label),
           label \in Coming <=> pc \in Coming, label \in Firing <=> pc \in Firing
    PROVE  EventsAtBottom' /\ (At(Coming) => At(Coming)') /\ (At(Firing) => At(Firing)')
<1>1. pc' = label /\ stack' = stack BY Zenon DEF Goto
<1>2. EventsAtBottom' BY <1>1, Zenon DEF EventsAtBottom, Events, Coming, Firing
<1>3. \A l : InStack(l) <=> InStack(l)' BY <1>1, Zenon DEF InStack
<1>4. pc \in Coming => At(Coming)' BY <1>1, Zenon DEF At
<1>5. pc \in Firing => At(Firing)' BY <1>1, Zenon DEF At
<1> QED BY <1>2, <1>3, <1>4, <1>5, Zenon DEF At

\* A method, or methodstack_check(), returns.
LEMMA EventsGoneBackTo ==
    ASSUME StackOK, EventsAtBottom, pc \in {"check", "method", "own"}, Return
    PROVE  EventsAtBottom' /\ (At(Coming) => At(Coming)') /\ (At(Firing) => At(Firing)')
<1>1. /\ Len(stack) \in Nat /\ Len(stack) >= 1 /\ pc' = stack[1]
      /\ \A l : InStack(l) => pc' = l \/ InStack(l)'
  BY Returned, Zenon DEF Inside
<1>2. Len(stack') = Len(stack) - 1 /\ \A i \in 1 .. Len(stack') : stack'[i] = stack[i + 1]
  <2>1. stack \in Seq(Bottom \cup Inside) BY Zenon DEF StackOK
  <2> QED BY <1>1, <2>1 DEF Return
<1>3. pc' \in Events => Len(stack') = 2
  <2>1. 1 \in 1 .. Len(stack) BY <1>1
  <2> QED BY <1>1, <1>2, <2>1 DEF EventsAtBottom
<1>4. ASSUME NEW i \in 1 .. Len(stack'), stack'[i] \in Events PROVE i = Len(stack') - 2
  <2>1. i + 1 \in 1 .. Len(stack) /\ stack[i + 1] \in Events BY <1>1, <1>2, <1>4
  <2>2. i + 1 = Len(stack) - 2 BY <2>1, Zenon DEF EventsAtBottom
  <2> QED BY <1>1, <1>2, <2>2
<1>5. EventsAtBottom' BY <1>3, <1>4, Zenon DEF EventsAtBottom
<1>6. pc \notin Coming /\ pc \notin Firing BY Zenon DEF Coming, Firing
<1> QED BY <1>1, <1>5, <1>6, Zenon DEF At

\* main_loop() calls methodstack_check() or OWBApp_WebKitEvents.
LEMMA EventsCalled ==
    ASSUME StackOK, pc \in {"wait", "input"}, NEW b \in Bottom, NEW label,
           \/ label = "check" /\ Call(label, <<b>>)
           \/ label \in {"check", "dispatch", "fire"} /\ Call(label, <<"check", b>>)
    PROVE  EventsAtBottom' /\ ~At(Coming) /\ ~At(Firing) /\ pc' = label
<1>1. /\ pc' = label /\ stack = <<>>
      /\ \A l : ~InStack(l)
  BY CalledFromLoop, Zenon DEF Bottom
<1>2. ~At(Coming) /\ ~At(Firing) BY <1>1, Zenon DEF At, Coming, Firing
<1>3. b \notin Events /\ "check" \notin Events BY Zenon DEF Bottom, Events
<1>4. CASE label = "check" /\ Call(label, <<b>>)
  <2>1. stack' = <<b>> BY <1>1, <1>4 DEF Call
  <2>2. Len(stack') = 1 /\ stack'[1] = b BY <2>1, Zenon
  <2>3. \A i \in 1 .. Len(stack') : i = 1 BY <2>2
  <2> QED BY <1>1, <1>2, <1>3, <1>4, <2>2, <2>3, Zenon DEF EventsAtBottom
<1>5. CASE Call(label, <<"check", b>>)
  <2>1. stack' = <<"check", b>> BY <1>1, <1>5 DEF Call
  <2>2. Len(stack') = 2 /\ stack'[1] = "check" /\ stack'[2] = b BY <2>1, Zenon
  <2>3. \A i \in 1 .. Len(stack') : i = 1 \/ i = 2 BY <2>2
  <2> QED BY <1>1, <1>2, <1>3, <2>2, <2>3, Zenon DEF EventsAtBottom
<1> QED BY <1>4, <1>5, Zenon

\* The main task pushes a method of its own.
LEMMA EventsInterrupted ==
    ASSUME StackOK, EventsAtBottom, pc \in ClientPoints, pc # "own", "own" \notin Range(stack),
           Call("check", <<"own", pc>>)
    PROVE  EventsAtBottom' /\ (At(Coming) => At(Coming)') /\ (At(Firing) => At(Firing)')
<1>1. /\ pc' = "check" /\ \A l : pc = l \/ InStack(l) => InStack(l)'
      /\ Len(stack) \in Nat /\ Len(stack') = Len(stack) + 2
      /\ stack'[1] = "own" /\ stack'[2] = pc
      /\ \A i \in 3 .. Len(stack') : stack'[i] = stack[i - 2]
  BY CalledByClient, Zenon
<1>2. ASSUME NEW i \in 1 .. Len(stack'), stack'[i] \in Events PROVE i = Len(stack') - 2
  <2>1. CASE i = 1 BY <1>1, <1>2, <2>1, Zenon DEF Events
  <2>2. CASE i = 2 BY <1>1, <1>2, <2>2 DEF EventsAtBottom
  <2>3. CASE i \in 3 .. Len(stack')
    <3>1. i - 2 \in 1 .. Len(stack) /\ stack[i - 2] \in Events BY <1>1, <1>2, <2>3
    <3>2. i - 2 = Len(stack) - 2 BY <3>1, Zenon DEF EventsAtBottom
    <3> QED BY <1>1, <3>2
  <2>4. i = 1 \/ i = 2 \/ i \in 3 .. Len(stack') BY <1>1
  <2> QED BY <2>1, <2>2, <2>3, <2>4, Zenon
<1>3. EventsAtBottom' BY <1>1, <1>2, Zenon DEF EventsAtBottom, Events
<1> QED BY <1>1, <1>3, Zenon DEF At

\* The steps of the main task that do not concern the timers.
LEMMA QuietMainSteps ==
    ASSUME IInv, TInv, NEW b \in BOOLEAN,
           \/ NewInput(b) \/ NewInputQuit \/ CheckEmpty \/ CheckMethod \/ MethodReturns
           \/ DispatchEmpty \/ DispatchFunction \/ FunctionReturns(b) \/ FiredReturns(b)
           \/ OwnMethodReturns \/ DisposeObject \/ DestroyApplication
    PROVE  TInv'
<1>1. /\ UNCHANGED timerVars
      /\ UNCHANGED signals \/ WakeTimer
      /\ \/ /\ pc = "input"
            /\ \/ Call("check", <<"wait">>)
               \/ \E next \in {"input", "dispose"} : Call("check", <<"check", next>>)
         \/ pc \in {"check", "method", "own"} /\ Return
         \/ \E label : /\ Goto(label) /\ label \notin {"deleting", "gone"} /\ ~Ended
                       /\ label \in Coming <=> pc \in Coming
                       /\ label \in Firing <=> pc \in Firing
  <2>1. CASE NewInput(b) \/ NewInputQuit
    BY <2>1, Zenon DEF NewInput, NewInputQuit, KeepTask, KeepTimers
  <2>2. CASE CheckEmpty \/ OwnMethodReturns
    BY <2>2, Zenon DEF CheckEmpty, OwnMethodReturns, KeepTask, KeepTimers
  <2>3. CASE CheckMethod \/ MethodReturns
    BY <2>3 DEF CheckMethod, MethodReturns, KeepTask, KeepTimers, Coming, Firing, Ended
  <2>4. CASE DispatchEmpty \/ DispatchFunction \/ FunctionReturns(b)
    BY <2>4 DEF DispatchEmpty, DispatchFunction, FunctionReturns, KeepTask, KeepTimers, Coming,
                Firing, Ended, ScheduleDispatchFunctionsOnMainThread
  <2>5. CASE FiredReturns(b)
    BY <2>5, Zenon DEF FiredReturns, KeepTask, KeepTimers, Coming, Firing, Ended
  <2>6. CASE DisposeObject \/ DestroyApplication
    BY <2>6 DEF DisposeObject, DestroyApplication, KeepTask, KeepTimers, Coming, Firing, Ended
  <2> QED BY <2>1, <2>2, <2>3, <2>4, <2>5, <2>6, Zenon
<1>2. "CTRL_E" \in signals => "CTRL_E" \in signals' BY <1>1, Zenon DEF WakeTimer, SignalMstask
<1>3. StackOK /\ EventsAtBottom BY Zenon DEF IInv, TInv
<1>4. CASE /\ pc = "input"
           /\ \/ Call("check", <<"wait">>)
              \/ \E next \in {"input", "dispose"} : Call("check", <<"check", next>>)
  <2>1. EventsAtBottom' /\ ~At(Coming) /\ ~At(Firing) BY <1>3, <1>4, EventsCalled, Zenon DEF Bottom
  <2>2. ~Ended BY <1>4, Zenon DEF Ended
  <2> QED BY <1>1, <1>2, <2>1, <2>2, TimersKept, Zenon
<1>5. CASE pc \in {"check", "method", "own"} /\ Return
  <2>1. ~Ended BY <1>5, Zenon DEF Ended
  <2> QED BY <1>1, <1>2, <1>3, <1>5, <2>1, EventsGoneBackTo, TimersKept, Zenon
<1>6. CASE \E label : /\ Goto(label) /\ label \notin {"deleting", "gone"} /\ ~Ended
                      /\ label \in Coming <=> pc \in Coming
                      /\ label \in Firing <=> pc \in Firing
  BY <1>1, <1>2, <1>3, <1>6, EventsGoOn, TimersKept, Zenon
<1> QED BY <1>1, <1>4, <1>5, <1>6, Zenon

\* The steps of the application that do not concern the timers.
LEMMA QuietClientSteps ==
    ASSUME IInv, TInv, NEW id,
           \/ ClientCallOnMainThread \/ ClientRemoveJob(id) \/ ClientPause \/ ClientUnpause
           \/ ClientPush
    PROVE  TInv'
<1>1. StackOK /\ EventsAtBottom BY Zenon DEF IInv, TInv
<1>2. CASE ClientPush
  <2>1. /\ UNCHANGED <<timerVars, signals>> /\ pc \in ClientPoints
        /\ pc # "own" /\ "own" \notin Range(stack) /\ Call("check", <<"own", pc>>)
    BY <1>2, Zenon DEF ClientPush, Op, KeepTask, KeepTimers
  <2>2. ~Ended BY <2>1, Zenon DEF Ended, ClientPoints
  <2> QED BY <1>1, <2>1, <2>2, EventsInterrupted, TimersKept, Zenon
<1>3. CASE ClientCallOnMainThread \/ ClientRemoveJob(id) \/ ClientPause \/ ClientUnpause
  <2>1. UNCHANGED timerVars /\ (UNCHANGED signals \/ WakeTimer) /\ UNCHANGED <<pc, stack>>
    BY <1>3, Zenon DEF ClientCallOnMainThread, ClientRemoveJob, ClientPause, ClientUnpause, KeepTimers,
                RemoveFromMainThreadByJobID, SetMainThreadCallbacksPaused,
                ScheduleDispatchFunctionsOnMainThread, Goto
  <2>2. "CTRL_E" \in signals => "CTRL_E" \in signals' BY <2>1, Zenon DEF WakeTimer, SignalMstask
  <2>3. EventsAtBottom' BY <1>1, <2>1, Zenon DEF EventsAtBottom
  <2>4. (At(Coming) => At(Coming)') /\ (At(Firing) => At(Firing)') /\ (Ended => Ended')
    BY <2>1, Zenon DEF At, InStack, Ended
  <2> QED BY <2>1, <2>2, <2>3, <2>4, TimersKept, Zenon
<1> QED BY <1>2, <1>3, Zenon

\* The other tasks and the user only send signals.
LEMMA QuietOtherSteps ==
    ASSUME TInv, NEW w, NEW bit,
           \/ WorkerStep(w) \/ WorkerCall(w) \/ WorkerPush(w) \/ WorkerPushSync(w)
           \/ Input(bit) \/ UNCHANGED vars
    PROVE  TInv'
<1>1. /\ UNCHANGED timerVars /\ UNCHANGED <<pc, stack>>
      /\ UNCHANGED signals \/ SignalMstask({"CTRL_E"}) \/ SignalMstask({"CTRL_F"})
         \/ SignalMain({bit})
  <2>1. CASE WorkerStep(w)
    BY <2>1, Zenon DEF WorkerStep, WorkerSchedule, WorkerSignal, WorkerReply, KeepTask, KeepTimers,
                WorkerGoto, ScheduleDispatchFunctionsOnMainThread, WakeTimer
  <2>2. CASE WorkerCall(w) \/ WorkerPush(w) \/ WorkerPushSync(w)
    BY <2>2, Zenon DEF WorkerCall, WorkerPush, WorkerPushSync, KeepTask, KeepTimers, WorkerGoto
  <2>3. CASE Input(bit) BY <2>3, Zenon DEF Input, KeepTimers, loopVars
  <2>4. CASE UNCHANGED vars BY <2>4, Zenon DEF vars, loopVars
  <2> QED BY <2>1, <2>2, <2>3, <2>4, Zenon
<1>2. "CTRL_E" \in signals => "CTRL_E" \in signals' BY <1>1, Zenon DEF SignalMstask, SignalMain
<1>3. EventsAtBottom' BY <1>1, Zenon DEF EventsAtBottom, TInv
<1>4. (At(Coming) => At(Coming)') /\ (At(Firing) => At(Firing)') /\ (Ended => Ended')
  BY <1>1, Zenon DEF At, InStack, Ended
<1> QED BY <1>1, <1>2, <1>3, <1>4, TimersKept, Zenon

-----------------------------------------------------------------------------
\* Wait() takes SIGBREAKF_CTRL_E only to come to the timers as well.
LEMMA WaitAttends ==
    ASSUME IInv, TInv, Wait
    PROVE  TInv'
<1>1. UNCHANGED timerVars /\ pc = "wait" BY Zenon DEF Wait, KeepTimers
<1>2. PICK next \in {"input", "dispose"} :
         \/ "CTRL_E" \in signals /\ Call(WebKitEvents, <<"check", next>>)
         \/ "CTRL_E" \notin signals /\ Call("check", <<next>>)
  BY Zenon DEF Wait, WaitMask
<1>3. PICK label : label = WebKitEvents BY Zenon
<1>4. label \in {"dispatch", "fire"} BY <1>3, Zenon DEF WebKitEvents
<1>5. CASE "CTRL_E" \in signals
  <2>1. Call(label, <<"check", next>>) BY <1>2, <1>3, <1>5, Zenon
  <2>2. EventsAtBottom' /\ ~At(Firing) /\ pc' = label
    BY <1>1, <1>4, <2>1, EventsCalled, Zenon DEF IInv, Bottom
  <2>3. At(Coming)' BY <1>4, <2>2, Zenon DEF At, Coming
  <2>4. ~Ended BY <1>1, Zenon DEF Ended
  <2> QED BY <1>1, <2>2, <2>3, <2>4
      , Zenon DEF TInv, timerVars, threadTimersVars, handleVars, timerTaskVars
<1>6. CASE "CTRL_E" \notin signals
  <2>1. Call("check", <<next>>) BY <1>2, <1>6, Zenon
  <2>2. EventsAtBottom' /\ ~At(Coming) /\ ~At(Firing)
    BY <1>1, <2>1, EventsCalled, Zenon DEF IInv, Bottom
  <2>3. ~Ended BY <1>1 DEF Ended
  <2> QED BY <1>1, <1>6, <2>2, <2>3, TimersKept, Zenon
<1> QED BY <1>5, <1>6, Zenon

\* updateSharedTimer() leaves a heap that is not empty either with a Start for
\* the timer task, or with the fire time that was pending before.
LEMMA SharedTimerUpdated ==
    ASSUME UpdateSharedTimer(m_pendingSharedTimerFireTime)
    PROVE  /\ timerSignals \subseteq timerSignals'
           /\ timerSignals' \subseteq timerSignals \cup {"Start", "Stop"}
           /\ m_pendingSharedTimerFireTime' # None \/ (m_timerHeap' # <<>> /\ ~m_firingTimers')
              => m_pendingSharedTimerFireTime # None \/ "Start" \in timerSignals'
<1>1. None # 0 BY SharedTimerAssumption
<1>2. CASE m_firingTimers' \/ m_timerHeap' = <<>>
  BY <1>2, Zenon DEF UpdateSharedTimer, StopSharedTimer
<1>3. CASE ~(m_firingTimers' \/ m_timerHeap' = <<>>)
  <2>1. \/ m_pendingSharedTimerFireTime = 0 /\ UNCHANGED handleVars
        \/ timerSignals' = timerSignals \cup {"Start"}
    BY <1>3, Zenon DEF UpdateSharedTimer, StartSharedTimer
  <2> QED BY <1>1, <2>1, Zenon DEF handleVars
<1> QED BY <1>2, <1>3, Zenon

\* A step of the main task in which the heap may change, but not from empty to
\* not empty without a Start, and the firing of timers goes on or does not begin.
LEMMA TimersChanged ==
    ASSUME TInv, UNCHANGED <<signals, timerPC>>, EventsAtBottom',
           At(Coming) => At(Coming)', At(Firing) => At(Firing)', Ended => Ended',
           timerSignals \subseteq timerSignals',
           timerSignals' \subseteq timerSignals \cup {"Start", "Stop"},
           m_firingTimers' => At(Firing)',
           m_pendingSharedTimerFireTime' # None
           => m_pendingSharedTimerFireTime # None \/ "Start" \in timerSignals',
           m_timerHeap' # <<>> /\ ~m_firingTimers'
           => \/ m_pendingSharedTimerFireTime # None \/ "Start" \in timerSignals'
              \/ At(Firing)' \/ (m_timerHeap # <<>> /\ ~m_firingTimers)
    PROVE  TInv'
<1>1. Attended => Attended' BY Zenon DEF Attended
<1>2. "Start" \in timerSignals' => Attended' BY Zenon DEF Attended
<1>3. "Term" \in timerSignals' => "Term" \in timerSignals BY Zenon
<1> QED BY <1>1, <1>2, <1>3, Zenon DEF TInv

\* sharedTimerFiredInternal() sees to the shared timer when it is done.
LEMMA FiringAttends ==
    ASSUME IInv, TInv, SharedTimerFired \/ FireTimer \/ SharedTimerDone
    PROVE  TInv'
<1>1. UNCHANGED signals /\ StackOK /\ EventsAtBottom
  BY Zenon DEF SharedTimerFired, FireTimer, SharedTimerDone, KeepTask, IInv, TInv
<1>2. pc \in {"fire", "firing", "endFiring"}
  BY Zenon DEF SharedTimerFired, FireTimer, SharedTimerDone
<1>3. Len(stack) = 2 /\ \A l \in Events : ~InStack(l)
  BY <1>1, <1>2 DEF EventsAtBottom, Events, InStack
<1>4. Coming \subseteq Events /\ Firing \subseteq Events /\ ~Ended
  BY <1>2, Zenon DEF Coming, Firing, Events, Ended
<1>5. CASE SharedTimerFired
  <2>1. ~m_firingTimers
    <3>1. pc \notin Firing BY <1>5, Zenon DEF SharedTimerFired, Firing
    <3> QED BY <1>3, <1>4, <3>1, Zenon DEF TInv, At
  <2>2. BeginFiring /\ Goto("firing") BY <1>5, <2>1, Zenon DEF SharedTimerFired
  <2>3. EventsAtBottom' BY <1>1, <1>3, <2>2, Zenon DEF EventsAtBottom, Goto
  <2>4. At(Firing)' BY <2>2, Zenon DEF At, Firing, Goto
  <2>5. UNCHANGED <<timerSignals, timerPC>> /\ m_pendingSharedTimerFireTime' = None
    BY <2>2, Zenon DEF BeginFiring, handleVars, timerTaskVars
  <2> QED BY <1>4, <2>3, <2>4, <2>5, Zenon DEF TInv
<1>6. CASE FireTimer
  <2>1. pc = "firing" /\ FireFirst /\ Goto("fired") BY <1>6, Zenon DEF FireTimer
  <2>2. At(Firing)' BY <2>1, Zenon DEF At, Firing, Goto
  <2>3. EventsAtBottom' /\ (At(Coming) => At(Coming)')
    BY <1>1, <2>1, EventsGoOn, Zenon DEF Coming, Firing
  <2>4. UNCHANGED timerPC /\ m_firingTimers' = m_firingTimers
    BY <2>1, Zenon DEF FireFirst, timerTaskVars
  <2>5. \/ UNCHANGED <<m_pendingSharedTimerFireTime, handleVars>>
        \/ UpdateSharedTimer(m_pendingSharedTimerFireTime)
    BY <2>1, Zenon DEF FireFirst, SetNextFireTime
  <2>6. /\ timerSignals \subseteq timerSignals'
        /\ timerSignals' \subseteq timerSignals \cup {"Start", "Stop"}
        /\ m_pendingSharedTimerFireTime' # None
           => m_pendingSharedTimerFireTime # None \/ "Start" \in timerSignals'
    BY <2>5, SharedTimerUpdated, Zenon DEF handleVars
  <2> QED BY <1>1, <1>4, <2>2, <2>3, <2>4, <2>6, TimersChanged, Zenon
<1>7. CASE SharedTimerDone
  <2>1. EndFiring /\ Return /\ pc \in {"firing", "endFiring"} BY <1>7, Zenon DEF SharedTimerDone
  <2>2. /\ timerSignals \subseteq timerSignals'
        /\ timerSignals' \subseteq timerSignals \cup {"Start", "Stop"}
        /\ m_pendingSharedTimerFireTime' # None \/ (m_timerHeap' # <<>> /\ ~m_firingTimers')
           => m_pendingSharedTimerFireTime # None \/ "Start" \in timerSignals'
    BY <2>1, SharedTimerUpdated, Zenon DEF EndFiring
  <2>3. ~m_firingTimers' /\ UNCHANGED timerPC BY <2>1, Zenon DEF EndFiring, timerTaskVars
  <2>4. ~At(Coming) BY <1>3, <1>4, <2>1, Zenon DEF At, Coming
  <2>5. StackOK' /\ pc' = "check" /\ \A l : InStack(l)' => InStack(l)
    BY <1>1, <1>2, <2>1, EventsReturn, Zenon DEF Events
  <2>6. \A i \in 1 .. Len(stack') : stack'[i] \notin Events BY <1>3, <2>5, Zenon DEF InStack
  <2>7. EventsAtBottom' BY <2>5, <2>6, Zenon DEF EventsAtBottom, Events
  <2>8. m_pendingSharedTimerFireTime # None => Attended BY <1>4, <2>4, Zenon DEF TInv
  <2>9. Attended \/ "Start" \in timerSignals' => Attended' BY <1>1, <2>2, <2>3, Zenon DEF Attended
  <2>10. ~("Term" \in timerSignals' \/ timerPC' \in {"ending", "ended"})
    BY <1>4, <2>2, <2>3, Zenon DEF TInv
  <2> QED BY <2>2, <2>3, <2>7, <2>8, <2>9, <2>10, Zenon DEF TInv
<1> QED BY <1>5, <1>6, <1>7, Zenon

\* The application starts or stops a timer, in or out of the firing of timers,
\* or runs a nested event loop: a heap that was empty gets a Start.
LEMMA ClientTimersAttend ==
    ASSUME TInv, NEW m, NEW time, NEW repeat,
           ClientStartTimer(m, time, repeat) \/ ClientStopTimer(m) \/ ClientNestedEventLoop
    PROVE  TInv'
<1>1. UNCHANGED <<signals, pc, stack, timerPC>>
  BY Zenon DEF ClientStartTimer, ClientStopTimer, ClientNestedEventLoop, KeepTask, Goto, StartTimer,
         StopTimer, FireTimersInNestedEventLoop, timerTaskVars
<1>2. EventsAtBottom' BY <1>1, Zenon DEF EventsAtBottom, TInv
<1>3. (At(Coming) => At(Coming)') /\ (At(Firing) => At(Firing)') /\ (Ended => Ended')
  BY <1>1, Zenon DEF At, InStack, Ended
<1>4. ASSUME NEW t, SetNextFireTime(m, t, m_timerHeap), UNCHANGED m_firingTimers
      PROVE  TInv'
  <2>1. CASE UpdateSharedTimer(m_pendingSharedTimerFireTime)
    BY <1>1, <1>2, <1>3, <1>4, <2>1, SharedTimerUpdated, TimersChanged, Zenon DEF TInv
  <2>2. CASE ~(m_timerHeap # <<>> /\ m_timerHeap[1] = m)
             /\ ~(m_timerHeap' # <<>> /\ m_timerHeap'[1] = m)
    <3>1. UNCHANGED <<m_pendingSharedTimerFireTime, handleVars>>
      BY <1>4, <2>2, Zenon DEF SetNextFireTime
    <3>2. m_timerHeap = <<>> => m_timerHeap' = <<>>
      <4> SUFFICES ASSUME m_timerHeap = <<>> PROVE m_timerHeap' = <<>>
        BY Zenon
      <4>1. \A S : AllAmong(m_timerHeap, S) = <<>> BY AllAmongEmpty, Zenon
      <4>2. Without(m_timerHeap, m) = <<>> BY <4>1, Zenon DEF Without
      <4>3. PICK r : r = remaining' BY Zenon
      <4>4. Inserted(<<>>, m, r) = <<>> \o <<m>> \o <<>>
        <5> DEFINE after == {u \in Timers : r[u] > r[m]}
        <5>1. AllAmong(<<>>, Timers \ after) = <<>> BY AllAmongEmpty, Zenon
        <5>2. AllAmong(<<>>, after) = <<>> BY AllAmongEmpty, Zenon
        <5> QED BY <5>1, <5>2, Zenon DEF Inserted
      <4>5. Inserted(<<>>, m, r) = <<m>> BY <4>4
      <4>6. m_timerHeap' = <<>> \/ m_timerHeap' = <<m>>
        BY <1>4, <4>2, <4>3, <4>5, Zenon DEF SetNextFireTime
      <4> QED BY <2>2, <4>6
    <3> QED BY <1>1, <1>2, <1>3, <1>4, <3>1, <3>2, TimersChanged, Zenon DEF handleVars, TInv
  <2> QED BY <1>4, <2>1, <2>2, Zenon DEF SetNextFireTime
<1>5. CASE ClientStartTimer(m, time, repeat)
  BY <1>4, <1>5, Zenon DEF ClientStartTimer, StartTimer
<1>6. CASE ClientStopTimer(m) BY <1>4, <1>6, Zenon DEF ClientStopTimer, StopTimer
<1>7. CASE ClientNestedEventLoop
  <2>1. FireTimersInNestedEventLoop /\ pc = "fired"
    BY <1>7, Zenon DEF ClientNestedEventLoop
  <2>2. At(Firing)' BY <1>1, <2>1, Zenon DEF At, Firing
  <2>3. /\ timerSignals \subseteq timerSignals'
        /\ timerSignals' \subseteq timerSignals \cup {"Start", "Stop"}
        /\ m_pendingSharedTimerFireTime' # None => "Start" \in timerSignals'
    <3>1. None # 0 BY SharedTimerAssumption
    <3> QED BY <2>1, <3>1, Zenon DEF FireTimersInNestedEventLoop, UpdateSharedTimer, StopSharedTimer,
                              StartSharedTimer
  <2> QED BY <1>1, <1>2, <1>3, <2>2, <2>3, TimersChanged, Zenon
<1> QED BY <1>5, <1>6, <1>7, Zenon

\* TimerDelete() comes when main_loop() is left.
LEMMA TimerDeleteAttends ==
    ASSUME TInv, TimerDelete \/ TimerDeleted
    PROVE  TInv'
<1>1. /\ Ended' /\ stack' = stack /\ pc' \notin Events
      /\ UNCHANGED m_firingTimers
      /\ pc \notin Firing
  BY Zenon DEF TimerDelete, TimerDeleted, Goto, Ended, Events, Firing, threadTimersVars, KeepTimers,
         timerVars
<1>2. EventsAtBottom' BY <1>1, Zenon DEF EventsAtBottom, TInv
<1>3. At(Firing) => At(Firing)' BY <1>1, Zenon DEF At, InStack
<1> QED BY <1>1, <1>2, <1>3, Zenon DEF TInv

\* The timer task gives up a request only with a signal to the main task, or to
\* start another one.
LEMMA TimerTaskAttends ==
    ASSUME TInv, TimerStep \/ ClockStep
    PROVE  TInv'
<1>1. UNCHANGED <<pc, stack, m_firingTimers, m_timerHeap>>
  BY Zenon DEF TimerStep, ClockStep, loopVars, TimerTask, OuterStart, OuterTerm, InnerTerm, InnerStop,
         InnerStart, InnerTimer, DelayStop, DelayStart, TimerEnds, RequestCompletes, Tick,
         taskUnchanged, threadTimersVars
<1>2. EventsAtBottom' BY <1>1, Zenon DEF EventsAtBottom, TInv
<1>3. (At(Coming) <=> At(Coming)') /\ (At(Firing) <=> At(Firing)') /\ (Ended <=> Ended')
  BY <1>1, Zenon DEF At, InStack, Ended
<1>4. m_pendingSharedTimerFireTime' # None => m_pendingSharedTimerFireTime # None
  <2>1. CASE TimerStep
    BY <2>1, Zenon DEF TimerStep, TimerTask, OuterStart, OuterTerm, InnerTerm, InnerStop, InnerStart,
                InnerTimer, DelayStop, DelayStart, TimerEnds, taskUnchanged, threadTimersVars
  <2>2. CASE ClockStep
    <3>1. Sooner(None) = None BY SharedTimerAssumption, Zenon DEF Sooner
    <3> QED BY <2>2, <3>1, Zenon DEF ClockStep, RequestCompletes, Tick, taskUnchanged, threadTimersVars
  <2> QED BY <2>1, <2>2, Zenon
<1>5. /\ Attended => Attended' \/ "Term" \in timerSignals
      /\ "Term" \in timerSignals' \/ timerPC' \in {"ending", "ended"}
         => "Term" \in timerSignals \/ timerPC \in {"ending", "ended"}
  <2>1. CASE TimerStep /\ (OuterStart \/ OuterTerm \/ InnerTerm)
    BY <2>1, Zenon DEF OuterStart, OuterTerm, InnerTerm, Got, OuterMask, InnerMask, Attended
  <2>2. CASE TimerStep /\ (InnerStop \/ InnerStart)
    BY <2>2, Zenon DEF InnerStop, InnerStart, StaleSignal, SignalMain, Got, InnerMask, Attended
  <2>3. CASE TimerStep /\ InnerTimer
    BY <2>3, Zenon DEF InnerTimer, SignalMain, Got, InnerMask, Attended
  <2>4. CASE TimerStep /\ (DelayStop \/ DelayStart \/ TimerEnds)
    BY <2>4, Zenon DEF DelayStop, DelayStart, TimerEnds, StaleSignal, SignalMain, Attended
  <2>5. CASE ClockStep
    BY <2>5, Zenon DEF ClockStep, RequestCompletes, Tick, handleVars, Attended
  <2> QED BY <2>1, <2>2, <2>3, <2>4, <2>5, Zenon DEF TimerStep, TimerTask
<1> QED BY <1>1, <1>2, <1>3, <1>4, <1>5, Zenon DEF TInv

\* Every step of the system keeps it.
LEMMA NextAttends == IInv /\ TInv /\ [Next]_vars => TInv'
<1> SUFFICES ASSUME IInv, TInv, [Next]_vars PROVE TInv'
  BY Zenon
<1>1. CASE MainStep
  <2>1. ASSUME NEW b \in BOOLEAN, NewInput(b) \/ FunctionReturns(b) \/ FiredReturns(b)
        PROVE  TInv'
    BY <2>1, QuietMainSteps, Zenon
  <2>2. CASE Wait BY <2>2, WaitAttends, Zenon
  <2>3. CASE \/ CheckEmpty \/ CheckMethod \/ MethodReturns \/ DispatchEmpty \/ DispatchFunction
             \/ OwnMethodReturns \/ DisposeObject \/ DestroyApplication
    BY <2>3, QuietMainSteps, Zenon
  <2>4. CASE SharedTimerFired \/ FireTimer \/ SharedTimerDone BY <2>4, FiringAttends, Zenon
  <2>5. CASE TimerDelete \/ TimerDeleted BY <2>5, TimerDeleteAttends, Zenon
  <2> QED BY <1>1, <2>1, <2>2, <2>3, <2>4, <2>5, Zenon DEF MainStep
<1>2. CASE NewInputQuit BY <1>2, QuietMainSteps, Zenon
<1>3. CASE ClientStep
  <2>1. ASSUME NEW m, NEW time, NEW repeat,
               ClientStartTimer(m, time, repeat) \/ ClientStopTimer(m)
        PROVE  TInv'
    BY <2>1, ClientTimersAttend, Zenon
  <2>2. ASSUME NEW id, ClientRemoveJob(id) PROVE TInv' BY <2>2, QuietClientSteps, Zenon
  <2>3. CASE ClientNestedEventLoop BY <2>3, ClientTimersAttend, Zenon
  <2>4. CASE ClientCallOnMainThread \/ ClientPause \/ ClientUnpause \/ ClientPush
    BY <2>4, QuietClientSteps, Zenon
  <2> QED BY <1>3, <2>1, <2>2, <2>3, <2>4, Zenon DEF ClientStep
<1>4. CASE TimerStep \/ ClockStep BY <1>4, TimerTaskAttends
<1>5. ASSUME NEW w \in Workers,
             WorkerStep(w) \/ WorkerCall(w) \/ WorkerPush(w) \/ WorkerPushSync(w)
      PROVE  TInv'
  BY <1>5, QuietOtherSteps, Zenon
<1>6. ASSUME NEW bit, Input(bit) PROVE TInv' BY <1>6, QuietOtherSteps, Zenon
<1>7. CASE UNCHANGED vars BY <1>7, QuietOtherSteps, Zenon
<1> QED BY <1>1, <1>2, <1>3, <1>4, <1>5, <1>6, <1>7, Zenon DEF Next

\* Whatever timers the application starts and stops, from wherever, and however
\* Start, Stop and Timer signals cross at the timer task, main_loop() never goes
\* to Wait() with timers in the heap that nobody will wake it for.
THEOREM TimersAreAttended == Spec => []NoStrandedTimer
<1>1. Init => TInv
  <2> SUFFICES ASSUME Init PROVE TInv
    OBVIOUS
  <2>1. stack = <<>> /\ pc = "input" BY Zenon DEF Init
  <2>2. EventsAtBottom BY <2>1 DEF EventsAtBottom, Events
  <2> QED BY <2>2, Zenon DEF Init, TimerInit, TInv
<1>2. IInv /\ TInv => NoStrandedTimer
  <2> SUFFICES ASSUME IInv, TInv, pc = "wait", m_timerHeap # <<>>
               PROVE  Attended
    BY Zenon DEF NoStrandedTimer, Attended
  <2>1. stack = <<>> BY Zenon DEF IInv, StackOK, Resting, Bottom
  <2>2. \A l : ~InStack(l) BY <2>1 DEF InStack
  <2>3. ~At(Coming) /\ ~At(Firing) /\ ~Ended BY <2>2, Zenon DEF At, Coming, Firing, Ended
  <2> QED BY <2>3, Zenon DEF TInv
<1>3. IInv /\ TInv /\ [Next]_vars => TInv' BY NextAttends, Zenon
<1> QED BY <1>1, <1>2, <1>3, Invariance, PTL DEF Spec
=============================================================================
