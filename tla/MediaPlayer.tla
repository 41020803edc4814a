----------------------------- MODULE MediaPlayer -----------------------------
(***************************************************************************)
(* The media player of the MUI port, MediaPlayerPrivateMorphOS.cpp: the    *)
(* main thread, which sends commands, receives the file, paints frames and *)
(* destroys the player; the player thread, which obeys the commands and    *)
(* demuxes; and one decoder thread for each stream of the file.            *)
(*                                                                         *)
(* A mutex is only held for a moment, except across the wait on its        *)
(* condition, so a critical section is one step.  running, m_startedPlaying*)
(* and m_isSeeking are read and written without a lock.                    *)
(***************************************************************************)
EXTENDS Naturals, FiniteSets, Queues

CONSTANTS Streams,         \* the streams of the file, a subset of these two:
          Video, Audio,
          PacketBound,     \* packets that are in a queue, at most
          CommandBound,    \* commands that the page leaves waiting, at most
          FrameBound       \* frames that are decoded, at most

ASSUME MediaAssumption == /\ Streams \subseteq {Video, Audio}
                          /\ PacketBound \in Nat /\ CommandBound \in Nat
                          /\ FrameBound \in Nat

VARIABLES main,            \* "ready", in the destructor ("stopping"), or "gone"
          network,         \* the next read: "none" before the response, "waiting",
                           \* or "data", which may also be the end or an error
          mainQueue,       \* ids of the paint jobs queued for the main thread
          pendingPaints,   \* m_pendingPaintQueue
          nextId,          \* the next job id
          commands,        \* m_commandQueue
          ctxRunning,      \* running of the FFMpegContext
          started, seeking, opened,
          player,          \* where the player thread is
          readall,         \* its local of that name, TRUE only in the loop of PLAY
          decoder,         \* where each decoder thread is
          queue,           \* video_queue and audio_queue
          wanted           \* what the page wants: the last of play() and pause(), or
                           \* "any" when a seek went on playing with a pause in the
                           \* queue, or was not needed and ended the demuxing

mainVars == <<main, network, mainQueue, pendingPaints, nextId>>
flags == <<ctxRunning, started, seeking, opened>>
mediaVars == <<mainVars, commands, flags, player, readall, decoder, queue, wanted>>

MediaInit == /\ main = "ready"
             /\ network = "none"
             /\ mainQueue = <<>>
             /\ pendingPaints = <<>>
             /\ nextId = 1
             /\ commands = <<>>
             /\ ctxRunning = FALSE
             /\ started = FALSE
             /\ seeking = FALSE
             /\ opened = FALSE
             /\ player = "new"
             /\ readall = FALSE
             /\ decoder = [s \in Streams |-> "none"]
             /\ queue = [s \in Streams |-> <<>>]
             /\ wanted = "pause"

\* sendCommand(): a seek takes the place of one that is last in the queue.
Queued(cmd) ==
    IF cmd = "seek" /\ commands # <<>> /\ commands[Len(commands)] = "seek"
    THEN commands ELSE Append(commands, cmd)

\* m_condition.signal() wakes the player thread.
SendCommand(cmd) ==
    /\ commands' = Queued(cmd)
    /\ player' = IF player = "asleep" THEN "command" ELSE player

-----------------------------------------------------------------------------
(* The main thread.                                                        *)

Ready == main = "ready" /\ Len(commands) < CommandBound

\* didReceiveResponse(), the first time.
ReceiveResponse ==
    /\ Ready
    /\ network = "none"
    /\ network' = "waiting"
    /\ SendCommand("load")
    /\ UNCHANGED <<main, mainQueue, pendingPaints, nextId, flags, readall, decoder, queue,
                   wanted>>

\* didReceiveData() and didFailLoading()
ReceiveData ==
    /\ main = "ready"
    /\ network = "waiting"
    /\ network' = "data"
    /\ UNCHANGED <<main, mainQueue, pendingPaints, nextId, commands, flags, player, readall,
                   decoder, queue, wanted>>

\* play() and pause()
PlayOrPause(cmd) ==
    /\ Ready
    /\ SendCommand(cmd)
    /\ wanted' = cmd
    /\ UNCHANGED <<mainVars, flags, readall, decoder, queue>>

\* seek()
Seek ==
    /\ main = "ready"
    /\ Len(Queued("seek")) <= CommandBound
    /\ network # "none"
    /\ seeking' = TRUE
    /\ SendCommand("seek")
    /\ UNCHANGED <<mainVars, ctxRunning, started, opened, readall, decoder, queue, wanted>>

\* Mutant: the newest job id is forgotten.
PaintForgetsNewest ==
    /\ main = "ready"
    /\ mainQueue # <<>>
    /\ mainQueue' = Tail(mainQueue)
    /\ pendingPaints' = SubSeq(pendingPaints, 1, Len(pendingPaints) - 1)
    /\ UNCHANGED <<main, network, nextId, commands, flags, player, readall, decoder, queue,
                   wanted>>

\* playerPaint(): the oldest job id is forgotten, if there is one.
Paint ==
    /\ main = "ready"
    /\ mainQueue # <<>>
    /\ mainQueue' = Tail(mainQueue)
    /\ pendingPaints' = IF pendingPaints = <<>> THEN <<>> ELSE Tail(pendingPaints)
    /\ UNCHANGED <<main, network, nextId, commands, flags, player, readall, decoder, queue,
                   wanted>>

\* Mutant: the player thread is not told.
DestroySilently ==
    /\ main = "ready"
    /\ main' = "stopping"
    /\ started' = FALSE
    /\ ctxRunning' = FALSE
    /\ wanted' = "any"
    /\ UNCHANGED <<network, mainQueue, pendingPaints, nextId, commands, seeking, opened,
                   player, readall, decoder, queue>>

\* The destructor, up to the wait for the player thread,
Destroy ==
    /\ main = "ready"
    /\ main' = "stopping"
    /\ started' = FALSE
    /\ ctxRunning' = FALSE
    /\ SendCommand("stop")
    /\ wanted' = "any"
    /\ UNCHANGED <<network, mainQueue, pendingPaints, nextId, seeking, opened, readall,
                   decoder, queue>>

\* and from there.
Destroyed ==
    /\ main = "stopping"
    /\ player = "bye"
    /\ main' = "gone"
    /\ mainQueue' = SelectSeq(mainQueue, LAMBDA id : ~Contains(pendingPaints, id))
    /\ UNCHANGED <<network, pendingPaints, nextId, commands, flags, player, readall, decoder,
                   queue, wanted>>

-----------------------------------------------------------------------------
(* The player thread: playerLoop().                                        *)

Player(from, to) == player = from /\ player' = to

Hello ==
    /\ Player("new", "loop")
    /\ ctxRunning' = TRUE
    /\ UNCHANGED <<mainVars, commands, started, seeking, opened, readall, decoder, queue, wanted>>

Loop ==
    /\ Player("loop", IF ctxRunning THEN "command" ELSE "joinVideo")
    /\ UNCHANGED <<mainVars, commands, flags, readall, decoder, queue, wanted>>

\* waitCommand(), without a command
Sleep ==
    /\ commands = <<>>
    /\ Player("command", "asleep")
    /\ UNCHANGED <<mainVars, commands, flags, readall, decoder, queue, wanted>>

\* and with one.  STOP, PAUSE and the start of PLAY are done at once.
TakeCommand ==
    /\ commands # <<>>
    /\ commands' = Tail(commands)
    /\ LET cmd == Head(commands)
           plays == cmd = "play" /\ opened
       IN  /\ Player("command", CASE cmd = "load" /\ ~opened -> "opening"
                                  [] cmd = "seek" -> "seek"
                                  [] plays -> "demux"
                                  [] OTHER -> "loop")
           /\ ctxRunning' = (ctxRunning /\ cmd # "stop")
           /\ started' = ((started /\ cmd # "pause") \/ plays)
    /\ UNCHANGED <<mainVars, seeking, opened, readall, decoder, queue, wanted>>

\* read_callback() waits for data, an error, or the end of the player.
MayRead == network = "data" \/ ~ctxRunning

\* FFMpegContext::open().  The streams are looked at only while running.
Open ==
    /\ MayRead
    /\ Player("opening", "loop")
    /\ opened' \in IF network = "data" THEN BOOLEAN ELSE {FALSE}
    /\ decoder' = IF opened' /\ ctxRunning THEN [s \in Streams |-> "head"] ELSE decoder
    /\ network' \in {network, "waiting"}
    /\ UNCHANGED <<main, mainQueue, pendingPaints, nextId, commands, ctxRunning, started, seeking,
                   readall, queue, wanted>>

\* Mutant: m_isSeeking stays set.
SeekForgotten ==
    /\ Player("seek", "loop")
    /\ wanted' = IF started THEN "any" ELSE wanted
    /\ UNCHANGED <<mainVars, commands, flags, readall, decoder, queue>>

\* IPC_CMD_SEEK: nothing to do, or
SeekNotNeeded ==
    /\ Player("seek", "loop")
    /\ seeking' = FALSE
    /\ wanted' = IF started THEN "any" ELSE wanted
    /\ UNCHANGED <<mainVars, commands, ctxRunning, started, opened, readall, decoder, queue>>

\* the packets of each stream give way to a flush packet, if ac_seek() works,
\* and the player tells itself to go on.
SeekStreams ==
    /\ opened
    /\ Player("seek", "loop")
    /\ \E works \in SUBSET Streams :
           queue' = [s \in Streams |-> IF s \in works THEN <<"flush">> ELSE queue[s]]
    /\ seeking' = (seeking /\ ~ctxRunning)
    /\ commands' = IF ctxRunning /\ started THEN Queued("play") ELSE commands
    /\ wanted' = IF ctxRunning /\ started /\ Contains(commands, "pause") THEN "any" ELSE wanted
    /\ UNCHANGED <<mainVars, ctxRunning, started, opened, readall, decoder>>

Packets(s) == Len(SelectSeq(queue[s], LAMBDA p : p = "packet"))

\* Mutant: nobody is signalled.
NoSignal(s) == decoder

\* video_condition->signal(), audio_condition->signal()
Signalled(s) == [decoder EXCEPT ![s] = IF @ = "asleep" THEN "woken" ELSE @]

\* The loop of IPC_CMD_PLAY ends with the next command.
AfterDemux == IF commands = <<>> /\ ctxRunning THEN "demux" ELSE "loop"

\* demux(): nothing while a queue is full, which only the sizes of the packets
\* can tell, or the next packet: of some stream, of no use, or none.
Demux ==
    /\ Player("demux", AfterDemux)
    /\ ~readall
    /\ \/ /\ \E s \in Streams : Packets(s) > 0
          /\ UNCHANGED <<network, readall, decoder, queue>>
       \/ /\ MayRead
          /\ network' \in {network, "waiting"}
          /\ \/ \E s \in Streams :
                /\ network = "data"
                /\ Packets(s) < PacketBound
                /\ queue' = [queue EXCEPT ![s] = Append(@, "packet")]
                /\ decoder' = Signalled(s)
                /\ UNCHANGED readall
             \/ network = "data" /\ UNCHANGED <<readall, decoder, queue>>
             \/ readall' = (AfterDemux = "demux") /\ UNCHANGED <<decoder, queue>>
    /\ UNCHANGED <<main, mainQueue, pendingPaints, nextId, commands, flags, wanted>>

\* Mutant: didEnd() leaves m_startedPlaying.
DrainGoesOn ==
    /\ readall
    /\ Player("demux", IF \A s \in Streams : queue[s] = <<>> THEN "loop" ELSE AfterDemux)
    /\ readall' = (player' = "demux")
    /\ UNCHANGED <<mainVars, commands, flags, decoder, queue, wanted>>

\* All is read: when the queues are empty, didEnd().
Drain ==
    /\ readall
    /\ IF \A s \in Streams : queue[s] = <<>>
       THEN Player("demux", "loop") /\ started' = (started /\ ~ctxRunning)
       ELSE Player("demux", AfterDemux) /\ UNCHANGED started
    /\ readall' = (player' = "demux")
    /\ UNCHANGED <<mainVars, commands, ctxRunning, seeking, opened, decoder, queue, wanted>>

\* A decoder thread that runs is signalled once, and waited for.
StopDecoder(s, from, at, next) ==
    /\ IF s \in Streams /\ decoder[s] \notin {"none", "bye"}
       THEN Player(from, at) /\ decoder' = Signalled(s)
       ELSE Player(from, next) /\ UNCHANGED decoder
    /\ UNCHANGED <<mainVars, commands, flags, readall, queue, wanted>>

DecoderEnded(s, at, next) ==
    /\ s \in Streams
    /\ decoder[s] = "bye"
    /\ Player(at, next)
    /\ UNCHANGED <<mainVars, commands, flags, readall, decoder, queue, wanted>>

\* FFMpegContext::close()
Close ==
    /\ Player("close", "bye")
    /\ opened' = FALSE
    /\ UNCHANGED <<mainVars, commands, ctxRunning, started, seeking, readall, decoder, queue, wanted>>

PlayerStep == \/ Hello \/ Loop \/ Sleep \/ TakeCommand \/ Open
              \/ SeekNotNeeded \/ SeekStreams \/ Demux \/ Drain
              \/ StopDecoder(Video, "joinVideo", "videoJoin", "joinAudio")
              \/ DecoderEnded(Video, "videoJoin", "joinAudio")
              \/ StopDecoder(Audio, "joinAudio", "audioJoin", "close")
              \/ DecoderEnded(Audio, "audioJoin", "close")
              \/ Close

-----------------------------------------------------------------------------
(* A decoder thread: videoDecoder(), audioDecoder().                       *)

Decoder(s, from, to) == decoder[s] = from /\ decoder' = [decoder EXCEPT ![s] = to]

\* while(m_ctx->running): sleep a while when not playing, or seeking.  After
\* the loop the queue is emptied.
DecoderLoop(s) ==
    /\ Decoder(s, "head", IF ~ctxRunning THEN "bye"
                          ELSE IF ~started \/ seeking THEN "head" ELSE "take")
    /\ queue' = IF ctxRunning THEN queue ELSE [queue EXCEPT ![s] = <<>>]
    /\ UNCHANGED <<mainVars, commands, flags, player, readall, wanted>>

\* The player thread is waiting for the end of this one.
Joined(s) == player = IF s = Video THEN "videoJoin" ELSE "audioJoin"

\* A packet from the queue, or a wait on the condition: "late" is a wait that
\* begins after the last signal.
Take(s) ==
    /\ IF queue[s] = <<>>
       THEN Decoder(s, "take", IF Joined(s) THEN "late" ELSE "asleep") /\ UNCHANGED queue
       ELSE /\ Decoder(s, "take", IF Head(queue[s]) = "flush" THEN "head" ELSE "decode")
            /\ queue' = [queue EXCEPT ![s] = Tail(@)]
    /\ UNCHANGED <<mainVars, commands, flags, player, readall, wanted>>

WakeUp(s) ==
    /\ IF ~ctxRunning \/ queue[s] = <<>>
       THEN Decoder(s, "woken", "head") /\ UNCHANGED queue
       ELSE /\ Decoder(s, "woken", IF Head(queue[s]) = "flush" THEN "head" ELSE "decode")
            /\ queue' = [queue EXCEPT ![s] = Tail(@)]
    /\ UNCHANGED <<mainVars, commands, flags, player, readall, wanted>>

\* A decoded video frame is painted by the main thread: the job is queued
Decode(s) ==
    /\ \/ /\ Decoder(s, "decode", "head")
          /\ UNCHANGED <<mainQueue, nextId>>
       \/ /\ s = Video
          /\ nextId <= FrameBound
          /\ Decoder(s, "decode", "posted")
          /\ mainQueue' = Append(mainQueue, nextId)
          /\ nextId' = nextId + 1
    /\ UNCHANGED <<main, network, pendingPaints, commands, flags, player, readall, queue, wanted>>

\* and then its id is kept, so that it can be cancelled.
KeepId(s) ==
    /\ Decoder(s, "posted", "head")
    /\ pendingPaints' = Append(pendingPaints, nextId - 1)
    /\ UNCHANGED <<main, network, mainQueue, nextId, commands, flags, player, readall, queue,
                   wanted>>

DecoderStep(s) == \/ DecoderLoop(s) \/ Take(s) \/ WakeUp(s) \/ Decode(s) \/ KeepId(s)

-----------------------------------------------------------------------------
MediaMainStep == \/ ReceiveResponse \/ ReceiveData \/ Seek \/ Paint \/ Destroy \/ Destroyed
                 \/ \E cmd \in {"play", "pause"} : PlayOrPause(cmd)

MediaNext == MediaMainStep \/ PlayerStep \/ \E s \in Streams : DecoderStep(s)

MediaSpec == MediaInit /\ [][MediaNext]_mediaVars

\* Threads that can go on do; the page may do as it likes, but the destructor
\* returns when it can.
FairMediaSpec == /\ MediaSpec
                 /\ WF_mediaVars(PlayerStep)
                 /\ WF_mediaVars(Destroyed)
                 /\ \A s \in Streams : WF_mediaVars(DecoderStep(s))

-----------------------------------------------------------------------------
\* No paint job outlives the player: when the destructor cancels the paint
\* jobs whose ids it knows, these are all that are queued, however the
\* decoder's post, its note of the id and the main thread's paints interleave.
PaintsKnown ==
    main = "stopping" /\ player = "bye" =>
        \A i \in DOMAIN mainQueue : \E k \in DOMAIN pendingPaints :
            pendingPaints[k] = mainQueue[i]

\* No packet waits for a decoder that sleeps: demux() signals what it appends.
\* Only the flush packet of a seek is put there without a signal.
NoPacketUnseen ==
    \A s \in Streams : decoder[s] = "asleep" => queue[s] \in {<<>>, <<"flush">>}

\* After the last packet the queues are emptied and playing ends, or a command
\* ends it -- unless that flush packet is all that a sleeping decoder has, and
\* with nothing left to read nothing wakes it.
FlushUnseen == \E s \in Streams : decoder[s] = "asleep" /\ queue[s] = <<"flush">>
EndIsReached == player = "demux" /\ readall ~> player # "demux" \/ FlushUnseen

\* A thread waits for what will not come: a decoder that looked at running
\* before it was cleared went to sleep after the only signal, or the player
\* thread set running again after the destructor had cleared it, and waits
\* for data that only the main thread could bring.
SleptThroughSignal == \E s \in Streams : decoder[s] = "late"
Revived == ctxRunning /\ player \in {"opening", "demux"} /\ ~MayRead

\* The destructor, on the main thread, returns -- unless one of the two
\* happens.
DestructorReturns ==
    main = "stopping" ~> main = "gone" \/ SleptThroughSignal \/ Revived

\* When all commands are obeyed, the player does what the page asked for
\* last: after play() it demuxes until the end of the file, after pause() it
\* is not playing -- unless a seek came in the way.
ObeysThePage ==
    commands = <<>> /\ opened /\ started =>
        /\ player = "asleep" => wanted = "any"
        /\ player = "demux" => wanted # "pause"
=============================================================================
