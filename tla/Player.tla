------------------------------ MODULE Player --------------------------------
(***************************************************************************)
(* The player of 0_hello_ffmpeg (vPlayer_sdl2.cpp).  A refresh thread      *)
(* pushes an event per frame time into SDL's queue; main waits for events, *)
(* reads, decodes and shows.  The two share the flags exit and pause, which*)
(* both of them write and no lock protects, and they end with each other:  *)
(* main sets exit, the thread answers with BREAK, main leaves on BREAK.    *)
(*                                                                         *)
(* A file is a sequence of packets; a "damaged" one is refused by          *)
(* avcodec_send_packet.  The decoder gives a frame back when it has more   *)
(* than DecoderDelay of them or is being drained.  Its errors other than   *)
(* EAGAIN and EOF make the loop ask again and are left out.                *)
(***************************************************************************)
EXTENDS Integers, SequencesExt

CONSTANTS Files,        \* sequences of "video", "other" and "damaged"
          DecoderDelay, \* frames that the decoder keeps for reordering
          QueueMax,     \* SDL_MAX_QUEUED_EVENTS
          MaxKeys       \* bound on the user's events

ASSUME PlayerAssumption ==
  /\ Files \subseteq Seq({"video", "other", "damaged"})
  /\ DecoderDelay \in Nat /\ QueueMax \in Nat \ {0} /\ MaxKeys \in Nat

VARIABLES
  file,       \* the packets of the file that is played
  pos,        \* packets read from it
  packet,     \* the number of the packet read last, or Blank
  held,       \* packets inside of the decoder
  draining,   \* the decoder got the blank packet
  shown,      \* packets whose frames were rendered
  exit,       \* g_sfp_refresh_thread_exit
  pause,      \* g_sfp_refresh_thread_pause
  queue,      \* SDL's event queue
  breakLost,  \* the queue was full when BREAK was pushed
  thread,     \* where sfp_refresh_thread is
  main,       \* where vPlayer_sdl is
  keys,       \* events of the user so far
  quit        \* the user's quit was handled

flags   == <<exit, pause>>
decoder == <<file, pos, packet, held, draining, shown>>
user    == <<keys, quit>>
playerVars == <<decoder, flags, queue, breakLost, thread, main, user>>

Blank == 0

Events == {"REFRESH", "BREAK", "SPACE", "QUIT"}

(* SDL_PushEvent: a full queue drops the event.                            *)
Full == Len(queue) = QueueMax
PushEvent(e) == queue' = IF Full THEN queue ELSE Append(queue, e)

-----------------------------------------------------------------------------
PlayerInit == /\ file \in Files
              /\ pos = 0
              /\ packet = Blank
              /\ held = << >>
              /\ draining = FALSE
              /\ shown = << >>
              /\ exit = FALSE
              /\ pause = FALSE
              /\ queue = << >>
              /\ breakLost = FALSE
              /\ thread = "none"
              /\ main = "init"
              /\ keys = 0
              /\ quit = FALSE

(* The refresh thread.  Its first statements clear the flags, so a quit or *)
(* a pause that main handled before is forgotten.                          *)
StartThread ==
  /\ thread = "created"
  /\ exit' = FALSE
  /\ pause' = FALSE
  /\ thread' = "loop"
  /\ UNCHANGED <<decoder, queue, breakLost, main, user>>

Refresh ==
  /\ thread = "loop"
  /\ ~exit
  /\ IF pause THEN UNCHANGED queue ELSE PushEvent("REFRESH")
  /\ UNCHANGED <<decoder, flags, breakLost, thread, main, user>>

(* Mutant of LeaveLoop: a paused thread does not look at exit.             *)
LeaveUnlessPaused ==
  /\ thread = "loop"
  /\ exit
  /\ ~pause
  /\ thread' = "left"
  /\ UNCHANGED <<decoder, flags, queue, breakLost, main, user>>

LeaveLoop ==
  /\ thread = "loop"
  /\ exit
  /\ thread' = "left"
  /\ UNCHANGED <<decoder, flags, queue, breakLost, main, user>>

ClearFlags ==
  /\ thread = "left"
  /\ exit' = FALSE
  /\ pause' = FALSE
  /\ thread' = "break"
  /\ UNCHANGED <<decoder, queue, breakLost, main, user>>

(* BREAK is in the queue, and main may take it, before SDL_PushEvent       *)
(* returns; nothing waits for the thread.                                  *)
PushBreak ==
  /\ thread = "break"
  /\ PushEvent("BREAK")
  /\ breakLost' = Full
  /\ thread' = "returning"
  /\ UNCHANGED <<decoder, flags, main, user>>

Return ==
  /\ thread = "returning"
  /\ thread' = "done"
  /\ UNCHANGED <<decoder, flags, queue, breakLost, main, user>>

RefreshThread == \/ StartThread \/ Refresh \/ LeaveLoop
                 \/ ClearFlags \/ PushBreak \/ Return

-----------------------------------------------------------------------------
(* init_ffmpeg and init_sdl.  When the first one fails, release_sdl is     *)
(* called with a null pointer and reads through it; when the second one    *)
(* fails there is no thread.  Whether SDL_CreateThread fails is not looked *)
(* at: main then waits without a thread.                                   *)
Start ==
  /\ main = "init"
  /\ \/ main' = "crashed" /\ UNCHANGED thread
     \/ main' = "end" /\ UNCHANGED thread
     \/ main' = "wait" /\ thread' \in {"created", "none"}
  /\ UNCHANGED <<decoder, flags, queue, breakLost, user>>

WaitEvent(e) ==
  /\ main = "wait"
  /\ queue # << >>
  /\ e = Head(queue)
  /\ queue' = Tail(queue)

HandleRefresh ==
  /\ WaitEvent("REFRESH")
  /\ main' = "read"
  /\ UNCHANGED <<decoder, flags, breakLost, thread, user>>

(* Mutant of HandleQuit: main leaves by itself.                            *)
QuitLeaves ==
  /\ WaitEvent("QUIT")
  /\ main' = "end"
  /\ quit' = TRUE
  /\ UNCHANGED <<decoder, flags, breakLost, thread, keys>>

(* 'q' or the closing of the window.                                       *)
HandleQuit ==
  /\ WaitEvent("QUIT")
  /\ exit' = TRUE
  /\ quit' = TRUE
  /\ UNCHANGED <<decoder, pause, breakLost, thread, main, keys>>

HandleSpace ==
  /\ WaitEvent("SPACE")
  /\ pause' = ~pause
  /\ UNCHANGED <<decoder, exit, breakLost, thread, main, user>>

HandleBreak ==
  /\ WaitEvent("BREAK")
  /\ main' = "end"
  /\ UNCHANGED <<decoder, flags, breakLost, thread, user>>

(* av_read_frame until a packet of the video stream comes, or none does.   *)
NextVideo == {i \in pos + 1..Len(file) : file[i] # "other"}

(* Mutant of ReadFrame: no blank packet is sent at the end of the file.    *)
ReadWithoutFlush ==
  /\ main = "read"
  /\ pos' = IF NextVideo = {} THEN Len(file) ELSE Min(NextVideo)
  /\ packet' = IF NextVideo = {} THEN Blank ELSE Min(NextVideo)
  /\ exit' = (exit \/ NextVideo = {})
  /\ main' = IF NextVideo = {} THEN "wait" ELSE "send"
  /\ UNCHANGED <<file, held, draining, shown, pause, queue, breakLost, thread, user>>

ReadFrame ==
  /\ main = "read"
  /\ \/ /\ NextVideo = {}
        /\ pos' = Len(file) /\ packet' = Blank /\ exit' = TRUE
     \/ \E i \in NextVideo :
          /\ \A j \in NextVideo : i <= j
          /\ pos' = i /\ packet' = i /\ UNCHANGED exit
  /\ main' = "send"
  /\ UNCHANGED <<file, held, draining, shown, pause, queue, breakLost, thread, user>>

(* avcodec_send_packet fails when the decoder was drained before, or for a *)
(* damaged packet.                                                         *)
Refused == draining \/ (packet # Blank /\ file[packet] = "damaged")

SendPacket ==
  /\ main = "send"
  /\ exit' = (exit \/ Refused)
  /\ draining' = (draining \/ packet = Blank)
  /\ held' = IF Refused \/ packet = Blank THEN held ELSE Append(held, packet)
  /\ main' = "receive"
  /\ UNCHANGED <<file, pos, packet, shown, pause, queue, breakLost, thread, user>>

(* avcodec_receive_frame, conversion and rendering.                        *)
FrameIsReady == held # << >> /\ (draining \/ Len(held) > DecoderDelay)

ShowFrame ==
  /\ main = "receive"
  /\ FrameIsReady
  /\ shown' = Append(shown, Head(held))
  /\ held' = Tail(held)
  /\ UNCHANGED <<file, pos, packet, draining, flags, queue, breakLost, thread, main, user>>

(* EOF sets exit, EAGAIN does not.                                         *)
EndOfFrames ==
  /\ main = "receive"
  /\ ~FrameIsReady
  /\ exit' = (exit \/ draining)
  /\ main' = "wait"
  /\ UNCHANGED <<decoder, pause, queue, breakLost, thread, user>>

(* release_ffmpeg and release_sdl.                                         *)
Release ==
  /\ main = "end"
  /\ main' = "done"
  /\ UNCHANGED <<decoder, flags, queue, breakLost, thread, user>>

Main == \/ Start \/ HandleRefresh \/ HandleQuit \/ HandleSpace \/ HandleBreak
        \/ ReadFrame \/ SendPacket \/ ShowFrame \/ EndOfFrames \/ Release

(* The user presses space or quits while main looks at the queue.          *)
Press(e) ==
  /\ keys < MaxKeys
  /\ main \in {"wait", "read", "send", "receive"}
  /\ keys' = keys + 1
  /\ PushEvent(e)
  /\ UNCHANGED <<decoder, flags, breakLost, thread, main, quit>>

PlayerNext == RefreshThread \/ Main \/ (\E e \in {"SPACE", "QUIT"} : Press(e))

PlayerSpec == PlayerInit /\ [][PlayerNext]_playerVars

(* Both threads run; the user may do nothing.                              *)
FairPlayerSpec == PlayerSpec /\ WF_playerVars(RefreshThread) /\ WF_playerVars(Main)

-----------------------------------------------------------------------------
PlayerTypeOK == /\ file \in Files
                /\ pos \in 0..Len(file)
                /\ packet \in 0..Len(file)
                /\ held \in Seq(1..Len(file))
                /\ shown \in Seq(1..Len(file))
                /\ draining \in BOOLEAN /\ exit \in BOOLEAN /\ pause \in BOOLEAN
                /\ breakLost \in BOOLEAN /\ quit \in BOOLEAN
                /\ queue \in Seq(Events) /\ Len(queue) <= QueueMax
                /\ thread \in {"none", "created", "loop", "left", "break",
                               "returning", "done"}
                /\ main \in {"init", "wait", "read", "send", "receive",
                             "end", "done", "crashed"}
                /\ keys \in 0..MaxKeys

(* When main leaves its loop, to shut SDL down, the refresh thread has     *)
(* pushed its last event and written the flags for the last time, or never *)
(* came to be.  It may still be returning, out of SDL_PushEvent too: main  *)
(* does not join it.                                                       *)
LastEventAtRelease ==
  main \in {"end", "done"} => thread \in {"none", "returning", "done"}

(* The types, and the order of the end of the two threads.                 *)
Inv == PlayerTypeOK /\ LastEventAtRelease

(* Frames are shown in the order of the file, none twice and none left     *)
(* out; and a player whose user did not quit has shown every frame of an   *)
(* intact file when it ends, those that the decoder keeps until it is      *)
(* drained included, whatever was paused and however many refreshes were   *)
(* dropped.                                                                *)
Videos == {i \in DOMAIN file : file[i] = "video"}
Intact == "damaged" \notin Range(file)
AllFramesShown ==
  /\ \A i, j \in DOMAIN shown : i < j => shown[i] < shown[j]
  /\ Range(shown) \subseteq Videos
  /\ \A i \in DOMAIN shown, v \in Videos : v < shown[i] => v \in Range(shown)
  /\ thread # "none" /\ main \in {"end", "done"} /\ Intact /\ ~quit
       => Range(shown) = Videos

(* An exit that the thread can still see ends the player, also when it is  *)
(* paused; and the end of the file does, unless the user leaves it paused. *)
(* A BREAK that found the queue full leaves main waiting for ever, and so  *)
(* does a thread that could not be created.                                *)
NoThread == main = "wait" /\ thread = "none"
Over == main \in {"done", "crashed"} \/ breakLost \/ NoThread
Ends == /\ thread = "loop" /\ exit ~> Over
        /\ <>[]pause \/ <>Over
=============================================================================
