------------------------------ MODULE ShareCore ------------------------------
(***************************************************************************)
(* The native core that publishes a screen and a camera (share.rs,          *)
(* publisher.rs) and the threads it starts: the capture of each source      *)
(* (capture.rs, camera/), the preview encoder (preview.rs) and the sound    *)
(* (audio.rs).                                                              *)
(*                                                                         *)
(* Sharing::live is a tokio mutex that a command keeps over every await, so *)
(* a command is a sequence of steps of the holder of the lock, while the    *)
(* threads and the connection go on.  A call of the interface that waits    *)
(* for the lock has done nothing yet, so it is a call made when the lock is *)
(* free.  The mutex serves its waiters in order, but a spawned give_up      *)
(* waits only from when it is first polled: any waiter may be next.         *)
(*                                                                         *)
(* LiveKit is external: a call to it succeeds or fails, and a room may be   *)
(* lost at any time.  Publisher::stop only logs a close that fails, but the *)
(* core has dropped the room by then and nothing of it is used again: that  *)
(* a dropped room carries nothing is the library's part.                    *)
(***************************************************************************)
EXTENDS Naturals, FiniteSets

CONSTANTS
  Rooms,        \* what a token opens: a room of LiveKit
  None,
  CloseReports, \* LiveKit may report a room that was closed as disconnected
  MaxFaults     \* model bound: failed calls, lost sources and lost connections

Sources == {"screen", "camera"}
Kinds   == {"video", "audio"}
Targets == {"silent", "system", "window"}   \* what start_audio is asked for
Modes   == {"excluding_discord", "only_window", "whole_system"}
Starts  == [op : {"start"}, source : {"screen"}, room : Rooms, sound : Targets] \cup
           [op : {"start"}, source : {"camera"}, room : Rooms, sound : {"silent"}]
Others  == [op : {"stop", "stats", "give_up"}, source : Sources]
Steps   == {"connect", "video", "audio", "capture", "sound", "preview", "open",
            "stop_capture", "stop_preview", "stop_sound", "unpublish", "close", "stats"}
Sids    == 1 .. MaxFaults + 1   \* enough: a track goes adrift once per fault
Tracks  == Sources \X Kinds \X Sids

ASSUME CoreAssumption ==
  /\ MaxFaults \in Nat
  /\ CloseReports \in BOOLEAN
  /\ None \notin Rooms \cup Modes \cup Starts \cup Others

VARIABLES
  due,       \* give_ups spawned that have not had the lock, by source
  holder,    \* the call that holds the lock, None if it is free
  at,        \* the holder's next step
  live,      \* Live::screen and Live::camera are Some
  publisher, \* Live::publisher: the room it joined, None
  up,        \* LiveKit: the connection is not lost
  held,      \* Publisher::screen and Publisher::camera, as tracks
  onAir,     \* LiveKit: the tracks it carries
  adrift,    \* history: those of onAir that a failed call left there
  capture,   \* the thread of a capture: none, running, leaving, ended
  stopping,  \* its stop flag
  preview,   \* the preview's thread: none, working, ended
  sound,     \* the mode of the sound's thread, None if there is none
  stray,     \* threads of sounds that answered too late, which no one joins
  told,      \* ENDED events on their way to the interface
  faults

lock    == <<holder, at>>
link    == <<publisher, up, held, onAir, adrift>>
threads == <<capture, stopping, preview, sound, stray>>
vars    == <<due, holder, at, live, publisher, up, held, onAir, adrift,
             capture, stopping, preview, sound, stray, told, faults>>

CoreTypeOK ==
  /\ due \in [Sources -> Nat]
  /\ holder \in Starts \cup Others \cup {None}
  /\ at \in Steps
  /\ live \in [Sources -> BOOLEAN]
  /\ publisher \in Rooms \cup {None}
  /\ up \in BOOLEAN
  /\ held \in [Sources -> SUBSET Tracks]
  /\ onAir \subseteq Tracks
  /\ adrift \subseteq Tracks
  /\ capture \in [Sources -> {"none", "running", "leaving", "ended"}]
  /\ stopping \in [Sources -> BOOLEAN]
  /\ preview \in [Sources -> {"none", "working", "ended"}]
  /\ sound \in Modes \cup {None}
  /\ stray \in Nat
  /\ told \subseteq Sources
  /\ faults \in 0 .. MaxFaults

Free == holder = None

Init ==
  /\ due = [s \in Sources |-> 0]
  /\ holder = None /\ at = "connect"
  /\ live = [s \in Sources |-> FALSE]
  /\ publisher = None /\ up = FALSE
  /\ held = [s \in Sources |-> {}] /\ onAir = {} /\ adrift = {}
  /\ capture = [s \in Sources |-> "none"]
  /\ stopping = [s \in Sources |-> FALSE]
  /\ preview = [s \in Sources |-> "none"]
  /\ sound = None /\ stray = 0
  /\ told = {} /\ faults = 0

Fault == faults < MaxFaults /\ faults' = faults + 1

-----------------------------------------------------------------------------
(* Commands and the lock.                                                   *)

\* The first step of release: the source is taken out of Live and its capture
\* told to stop; with no source there, the connection is asked to unpublish.
Detach(s) ==
  /\ live' = [live EXCEPT ![s] = FALSE]
  /\ stopping' = [stopping EXCEPT ![s] = live[s]]
  /\ at' = IF live[s] THEN "stop_capture" ELSE "unpublish"

\* share_start and camera_start, up to connect: a source is live only once.
TakeStart(call) ==
  /\ Free
  /\ ~live[call.source]
  /\ holder' = call /\ at' = "connect"
  /\ UNCHANGED <<due, live, link, threads, told, faults>>

\* share_stop and camera_stop.
TakeStop(s) ==
  /\ Free
  /\ holder' = [op |-> "stop", source |-> s] /\ Detach(s)
  /\ UNCHANGED <<due, link, capture, preview, sound, stray, told, faults>>

\* share_stats and camera_stats answer None unless the source is live.
TakeStats(s) ==
  /\ Free /\ publisher # None /\ live[s]
  /\ holder' = [op |-> "stats", source |-> s] /\ at' = "stats"
  /\ UNCHANGED <<due, live, link, threads, told, faults>>

\* Mutant: give_up reports and lets the core believe the source is live.
TakeGiveUpTold(s) ==
  /\ Free /\ due[s] > 0
  /\ due' = [due EXCEPT ![s] = @ - 1]
  /\ told' = told \cup {s}
  /\ UNCHANGED <<lock, live, link, threads, faults>>

\* The task give_up spawned has the lock: it releases the source there is now.
TakeGiveUp(s) ==
  /\ Free /\ due[s] > 0
  /\ due' = [due EXCEPT ![s] = @ - 1]
  /\ holder' = [op |-> "give_up", source |-> s] /\ Detach(s)
  /\ UNCHANGED <<link, capture, preview, sound, stray, told, faults>>

Holds(ops, step) == holder # None /\ holder.op \in ops /\ at = step

\* The end of a command: the lock goes back, and give_up emits ENDED.
Unlock ==
  /\ holder' = None /\ at' = "connect"
  /\ told' = IF holder.op = "give_up" THEN told \cup {holder.source} ELSE told

Goto(step) == at' = step /\ UNCHANGED <<holder, told>>

\* The interface hears ENDED.
Hear(s) ==
  /\ s \in told
  /\ told' = told \ {s}
  /\ UNCHANGED <<due, lock, live, link, threads, faults>>

-----------------------------------------------------------------------------
(* Starting a source.                                                       *)

\* connect: the connection there is, whatever room and token the call carries,
\* or a new one; a refused connection ends the command.
Connect ==
  /\ Holds({"start"}, "connect")
  /\ \/ /\ publisher # None
        /\ Goto(IF holder.source = "screen" THEN "video" ELSE "preview")
        /\ UNCHANGED <<link, faults>>
     \/ /\ publisher = None
        /\ publisher' = holder.room /\ up' = TRUE
        /\ held' = [s \in Sources |-> {}]
        /\ Goto(IF holder.source = "screen" THEN "video" ELSE "preview")
        /\ UNCHANGED <<onAir, adrift, faults>>
     \/ /\ publisher = None /\ Fault
        /\ Unlock
        /\ UNCHANGED link
  /\ UNCHANGED <<due, live, threads>>

\* publish_track succeeded: the new sid replaces the one the slot held.
OnAir(s, k) ==
  /\ up
  /\ \E n \in Sids :
       /\ <<s, k, n>> \notin onAir
       /\ \A i \in Sids : i < n => <<s, k, i>> \in onAir
       /\ onAir' = onAir \cup {<<s, k, n>>}
       /\ held' = [held EXCEPT ![s] = {t \in @ : t[2] # k} \cup {<<s, k, n>>}]
  /\ UNCHANGED <<publisher, up, adrift, faults>>

\* publish_track failed, as it does on a connection that is lost.
Refused == (up => Fault) /\ (~up => UNCHANGED faults)

\* publish_screen up to its audio; a refusal closes an idle connection.
PublishScreen ==
  /\ Holds({"start"}, "video") /\ holder.source = "screen"
  /\ \/ OnAir("screen", "video") /\ Goto(IF holder.sound = "silent" THEN "capture" ELSE "audio")
     \/ Refused /\ Goto("close") /\ UNCHANGED link
  /\ UNCHANGED <<due, live, threads>>

\* The rest of publish_screen: when the audio is refused the video stays, in
\* the slot of a screen that is not live.
PublishAudio ==
  /\ Holds({"start"}, "audio")
  /\ \/ OnAir("screen", "audio") /\ Goto("capture")
     \/ /\ Refused /\ Goto("close")
        /\ adrift' = adrift \cup (held["screen"] \cap onAir)
        /\ UNCHANGED <<publisher, up, held, onAir>>
  /\ UNCHANGED <<due, live, threads>>

Spawn(s) ==
  /\ capture' = [capture EXCEPT ![s] = "running"]
  /\ stopping' = [stopping EXCEPT ![s] = FALSE]

\* preview::start and capture::start: the thread runs, or the source is gone,
\* the Tap is dropped and the preview ends.
StartScreen ==
  /\ Holds({"start"}, "capture")
  /\ preview' = [preview EXCEPT !["screen"] = "working"]
  /\ \/ Spawn("screen") /\ Goto("sound") /\ UNCHANGED faults
     \/ Fault /\ Goto("stop_preview") /\ UNCHANGED <<capture, stopping>>
  /\ UNCHANGED <<due, live, link, sound, stray>>

\* open_client degrades one step at a time: the window alone, the system
\* without Discord, the whole system.  Any of them may be refused, and
\* without Discord running there is nothing to leave out.
OpenClient(target) ==
  IF target = "window" THEN Modes ELSE {"excluding_discord", "whole_system"}

\* start_audio: a share whose sound is refused goes on in silence; a thread
\* that does not answer within 5 s is told to stop and left alone.
StartSound ==
  /\ Holds({"start"}, "sound")
  /\ \/ holder.sound = "silent" /\ UNCHANGED <<sound, stray, faults>>
     \/ holder.sound # "silent" /\ sound' \in OpenClient(holder.sound) /\ UNCHANGED <<stray, faults>>
     \/ /\ holder.sound # "silent" /\ Fault
        /\ stray' \in {stray, stray + 1}
        /\ UNCHANGED sound
  /\ live' = [live EXCEPT !["screen"] = TRUE]
  /\ Unlock
  /\ UNCHANGED <<due, link, capture, stopping, preview>>

\* camera_start starts the preview and opens the camera on a thread of its own.
StartPreview ==
  /\ Holds({"start"}, "preview")
  /\ preview' = [preview EXCEPT !["camera"] = "working"]
  /\ Goto("open")
  /\ UNCHANGED <<due, live, link, capture, stopping, sound, stray, faults>>

OpenCamera ==
  /\ Holds({"start"}, "open")
  /\ \/ Spawn("camera") /\ Goto("video") /\ UNCHANGED faults
     \/ Fault /\ Goto("stop_preview") /\ UNCHANGED <<capture, stopping>>
  /\ UNCHANGED <<due, live, link, preview, sound, stray>>

\* Mutant: the refused camera's capture is left to itself.
PublishCameraDropped ==
  /\ Holds({"start"}, "video") /\ holder.source = "camera"
  /\ \/ /\ OnAir("camera", "video")
        /\ live' = [live EXCEPT !["camera"] = TRUE]
        /\ Unlock
        /\ UNCHANGED stopping
     \/ /\ Refused
        /\ Unlock
        /\ UNCHANGED <<live, stopping, link>>
  /\ UNCHANGED <<due, capture, preview, sound, stray>>

\* publish_camera, after the camera is open.
PublishCamera ==
  /\ Holds({"start"}, "video") /\ holder.source = "camera"
  /\ \/ /\ OnAir("camera", "video")
        /\ live' = [live EXCEPT !["camera"] = TRUE]
        /\ Unlock
        /\ UNCHANGED stopping
     \/ /\ Refused
        /\ stopping' = [stopping EXCEPT !["camera"] = TRUE]
        /\ Goto("stop_capture")
        /\ UNCHANGED <<live, link>>
  /\ UNCHANGED <<due, capture, preview, sound, stray>>

-----------------------------------------------------------------------------
(* Taking a source down.                                                    *)

\* Capture::stop joins the thread.
StopCapture ==
  /\ at = "stop_capture" /\ ~Free
  /\ capture[holder.source] = "ended"
  /\ capture' = [capture EXCEPT ![holder.source] = "none"]
  /\ stopping' = [stopping EXCEPT ![holder.source] = FALSE]
  /\ Goto("stop_preview")
  /\ UNCHANGED <<due, live, link, preview, sound, stray, faults>>

\* Preview::stop joins the preview's thread.  A camera that was never
\* published has no track to take down.
StopPreview ==
  /\ at = "stop_preview" /\ ~Free
  /\ preview[holder.source] = "ended"
  /\ preview' = [preview EXCEPT ![holder.source] = "none"]
  /\ Goto(IF holder.source = "screen" THEN "stop_sound"
          ELSE IF holder.op = "start" THEN "close" ELSE "unpublish")
  /\ UNCHANGED <<due, live, link, capture, stopping, sound, stray, faults>>

\* AudioCapture::stop joins the sound's thread, if there is one.
StopSound ==
  /\ at = "stop_sound" /\ ~Free
  /\ sound' = None
  /\ Goto("unpublish")
  /\ UNCHANGED <<due, live, link, capture, stopping, preview, stray, faults>>

\* Mutant: unpublish looks into the slot of the other source.
UnpublishOther ==
  /\ at = "unpublish" /\ ~Free
  /\ \E s \in Sources \ {holder.source} :
       /\ onAir' = onAir \ held[s] /\ adrift' = adrift \ held[s]
       /\ held' = [held EXCEPT ![s] = {}]
  /\ Goto("close")
  /\ UNCHANGED <<due, live, publisher, up, threads, faults>>

\* Publisher::unpublish empties the slot and then takes each sid off the air;
\* one that LiveKit fails to take off is only logged, and stays on the air.
Unpublish ==
  /\ at = "unpublish" /\ ~Free
  /\ \E left \in SUBSET (held[holder.source] \cap onAir) :
       /\ (left = {} /\ UNCHANGED faults) \/ (left # {} /\ Fault)
       /\ onAir' = (onAir \ held[holder.source]) \cup left
       /\ adrift' = (adrift \ held[holder.source]) \cup left
  /\ held' = [held EXCEPT ![holder.source] = {}]
  /\ Goto("close")
  /\ UNCHANGED <<due, live, publisher, up, threads>>

Lost == [s \in Sources |-> due[s] + 1]

\* Mutant: the connection is closed only if nobody else holds a clone of it,
\* and share_start's error paths do.
CloseIfOwned ==
  /\ at = "close" /\ ~Free
  /\ IF (\E s \in Sources : live[s]) \/ publisher = None \/ holder.op = "start"
     THEN UNCHANGED <<due, link, faults>>
     ELSE /\ publisher' = None /\ up' = FALSE /\ onAir' = {} /\ adrift' = {}
          /\ held' = [s \in Sources |-> {}]
          /\ \/ UNCHANGED <<due, faults>>
             \/ CloseReports /\ up /\ Fault /\ due' = Lost
  /\ Unlock
  /\ UNCHANGED <<live, threads>>

\* close_if_idle leaves the room once nothing is live.  The room may report
\* its own end as a disconnection, which gives up both sources.
CloseIfIdle ==
  /\ at = "close" /\ ~Free
  /\ IF (\E s \in Sources : live[s]) \/ publisher = None
     THEN UNCHANGED <<due, link, faults>>
     ELSE /\ publisher' = None /\ up' = FALSE /\ onAir' = {} /\ adrift' = {}
          /\ held' = [s \in Sources |-> {}]
          /\ \/ UNCHANGED <<due, faults>>
             \/ CloseReports /\ up /\ Fault /\ due' = Lost
  /\ Unlock
  /\ UNCHANGED <<live, threads>>

\* Publisher::stats answers, and the command returns its numbers.
Stats ==
  /\ at = "stats" /\ ~Free
  /\ Unlock
  /\ UNCHANGED <<due, live, link, threads, faults>>

-----------------------------------------------------------------------------
(* Threads and the connection.                                              *)

\* Mutant: nothing is scheduled when the source disappears.
CaptureLostSilently(s) ==
  /\ capture[s] = "running" /\ Fault
  /\ capture' = [capture EXCEPT ![s] = "leaving"]
  /\ UNCHANGED <<due, lock, live, link, stopping, preview, sound, stray, told>>

\* The source disappears: on_lost spawns a give_up and the thread returns.  It
\* reports even if the stop flag is already set.
CaptureLost(s) ==
  /\ capture[s] = "running" /\ Fault
  /\ capture' = [capture EXCEPT ![s] = "leaving"]
  /\ due' = [due EXCEPT ![s] = @ + 1]
  /\ UNCHANGED <<lock, live, link, stopping, preview, sound, stray, told>>

\* Mutant: give_up takes the lock in the capture's own thread.
CaptureLeavesBlocked(s) ==
  /\ \/ capture[s] = "leaving" /\ due[s] = 0 /\ Free
     \/ capture[s] = "running" /\ stopping[s]
  /\ capture' = [capture EXCEPT ![s] = "ended"]
  /\ UNCHANGED <<due, lock, live, link, stopping, preview, sound, stray, told, faults>>

\* The capture's thread ends, on its own or because it saw the stop flag; its
\* Tap is dropped with it.
CaptureLeaves(s) ==
  /\ \/ capture[s] = "leaving"
     \/ capture[s] = "running" /\ stopping[s]
  /\ capture' = [capture EXCEPT ![s] = "ended"]
  /\ UNCHANGED <<due, lock, live, link, stopping, preview, sound, stray, told, faults>>

\* The Tap of a source: with its capture, or with the thread that opens it.
Tapped(s) ==
  \/ capture[s] \in {"running", "leaving"}
  \/ s = "camera" /\ ~Free /\ at = "open"

\* The preview's thread ends once the last Tap, the channel's sender, is gone.
PreviewEnds(s) ==
  /\ preview[s] = "working" /\ ~Tapped(s)
  /\ preview' = [preview EXCEPT ![s] = "ended"]
  /\ UNCHANGED <<due, lock, live, link, capture, stopping, sound, stray, told, faults>>

\* A sound that answered too late finds the stop flag set.
StrayEnds ==
  /\ stray > 0
  /\ stray' = stray - 1
  /\ UNCHANGED <<due, lock, live, link, capture, stopping, preview, sound, told, faults>>

\* LiveKit drops the connection: both sources are given up.
Disconnect ==
  /\ publisher # None /\ up /\ Fault
  /\ up' = FALSE /\ onAir' = {} /\ adrift' = {}
  /\ due' = Lost
  /\ UNCHANGED <<lock, live, publisher, held, threads, told>>

-----------------------------------------------------------------------------
Command ==
  \/ Connect \/ PublishScreen \/ PublishAudio \/ StartScreen \/ StartSound
  \/ StartPreview \/ OpenCamera \/ PublishCamera
  \/ StopCapture \/ StopPreview \/ StopSound \/ Unpublish \/ CloseIfIdle \/ Stats

Next ==
  \/ \E call \in Starts : TakeStart(call)
  \/ \E s \in Sources : TakeStop(s) \/ TakeStats(s) \/ TakeGiveUp(s) \/ Hear(s)
  \/ Command
  \/ \E s \in Sources : CaptureLost(s) \/ CaptureLeaves(s) \/ PreviewEnds(s)
  \/ StrayEnds
  \/ Disconnect

\* A holder's step returns, a thread runs, and the mutex serves every waiter.
CoreFairness ==
  /\ WF_vars(Command)
  /\ \A s \in Sources : WF_vars(CaptureLeaves(s)) /\ WF_vars(PreviewEnds(s))
                        /\ SF_vars(TakeGiveUp(s))
  /\ WF_vars(StrayEnds)

CoreSpec == Init /\ [][Next]_vars
FairCoreSpec == CoreSpec /\ CoreFairness

-----------------------------------------------------------------------------
(* Properties.                                                              *)

\* A connection exists exactly while something is live: an idle core holds no
\* media connection (publisher.rs:9, RNF-03), every live source has one, and
\* no error path leaves a phantom publisher (share.rs:118).
IdleIsClosed ==
  Free => (publisher # None <=> \E s \in Sources : live[s])

Dead(s) == capture[s] \in {"leaving", "ended"} \/ ~up

\* A source that is live and dead is about to be given up: the core is never
\* left believing in a share that died (share.rs:279), even if it died while a
\* command was starting it.
LossIsPending ==
  \A s \in Sources : Free /\ live[s] /\ Dead(s) => due[s] > 0

\* Between commands a source that is not live has no thread left, and a live
\* one has its capture and its preview, whatever failed on the way.
NothingLeaks ==
  /\ CoreTypeOK
  /\ Free => \A s \in Sources :
               /\ live[s] <=> capture[s] # "none"
               /\ live[s] <=> preview[s] # "none"
               /\ ~live["screen"] => sound = None

\* On a connection that is up, LiveKit carries a live source with the tracks
\* its slot holds, and these are its own.  Everything else it carries is what a
\* failed call left there: the video of a screen whose audio was refused
\* (publisher.rs:417), a track that unpublish forgot before LiveKit failed to
\* take it down (publisher.rs:497).  None of it outlives the last live source.
OnAirIsLive ==
  Free =>
    /\ up => \A s \in Sources : live[s] => held[s] # {} /\ held[s] \subseteq onAir \ adrift
    /\ \A t \in onAir \ adrift : live[t[1]] /\ t \in held[t[1]]
    /\ onAir # {} => \E s \in Sources : live[s]

\* Every command gives the lock back: no join waits for a thread that waits
\* for the lock, for a Tap or for another join (share.rs:285, preview.rs:204).
LockIsReturned == ~Free ~> Free

\* A source that died is taken down and the interface is told.
LossEnds ==
  \A s \in Sources : live[s] /\ Dead(s) ~> s \in told /\ ~live[s]

-----------------------------------------------------------------------------
(* What a command may rely on between two of its steps.                     *)

Mine(s)   == holder # None /\ holder.source = s
Doing(ops, steps) == holder # None /\ holder.op \in ops /\ at \in steps

\* A source whose tracks were published and are not being taken down.
Aired(s) ==
  live[s] \/ (s = "screen" /\ Doing({"start"}, {"audio", "capture", "sound"}))

\* A source whose capture's thread is the command's own, or the core's.
HasCapture(s) ==
  \/ live[s]
  \/ Mine(s) /\ (at \in {"sound", "stop_capture"} \/ (at = "video" /\ s = "camera"))

HasPreview(s) ==
  HasCapture(s) \/ (Mine(s) /\ at \in {"open", "stop_preview"})

\* Which step belongs to which call.
StepInv ==
  holder # None =>
    /\ holder.op = "start" => at # "stats"
    /\ holder.op = "stats" => at = "stats"
    /\ holder.op \in {"stop", "give_up"} =>
         at \in {"stop_capture", "stop_preview", "stop_sound", "unpublish", "close"}
    /\ live[holder.source] <=> holder.op = "stats"
    /\ at \in {"audio", "capture", "sound", "stop_sound"} => holder.source = "screen"
    /\ at \in {"preview", "open"} => holder.source = "camera"
    /\ holder.op = "start" /\ holder.source = "screen" => at # "stop_capture"
    /\ holder.op = "start" /\ holder.source = "camera" => at # "unpublish"

\* The connection outlives what is published over it, and only a command that
\* is under way has one without a live source.
LinkInv ==
  /\ \A s \in Sources : live[s] => publisher # None
  /\ Doing({"start"}, {"video", "audio", "capture", "sound", "preview", "open"})
       => publisher # None
  /\ publisher # None => \/ \E s \in Sources : live[s]
                          \/ holder # None
  /\ publisher = None \/ ~up => onAir = {}
  /\ publisher = None => ~up

ThreadInv ==
  /\ \A s \in Sources :
       /\ HasCapture(s) <=> capture[s] # "none"
       /\ HasPreview(s) <=> preview[s] # "none"
       /\ stopping[s] => Mine(s) /\ at = "stop_capture"
  /\ sound # None =>
       live["screen"] \/ (Mine("screen") /\ at \in {"stop_capture", "stop_preview", "stop_sound"})

\* A capture that ended by itself, or a connection that was lost under a
\* published source, has its give_up to come, while nobody stops the source.
DueInv ==
  \A s \in Sources :
    /\ HasCapture(s) /\ ~stopping[s] /\ capture[s] \in {"leaving", "ended"} => due[s] > 0
    /\ Aired(s) /\ ~up => due[s] > 0

\* A source whose tracks the command is about to unpublish.
TakenDown(s) ==
  /\ Mine(s) /\ (holder.op # "start" \/ s = "screen")
  /\ at \in {"stop_capture", "stop_preview", "stop_sound", "unpublish"}

\* What is on the air and not adrift is held by the slot of its source, which
\* is published or about to be unpublished; a slot that was left behind holds a
\* video alone, so that publishing again leaves nothing of it in the slot.
AirInv ==
  /\ \A s \in Sources : \A t \in held[s] : t[1] = s
  /\ adrift \subseteq onAir
  /\ up => \A s \in Sources :
       /\ held[s] \subseteq onAir
       /\ Aired(s) => held[s] # {} /\ held[s] \cap adrift = {}
  /\ \A t \in onAir \ adrift : t \in held[t[1]] /\ (Aired(t[1]) \/ TakenDown(t[1]))
  /\ \A t \in held["camera"] : t[2] # "audio"
  /\ \A t \in held["screen"] : t[2] = "audio" =>
       live["screen"] \/ Doing({"start"}, {"capture", "sound"}) \/ TakenDown("screen")

CoreInv == CoreTypeOK /\ StepInv /\ LinkInv /\ ThreadInv /\ DueInv /\ AirInv
=============================================================================
