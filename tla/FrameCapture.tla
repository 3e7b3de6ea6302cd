---------------------------- MODULE FrameCapture ----------------------------
(***************************************************************************)
(* How a screen or a camera becomes frames: camera/mod.rs, its two paths    *)
(* into Windows (camera/mf.rs, camera/dshow.rs) and capture.rs, from the    *)
(* list of cameras to the frame the encoder and the preview receive.        *)
(*                                                                         *)
(* Windows is external: what it lists, which call it refuses and the format *)
(* it delivers are choices of the model.  A 2-D buffer is taken to hold the *)
(* rows that its pitch and its media type say it holds.                     *)
(***************************************************************************)
EXTENDS FrameFormats

CONSTANTS
  Cameras, Names, None,
  Offers,    \* what a camera may say it offers: sequences of formats
  Sizes,     \* sizes a device may change to
  Ceiling,   \* what share.rs asks for
  Fps,
  Widths     \* Control::max_width, on the grid and in focus

\* Where a camera is registered.  Hardware has a device path in both lists,
\* software a name only; some cameras are known to one of the two.
Registrations == {"hardware", "software", "mf_only", "ds_only"}
Layouts  == [pixels : Pixels, size : Sizes]
Emitted  == [pixels : Pixels \cup {"compressed"}, size : Sizes]
Formats  == [size : Nat \X Nat, fps : Nat, pixels : Pixels \cup {"compressed"}]
Evened(s) == <<Even(s[1]), Even(s[2])>>
Errors   == {"gone", "will_not_open", "platform", "no_format", "only_compressed"}
Final    == {"busy", "not_allowed"}
Paths    == {"mf", "ds", "screen"}

ASSUME CaptureAssumption ==
  /\ IsFiniteSet(Cameras) /\ None \notin Cameras
  /\ Fps \in Nat
  /\ Ceiling \in Nat \X Nat /\ Ceiling[1] >= 2 /\ Ceiling[2] >= 2
  /\ \A w \in Widths : w \in Nat /\ PreviewCeiling(w)[2] >= 2
  /\ Sizes \subseteq Nat \X Nat
  /\ \A o \in Offers : o \in Seq(Formats)

VARIABLES
  machine,  \* the cameras of this machine: where registered and named how
  present,  \* the ones that are plugged in
  at,       \* the step of start, or of the thread it started
  chosen,   \* the handle start was given
  target,   \* the camera DirectShow is asked for
  natives,  \* what the open device offers
  tries,    \* the ones still to try, best first, as indices
  error,    \* why Media Foundation refused
  open,     \* devices this process holds open, as <<path, camera>>
  emits,    \* what the device delivers
  changed,  \* it announced a change with the next sample
  layout,   \* what the capture reads frames as
  frame     \* the frame delivered in this step

device == <<machine, present>>
vars   == <<machine, present, at, chosen, target, natives, tries, error, open,
            emits, changed, layout, frame>>

Handles == [path : {"mf", "ds"}, camera : Cameras] \cup [path : {"screen"}, camera : {None}]
Steps   == {"idle", "mf_open", "mf_try", "refused", "ds_build", "running", "ended"}

CaptureTypeOK ==
  /\ machine \in [Cameras -> [kind : Registrations, name : Names]]
  /\ present \subseteq Cameras
  /\ at \in Steps
  /\ chosen \in Handles \cup {None}
  /\ target \in Cameras \cup {None}
  /\ natives \in Offers \cup {<<>>}
  /\ tries \in Seq(DOMAIN natives) /\ Len(tries) <= MaxAttempts
  /\ error \in Errors \cup Final \cup {None}
  /\ open \subseteq {"mf", "ds"} \X Cameras
  /\ emits \in Emitted \cup {None}
  /\ layout \in Layouts \cup {None} \/ layout \in [pixels : {"rgb32"}, size : {Evened(s) : s \in Sizes}]
  /\ changed \in BOOLEAN

Reset ==
  /\ chosen' = None /\ target' = None /\ natives' = <<>> /\ tries' = <<>> /\ error' = None
  /\ emits' = None /\ changed' = FALSE /\ layout' = None /\ frame' = None

Init ==
  /\ machine \in [Cameras -> [kind : Registrations, name : Names]]
  /\ present = Cameras
  /\ at = "idle" /\ open = {}
  /\ chosen = None /\ target = None /\ natives = <<>> /\ tries = <<>> /\ error = None
  /\ emits = None /\ changed = FALSE /\ layout = None /\ frame = None

-----------------------------------------------------------------------------
(* Which cameras there are, and which is which.                             *)

InMf == {c \in Cameras : machine[c].kind # "ds_only"}
InDs == {c \in Cameras : machine[c].kind # "mf_only"}

\* device_key of both registrations: only a device path has one.
Keyed(c) == machine[c].kind = "hardware"

\* Mutant: only the device path tells that both list the same camera.
ListCamerasByKey ==
  [path : {"mf"}, camera : InMf] \cup
  {h \in [path : {"ds"}, camera : InDs] : ~(h.camera \in InMf /\ Keyed(h.camera))}

\* list_cameras: a camera both know, by its key or its name, once.
ListCameras ==
  [path : {"mf"}, camera : InMf] \cup
  {h \in [path : {"ds"}, camera : InDs] :
     /\ ~(h.camera \in InMf /\ Keyed(h.camera))
     /\ \A c \in InMf : machine[c].name # machine[h.camera].name}

Namesakes(c) == {d \in InDs \cap present : machine[d].name = machine[c].name}

\* Mutant: any camera of that name will do.
CounterpartFirst(c) ==
  IF c \in InDs \cap present /\ Keyed(c) THEN {c}
  ELSE IF c \notin InMf \cap present THEN {}
  ELSE Namesakes(c)

\* counterpart: the same hardware, or the only camera with the name that Media
\* Foundation still gives it; {} if there is none.
Counterpart(c) ==
  IF c \in InDs \cap present /\ Keyed(c) THEN {c}
  ELSE IF c \notin InMf \cap present \/ Cardinality(Namesakes(c)) # 1 THEN {}
  ELSE Namesakes(c)

-----------------------------------------------------------------------------
(* Opening.                                                                 *)

\* start, with a handle that was listed, maybe long ago.
Start(h) ==
  /\ at = "idle"
  /\ h \in ListCameras
  /\ chosen' = h
  /\ at' = IF h.path = "ds" THEN "ds_build" ELSE "mf_open"
  /\ target' = IF h.path = "ds" THEN h.camera ELSE None
  /\ UNCHANGED <<device, natives, tries, error, open, emits, changed, layout, frame>>

\* capture::start finds its source, and the thread its first frame's size.
StartScreen(size) ==
  /\ at = "idle"
  /\ chosen' = [path |-> "screen", camera |-> None] /\ at' = "running"
  /\ emits' = [pixels |-> "rgb32", size |-> size] /\ changed' = FALSE
  /\ UNCHANGED <<device, target, natives, tries, error, open, layout, frame>>

\* Mutant: Opened::new leaves a device open that it could not use.
RefuseOpen(e) ==
  /\ at' = "refused" /\ error' = e
  /\ natives' = <<>> /\ tries' = <<>>
  /\ UNCHANGED open

\* The device is let go and the sink comes home with the reason.
Refuse(e) ==
  /\ at' = "refused" /\ error' = e
  /\ open' = open \ {<<"mf", chosen.camera>>}
  /\ natives' = <<>> /\ tries' = <<>>

\* native_formats: what the open device says it offers.
NativeFormats == Offers

\* open_device, and the order of what it offers.
MfOpen ==
  /\ at = "mf_open"
  /\ \/ /\ chosen.camera \in present
        /\ open' = open \cup {<<"mf", chosen.camera>>}
        /\ natives' \in NativeFormats
        /\ tries' = Ranked(natives', Ceiling, Fps)
        /\ at' = "mf_try"
        /\ UNCHANGED error
     \/ \E e \in Errors \cup Final : Refuse(e)
  /\ UNCHANGED <<device, chosen, target, emits, changed, layout, frame>>

\* What the reader may settle on: it accepts a request and may adjust it.  A
\* compressed format has a decoder behind it.
Delivered(f) ==
  {l \in Layouts : l.pixels \in (IF f.pixels = "compressed" THEN {"nv12", "yuy2", "i420", "rgb32"}
                                 ELSE {f.pixels})}

\* Mutant: frames are read as what was asked for.
AcceptAsked ==
  /\ emits' \in Delivered(natives[Head(tries)])
  /\ layout' = [pixels |-> emits'.pixels, size |-> natives[Head(tries)].size]

\* Negotiated::current: frames are read as what the reader says it delivers.
Accept ==
  /\ emits' \in Delivered(natives[Head(tries)])
  /\ layout' = emits'

\* negotiate and try_native, one format: a busy or a forbidden device ends it.
MfTry ==
  /\ at = "mf_try"
  /\ \/ /\ tries # <<>> /\ chosen.camera \in present
        /\ Accept
        /\ at' = "running" /\ natives' = <<>> /\ tries' = <<>>
        /\ UNCHANGED <<open, error>>
     \/ /\ tries # <<>>
        /\ tries' = Tail(tries) /\ error' = "platform"
        /\ UNCHANGED <<at, natives, open, emits, layout>>
     \/ /\ \E e \in (IF tries = <<>> THEN {IF error = None THEN "no_format" ELSE error} ELSE Final) :
             Refuse(e)
        /\ UNCHANGED <<emits, layout>>
  /\ UNCHANGED <<device, chosen, target, changed, frame>>

GiveUp == at' = "idle" /\ Reset

\* The rest of start: DirectShow is asked unless the device itself answered,
\* or the thread took the sink with it when it could not be made or broke off.
Fallback ==
  /\ at = "refused"
  /\ \/ /\ error \in Final \/ error = "platform" \/ Counterpart(chosen.camera) = {}
        /\ GiveUp
     \/ /\ error \notin Final
        /\ target' \in Counterpart(chosen.camera)
        /\ at' = "ds_build"
        /\ UNCHANGED <<chosen, natives, tries, error, emits, changed, layout, frame>>
  /\ UNCHANGED <<device, open>>

\* shape_of: the types our sink takes, at its connection and in QueryAccept.
ShapeOf(l) ==
  /\ l.pixels \in Pixels
  /\ \A i \in 1 .. 2 : l.size[i] >= 2 /\ l.size[i] % 2 = 0

Achievable(offer) ==
  [i \in DOMAIN offer |-> [offer[i] EXCEPT !.fps = AchievableFps(1, offer[i].fps, Fps)]]

\* build: the filter is bound, the cheapest of the best raw formats is set and
\* the pins connect with the type the camera offers then.
DsBuild ==
  /\ at = "ds_build"
  /\ \/ /\ target \in present
        /\ \E offer \in Offers :
             LET offered == Achievable(offer)
                 shapes  == {i \in DOMAIN offered : ShapeOf(offered[i])}
             IN /\ shapes # {}
                /\ emits' \in {l \in Delivered(DirectShowChoice(offered, shapes, Ceiling, Fps)) : ShapeOf(l)}
        /\ layout' = emits'
        /\ open' = open \cup {<<"ds", target>>} /\ at' = "running"
        /\ UNCHANGED <<chosen, target, natives, tries, error, changed, frame>>
     \/ GiveUp /\ UNCHANGED open
  /\ UNCHANGED device

-----------------------------------------------------------------------------
(* Running.                                                                 *)

Path == IF chosen.path = "screen" THEN "screen" ELSE IF target = None THEN "mf" ELSE "ds"

\* The device changes its format and says so with the next sample; DirectShow
\* asks QueryAccept first.  A screen or a window just has another size.
ChangeFormat ==
  /\ at = "running" /\ ~changed
  /\ emits' \in CASE Path = "mf"     -> Emitted
                  [] Path = "ds"     -> {l \in Emitted : ShapeOf(l)}
                  [] Path = "screen" -> [pixels : {"rgb32"}, size : Sizes]
  /\ changed' = TRUE /\ frame' = None
  /\ UNCHANGED <<device, at, chosen, target, natives, tries, error, open, layout>>

\* What the sample of a layout may be in memory: the rows as they are, padded,
\* the other way up, and short of a byte.
Buffers(l) ==
  LET s == Stride(l.pixels, l.size[1])
      n == Needed(l.pixels, s, l.size[2])
  IN CASE Path = "mf"     -> {Read2D(l.pixels, p, l.size) : p \in {s, s + 4, s - 2, -s}} \cup
                             {ReadPlain(length, stride) : length \in {n, n - 1}, stride \in {s, -s, s + 2}}
       [] Path = "ds"     -> {ReadSample(l.pixels, l.size, b) :
                                b \in (IF l.pixels \in {"rgb32", "rgb24"} THEN BOOLEAN ELSE {FALSE})}
       [] Path = "screen" -> {ReadPlain(length, stride) : length \in {n, n - 1}, stride \in {s, s + 4}}

\* Tap::offer: the boxes the preview may scale the frame into, by its width
\* then.  It takes none when it is off, not due, or busy with the one before.
Offer(size) == {Fit(size, PreviewCeiling(w)) : w \in Widths}

\* Frames::deliver and Scratch::push: the frame is read as l into a buffer of
\* its size, scaled for the encoder and offered to the preview, or skipped.
Deliver(sample, l, raw) ==
  frame' = IF Accepts(l.pixels, raw, l.size)
           THEN [sample |-> sample, as |-> l, raw |-> raw, out |-> Fit(l.size, Ceiling),
                 into |-> l.size, shown |-> Offer(l.size)]
           ELSE None

Quiet == UNCHANGED <<device, at, chosen, target, natives, tries, error, open, emits>>

\* run of mf.rs: a flagged change is read from the reader before the sample is.
MfRead ==
  /\ at = "running" /\ Path = "mf"
  /\ emits \in Layouts
  /\ layout' = IF changed THEN emits ELSE layout
  /\ changed' = FALSE
  /\ \E raw \in Buffers(emits) : Deliver(emits, layout', raw)
  /\ Quiet

\* take of dshow.rs: the sample carries its type when that changed.
DsTake ==
  /\ at = "running" /\ Path = "ds"
  /\ layout' = IF changed /\ emits \in Layouts /\ ShapeOf(emits) THEN emits ELSE layout
  /\ changed' = FALSE
  /\ \E raw \in Buffers(layout') : Deliver(emits, layout', raw)
  /\ Quiet

\* push of capture.rs reads the size of every frame, evened.
ScreenPush ==
  /\ at = "running" /\ Path = "screen"
  /\ layout' = [emits EXCEPT !.size = Evened(@)]
  /\ changed' = FALSE
  /\ \E raw \in Buffers(emits) : Deliver(layout', layout', raw)
  /\ Quiet

\* The device fails, is unplugged or turns to a format no one reads: the thread
\* closes it and reports the loss.
Lose ==
  /\ at = "running"
  /\ at' = "ended" /\ open' = {} /\ frame' = None
  /\ present' \in {present, {c \in present : \A p \in Paths : <<p, c>> \notin open}}
  /\ UNCHANGED <<machine, chosen, target, natives, tries, error, emits, changed, layout>>

\* CameraCapture::stop and Capture::stop join the thread, whose end closes all.
Stop ==
  /\ at \in {"running", "ended"}
  /\ at' = "idle" /\ open' = {} /\ Reset
  /\ UNCHANGED device

\* A camera goes away while it is not running.
Unplug(c) ==
  /\ at # "running" /\ c \in present
  /\ present' = present \ {c}
  /\ frame' = None
  /\ UNCHANGED <<machine, at, chosen, target, natives, tries, error, open, emits, changed, layout>>

Next ==
  \/ \E h \in Handles : Start(h)
  \/ \E s \in Sizes : StartScreen(s)
  \/ MfOpen \/ MfTry \/ Fallback \/ DsBuild
  \/ ChangeFormat \/ MfRead \/ DsTake \/ ScreenPush
  \/ Lose \/ Stop
  \/ \E c \in Cameras : Unplug(c)

CaptureSpec == Init /\ [][Next]_vars

-----------------------------------------------------------------------------
(* Properties.                                                              *)

\* Nothing the code holds open outlives its use, and the two paths never hold a
\* camera at once: DirectShow is asked only after Media Foundation let it go
\* (mf.rs:522).  The types of the state come first.
OneOpenDevice ==
  /\ CaptureTypeOK
  /\ at \in {"idle", "refused", "ds_build", "ended"} => open = {}
  /\ Cardinality(open) <= 1

\* The camera that runs is the one that was picked, if DirectShow knows that
\* one at all (dshow.rs:198: "opening the wrong camera is worse than reporting
\* the first failure").
OpenedIsChosen ==
  \A p \in {"mf", "ds"}, c \in Cameras :
    <<p, c>> \in open => c = chosen.camera \/ chosen.camera \notin InDs

\* No camera is listed twice, and one that is left out shares its name with a
\* camera of the list (mod.rs:120).  A namesake that only DirectShow knows is
\* left out too, so this is less than "every camera, once each" (mod.rs:102).
ListedOnce ==
  /\ \A g, h \in ListCameras : g.camera = h.camera => g = h
  /\ \A c \in Cameras : \E h \in ListCameras : machine[h.camera].name = machine[c].name

\* The formats are tried in an order that starts with the best one, and one
\* that can be read without a decoder is among them, unless the best ones use up
\* the attempts (mf.rs:260).
AttemptsAreSound == at = "mf_try" => RankingIsSound(natives, Ceiling, Fps)

\* Every frame is read as what it is, even right after a change, inside its
\* memory, into a buffer of its size, and scaled without being stretched.
FrameIsSound ==
  frame # None =>
    /\ frame.as = frame.sample
    /\ frame.into = frame.as.size
    /\ ReadsInside(frame.as.pixels, frame.raw, frame.as.size)
    /\ ScaledInto(frame.as.size, Ceiling, frame.out)
    /\ \A box \in frame.shown : \E w \in Widths : ScaledInto(frame.as.size, PreviewCeiling(w), box)
=============================================================================
