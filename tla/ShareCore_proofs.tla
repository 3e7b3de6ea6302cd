-------------------------- MODULE ShareCore_proofs --------------------------
(***************************************************************************)
(* Theorems about the native core: for any rooms and any number of faults,  *)
(* commands, threads and a failing connection keep what the core believes,  *)
(* what runs and what LiveKit carries together.                             *)
(***************************************************************************)
EXTENDS ShareCore, TLAPS

\* What a call is made of.
LEMMA CallFacts ==
  ASSUME CoreTypeOK
  PROVE  /\ holder # None => /\ holder.source \in Sources
                             /\ holder.op \in {"start", "stop", "stats", "give_up"}
                             /\ holder.op = "start" => holder \in Starts /\ holder.room \in Rooms
         /\ \A c \in Starts : c # None /\ c.op = "start" /\ c.source \in Sources
         /\ \A s \in Sources, op \in {"stop", "stats", "give_up"} :
              [op |-> op, source |-> s] \in Others /\ [op |-> op, source |-> s] # None
BY CoreAssumption DEF CoreTypeOK, Starts, Others, Sources

\* A fault is counted within its bound.
LEMMA FaultFacts == ASSUME CoreTypeOK, Fault PROVE faults' \in 0 .. MaxFaults
BY CoreAssumption DEF CoreTypeOK, Fault

\* A refused publication is counted as a fault at most.
LEMMA RefusedFacts == ASSUME CoreTypeOK, Refused PROVE faults' \in 0 .. MaxFaults
BY FaultFacts DEF Refused, CoreTypeOK

\* A publication puts one new track on the air and into its source's slot, in
\* the place of the track of its kind.
LEMMA OnAirFacts ==
  ASSUME CoreTypeOK, NEW s \in Sources, NEW k \in Kinds, OnAir(s, k)
  PROVE  /\ up /\ UNCHANGED <<publisher, up, adrift, faults>>
         /\ held' \in [Sources -> SUBSET Tracks]
         /\ \A x \in Sources \ {s} : held'[x] = held[x]
         /\ \E t \in Tracks : /\ t[1] = s /\ t[2] = k /\ t \notin onAir
                              /\ onAir' = onAir \cup {t}
                              /\ held'[s] = {x \in held[s] : x[2] # k} \cup {t}
<1>1. PICK n \in Sids :
        /\ <<s, k, n>> \notin onAir
        /\ onAir' = onAir \cup {<<s, k, n>>}
        /\ held' = [held EXCEPT ![s] = {t \in @ : t[2] # k} \cup {<<s, k, n>>}]
  BY DEF OnAir
<1> DEFINE t == <<s, k, n>>
<1>2. t \in Tracks /\ t[1] = s /\ t[2] = k
  BY DEF Tracks
<1> HIDE DEF t
<1>3. /\ t \notin onAir
      /\ onAir' = onAir \cup {t}
      /\ held' = [held EXCEPT ![s] = {x \in @ : x[2] # k} \cup {t}]
  BY <1>1 DEF t
<1>4. held' \in [Sources -> SUBSET Tracks]
  BY <1>2, <1>3 DEF CoreTypeOK
<1>5. held'[s] = {x \in held[s] : x[2] # k} \cup {t}
      /\ \A x \in Sources \ {s} : held'[x] = held[x]
  BY <1>3 DEF CoreTypeOK
<1> QED
  BY <1>2, <1>3, <1>4, <1>5 DEF OnAir

\* Nothing runs, and nothing is on the air.
LEMMA InitCore == Init => CoreInv
<1> SUFFICES ASSUME Init PROVE CoreInv
  OBVIOUS
<1> USE CoreAssumption DEF Init
<1>1. CoreTypeOK
  <2>1. live \in [Sources -> BOOLEAN] /\ stopping \in [Sources -> BOOLEAN] /\ up \in BOOLEAN
    BY Zenon
  <2>2. /\ due \in [Sources -> Nat] /\ held \in [Sources -> SUBSET Tracks]
        /\ capture \in [Sources -> {"none", "running", "leaving", "ended"}]
        /\ preview \in [Sources -> {"none", "working", "ended"}]
    OBVIOUS
  <2> QED
    BY <2>1, <2>2 DEF CoreTypeOK, Steps
<1>2. StepInv /\ LinkInv /\ AirInv
  BY DEF StepInv, LinkInv, AirInv, Mine, Doing, Aired, TakenDown, Sources
<1>3. ThreadInv /\ DueInv
  BY DEF ThreadInv, DueInv, Mine, Doing, Aired, HasCapture, HasPreview
<1> QED
  BY <1>1, <1>2, <1>3 DEF CoreInv

\* A start takes the lock only for a source that is not live.
LEMMA TakeStartKeeps == ASSUME CoreInv, NEW call \in Starts, TakeStart(call) PROVE CoreInv'
<1> USE CoreAssumption DEF CoreInv, TakeStart, Free, lock, link, threads
<1>0. CoreTypeOK
  OBVIOUS
<1>1. CoreTypeOK'
  BY CallFacts, <1>0 DEF CoreTypeOK, Steps, Sources, Modes
<1>2. StepInv'
  BY CallFacts, <1>0 DEF CoreTypeOK, StepInv, Sources
<1>3. LinkInv'
  BY CallFacts, <1>0 DEF CoreTypeOK, StepInv, LinkInv, Doing, Sources
<1>4. ThreadInv'
  BY CallFacts, <1>0 DEF CoreTypeOK, StepInv, ThreadInv, Mine, HasCapture, HasPreview, Sources
<1>5. DueInv'
  BY CallFacts, <1>0 DEF CoreTypeOK, StepInv, LinkInv, ThreadInv, DueInv, Mine, Doing, Aired,
     HasCapture, Sources
<1>6. AirInv'
  BY CallFacts, <1>0 DEF CoreTypeOK, StepInv, LinkInv, AirInv, Mine, Doing, Aired, TakenDown,
     Sources
<1> QED
  BY <1>1, <1>2, <1>3, <1>4, <1>5, <1>6

\* A stop detaches its source, and owns the capture that it tells to stop.
LEMMA TakeStopKeeps == ASSUME CoreInv, NEW s \in Sources, TakeStop(s) PROVE CoreInv'
<1> USE CoreAssumption DEF CoreInv, TakeStop, Detach, Free, lock, link, threads
<1>0. CoreTypeOK
  OBVIOUS
<1>1. CoreTypeOK'
  BY CallFacts, <1>0 DEF CoreTypeOK, Steps, Sources, Modes
<1>2. StepInv'
  BY CallFacts, <1>0 DEF CoreTypeOK, StepInv, Sources
<1>3. LinkInv'
  BY CallFacts, <1>0 DEF CoreTypeOK, StepInv, LinkInv, Doing, Sources
<1>4. ThreadInv'
  BY CallFacts, <1>0 DEF CoreTypeOK, StepInv, ThreadInv, Mine, HasCapture, HasPreview, Sources
<1>5. DueInv'
  BY CallFacts, <1>0 DEF CoreTypeOK, StepInv, LinkInv, ThreadInv, DueInv, Mine, Doing, Aired,
     HasCapture, Sources
<1>6. AirInv'
  BY CallFacts, <1>0 DEF CoreTypeOK, StepInv, LinkInv, AirInv, Mine, Doing, Aired, TakenDown,
     Sources
<1> QED
  BY <1>1, <1>2, <1>3, <1>4, <1>5, <1>6

\* Statistics are read of a live source and change nothing.
LEMMA TakeStatsKeeps == ASSUME CoreInv, NEW s \in Sources, TakeStats(s) PROVE CoreInv'
<1> USE CoreAssumption DEF CoreInv, TakeStats, Free, lock, link, threads
<1>0. CoreTypeOK
  OBVIOUS
<1>1. CoreTypeOK'
  BY CallFacts, <1>0 DEF CoreTypeOK, Steps, Sources, Modes
<1>2. StepInv'
  BY CallFacts, <1>0 DEF CoreTypeOK, StepInv, Sources
<1>3. LinkInv'
  BY CallFacts, <1>0 DEF CoreTypeOK, StepInv, LinkInv, Doing, Sources
<1>4. ThreadInv'
  BY CallFacts, <1>0 DEF CoreTypeOK, StepInv, ThreadInv, Mine, HasCapture, HasPreview, Sources
<1>5. DueInv'
  BY CallFacts, <1>0 DEF CoreTypeOK, StepInv, LinkInv, ThreadInv, DueInv, Mine, Doing, Aired,
     HasCapture, Sources
<1>6. AirInv'
  BY CallFacts, <1>0 DEF CoreTypeOK, StepInv, LinkInv, AirInv, Mine, Doing, Aired, TakenDown,
     Sources
<1> QED
  BY <1>1, <1>2, <1>3, <1>4, <1>5, <1>6

\* A give_up spends its debt and takes the source down with it.
LEMMA TakeGiveUpKeeps == ASSUME CoreInv, NEW s \in Sources, TakeGiveUp(s) PROVE CoreInv'
<1> USE CoreAssumption DEF CoreInv, TakeGiveUp, Detach, Free, lock, link, threads
<1>0. CoreTypeOK
  OBVIOUS
<1>1. CoreTypeOK'
  BY CallFacts, <1>0 DEF CoreTypeOK, Steps, Sources, Modes
<1>2. StepInv'
  BY CallFacts, <1>0 DEF CoreTypeOK, StepInv, Sources
<1>3. LinkInv'
  BY CallFacts, <1>0 DEF CoreTypeOK, StepInv, LinkInv, Doing, Sources
<1>4. ThreadInv'
  BY CallFacts, <1>0 DEF CoreTypeOK, StepInv, ThreadInv, Mine, HasCapture, HasPreview, Sources
<1>5. DueInv'
  BY CallFacts, <1>0 DEF CoreTypeOK, StepInv, LinkInv, ThreadInv, DueInv, Mine, Doing, Aired,
     HasCapture, Sources
<1>6. AirInv'
  BY CallFacts, <1>0 DEF CoreTypeOK, StepInv, LinkInv, AirInv, Mine, Doing, Aired, TakenDown,
     Sources
<1> QED
  BY <1>1, <1>2, <1>3, <1>4, <1>5, <1>6

\* The interface hears of an end; the core does not change.
LEMMA HearKeeps == ASSUME CoreInv, NEW s \in Sources, Hear(s) PROVE CoreInv'
<1> USE CoreAssumption DEF CoreInv, Hear, Free, lock, link, threads
<1>0. CoreTypeOK
  OBVIOUS
<1>1. CoreTypeOK'
  BY CallFacts, <1>0 DEF CoreTypeOK, Steps, Sources, Modes
<1>2. StepInv'
  BY CallFacts, <1>0 DEF CoreTypeOK, StepInv, Sources
<1>3. LinkInv'
  BY CallFacts, <1>0 DEF CoreTypeOK, StepInv, LinkInv, Doing, Sources
<1>4. ThreadInv'
  BY CallFacts, <1>0 DEF CoreTypeOK, StepInv, ThreadInv, Mine, HasCapture, HasPreview, Sources
<1>5. DueInv'
  BY CallFacts, <1>0 DEF CoreTypeOK, StepInv, LinkInv, ThreadInv, DueInv, Mine, Doing, Aired,
     HasCapture, Sources
<1>6. AirInv'
  BY CallFacts, <1>0 DEF CoreTypeOK, StepInv, LinkInv, AirInv, Mine, Doing, Aired, TakenDown,
     Sources
<1> QED
  BY <1>1, <1>2, <1>3, <1>4, <1>5, <1>6

\* A start joins the connection there is, or makes one, or ends.
LEMMA ConnectKeeps == ASSUME CoreInv, Connect PROVE CoreInv'
<1> USE CoreAssumption DEF CoreInv, Connect, Holds, Goto, Unlock, Free, lock, link, threads
<1>0. CoreTypeOK
  OBVIOUS
<1>1. CoreTypeOK'
  <2>1. faults' \in 0 .. MaxFaults
    BY <1>0, FaultFacts DEF CoreTypeOK
  <2>2. due' \in [Sources -> Nat]
    BY <1>0 DEF CoreTypeOK
  <2> QED
    BY CallFacts, <1>0, <2>1, <2>2 DEF CoreTypeOK, Steps, Sources, Modes
<1>2. StepInv'
  BY CallFacts, <1>0 DEF CoreTypeOK, StepInv, Sources
<1>3. LinkInv'
  BY CallFacts, <1>0 DEF CoreTypeOK, StepInv, LinkInv, Doing, Sources
<1>4. ThreadInv'
  BY CallFacts, <1>0 DEF CoreTypeOK, StepInv, ThreadInv, Mine, HasCapture, HasPreview, Sources
<1>5. DueInv'
  BY CallFacts, <1>0 DEF CoreTypeOK, StepInv, LinkInv, ThreadInv, DueInv, Mine, Doing, Aired,
     HasCapture, Sources
<1>6. AirInv'
  BY CallFacts, <1>0 DEF CoreTypeOK, StepInv, LinkInv, AirInv, Mine, Doing, Aired, TakenDown,
     Sources
<1> QED
  BY <1>1, <1>2, <1>3, <1>4, <1>5, <1>6

\* The screen's video goes on the air, or is refused.
LEMMA PublishScreenKeeps == ASSUME CoreInv, PublishScreen PROVE CoreInv'
<1> USE CoreAssumption DEF CoreInv, PublishScreen, Holds, Goto, Free, lock, link, threads
<1>0. CoreTypeOK
  OBVIOUS
<1>a. "screen" \in Sources /\ "video" \in Kinds
  BY DEF Sources, Kinds
<1>b. CASE /\ OnAir("screen", "video")
           /\ Goto(IF holder.sound = "silent" THEN "capture" ELSE "audio")
  <2> USE <1>b
  <2>a. PICK t \in Tracks : /\ t[1] = "screen" /\ t[2] = "video" /\ t \notin onAir
                           /\ onAir' = onAir \cup {t}
                           /\ held'["screen"] = {x \in held["screen"] : x[2] # "video"} \cup {t}
    BY <1>0, <1>a, OnAirFacts
  <2>b. /\ up /\ UNCHANGED <<publisher, up, adrift, faults>>
        /\ held' \in [Sources -> SUBSET Tracks]
        /\ \A x \in Sources \ {"screen"} : held'[x] = held[x]
    BY <1>0, <1>a, OnAirFacts
  <2>1. CoreTypeOK'
    BY CallFacts, <1>0, <2>a, <2>b DEF CoreTypeOK, Steps, Sources, Modes
  <2>2. StepInv'
    BY CallFacts, <1>0, <2>a, <2>b DEF CoreTypeOK, StepInv, Sources
  <2>3. LinkInv'
    BY CallFacts, <1>0, <2>a, <2>b DEF CoreTypeOK, StepInv, LinkInv, Doing, Sources
  <2>4. ThreadInv'
    BY CallFacts, <1>0, <2>a, <2>b DEF CoreTypeOK, StepInv, ThreadInv, Mine, HasCapture,
       HasPreview, Sources
  <2>5. DueInv'
    BY CallFacts, <1>0, <2>a, <2>b DEF CoreTypeOK, StepInv, LinkInv, ThreadInv, DueInv, Mine,
       Doing, Aired, HasCapture, Sources
  <2>6. AirInv'
    <3>1. \A x \in Sources : \A y \in held'[x] : y[1] = x
      BY <1>0, <1>a, <2>a, <2>b DEF CoreTypeOK, AirInv
    <3>2. adrift' \subseteq onAir'
      BY <2>a, <2>b DEF AirInv
    <3>3. up' => \A x \in Sources :
            held'[x] \subseteq onAir' /\ (Aired(x)' => held'[x] # {} /\ held'[x] \cap adrift' = {})
      BY CallFacts, <1>0, <1>a, <2>a, <2>b DEF CoreTypeOK, StepInv, AirInv, Mine, Doing, Aired,
         TakenDown, Sources, Tracks, Kinds
    <3>4. ASSUME NEW y \in onAir' \ adrift'
          PROVE  y \in held'[y[1]] /\ (Aired(y[1])' \/ TakenDown(y[1])')
      <4>1. CASE y = t
        BY CallFacts, <1>0, <2>a, <2>b, <4>1 DEF CoreTypeOK, StepInv, Doing, Aired, Sources
      <4>2. CASE y # t
        <5>1. /\ y \in onAir \ adrift /\ y[1] \in Sources
              /\ y \in held[y[1]] /\ (Aired(y[1]) \/ TakenDown(y[1]))
          BY <1>0, <2>a, <2>b, <4>2 DEF CoreTypeOK, AirInv, Tracks
        <5>2. CASE y[1] = "screen"
          BY CallFacts, <1>0, <2>a, <2>b, <5>1, <5>2 DEF CoreTypeOK, StepInv, AirInv, Mine,
             Doing, Aired, TakenDown, Sources
        <5>3. CASE y[1] # "screen"
          BY CallFacts, <1>0, <2>b, <5>1, <5>3 DEF CoreTypeOK, StepInv, Mine, Doing, Aired,
             TakenDown, Sources
        <5> QED
          BY <5>2, <5>3
      <4> QED
        BY <4>1, <4>2
    <3>5. \A y \in held'["camera"] : y[2] # "audio"
      BY <1>0, <1>a, <2>a, <2>b DEF CoreTypeOK, AirInv, Sources
    <3>6. \A y \in held'["screen"] : y[2] = "audio" =>
            live'["screen"] \/ Doing({"start"}, {"capture", "sound"})' \/ TakenDown("screen")'
      BY CallFacts, <1>0, <1>a, <2>a, <2>b DEF CoreTypeOK, StepInv, AirInv, Mine, Doing,
         TakenDown, Sources
    <3> QED
      BY <3>1, <3>2, <3>3, <3>4, <3>5, <3>6 DEF AirInv
  <2> QED
    BY <2>1, <2>2, <2>3, <2>4, <2>5, <2>6
<1>c. CASE Refused /\ Goto("close")
  <2> USE <1>c
  <2>a. faults' \in 0 .. MaxFaults
    BY <1>0, RefusedFacts
  <2>1. CoreTypeOK'
    BY CallFacts, <1>0, <2>a DEF CoreTypeOK, Steps, Sources, Modes
  <2>2. StepInv'
    BY CallFacts, <1>0, <2>a DEF CoreTypeOK, StepInv, Sources
  <2>3. LinkInv'
    BY CallFacts, <1>0, <2>a DEF CoreTypeOK, StepInv, LinkInv, Doing, Sources
  <2>4. ThreadInv'
    BY CallFacts, <1>0, <2>a DEF CoreTypeOK, StepInv, ThreadInv, Mine, HasCapture, HasPreview,
       Sources
  <2>5. DueInv'
    BY CallFacts, <1>0, <2>a DEF CoreTypeOK, StepInv, LinkInv, ThreadInv, DueInv, Mine, Doing,
       Aired, HasCapture, Sources
  <2>6. AirInv'
    BY CallFacts, <1>0, <2>a DEF CoreTypeOK, StepInv, LinkInv, AirInv, Mine, Doing, Aired,
       TakenDown, Sources
  <2> QED
    BY <2>1, <2>2, <2>3, <2>4, <2>5, <2>6
<1> QED
  BY <1>b, <1>c

\* The screen's audio goes on the air, or the video stays alone until close.
LEMMA PublishAudioKeeps == ASSUME CoreInv, PublishAudio PROVE CoreInv'
<1> USE CoreAssumption DEF CoreInv, PublishAudio, Holds, Goto, Free, lock, link, threads
<1>0. CoreTypeOK
  OBVIOUS
<1>a. "screen" \in Sources /\ "audio" \in Kinds
  BY DEF Sources, Kinds
<1>b. CASE OnAir("screen", "audio") /\ Goto("capture")
  <2> USE <1>b
  <2>a. PICK t \in Tracks : /\ t[1] = "screen" /\ t[2] = "audio" /\ t \notin onAir
                           /\ onAir' = onAir \cup {t}
                           /\ held'["screen"] = {x \in held["screen"] : x[2] # "audio"} \cup {t}
    BY <1>0, <1>a, OnAirFacts
  <2>b. /\ up /\ UNCHANGED <<publisher, up, adrift, faults>>
        /\ held' \in [Sources -> SUBSET Tracks]
        /\ \A x \in Sources \ {"screen"} : held'[x] = held[x]
    BY <1>0, <1>a, OnAirFacts
  <2>1. CoreTypeOK'
    BY CallFacts, <1>0, <2>a, <2>b DEF CoreTypeOK, Steps, Sources, Modes
  <2>2. StepInv'
    BY CallFacts, <1>0, <2>a, <2>b DEF CoreTypeOK, StepInv, Sources
  <2>3. LinkInv'
    BY CallFacts, <1>0, <2>a, <2>b DEF CoreTypeOK, StepInv, LinkInv, Doing, Sources
  <2>4. ThreadInv'
    BY CallFacts, <1>0, <2>a, <2>b DEF CoreTypeOK, StepInv, ThreadInv, Mine, HasCapture,
       HasPreview, Sources
  <2>5. DueInv'
    BY CallFacts, <1>0, <2>a, <2>b DEF CoreTypeOK, StepInv, LinkInv, ThreadInv, DueInv, Mine,
       Doing, Aired, HasCapture, Sources
  <2>6. AirInv'
    <3>1. \A x \in Sources : \A y \in held'[x] : y[1] = x
      BY <1>0, <1>a, <2>a, <2>b DEF CoreTypeOK, AirInv
    <3>2. adrift' \subseteq onAir'
      BY <2>a, <2>b DEF AirInv
    <3>3. up' => \A x \in Sources :
            held'[x] \subseteq onAir' /\ (Aired(x)' => held'[x] # {} /\ held'[x] \cap adrift' = {})
      BY CallFacts, <1>0, <1>a, <2>a, <2>b DEF CoreTypeOK, StepInv, AirInv, Mine, Doing, Aired,
         TakenDown, Sources, Tracks, Kinds
    <3>4. ASSUME NEW y \in onAir' \ adrift'
          PROVE  y \in held'[y[1]] /\ (Aired(y[1])' \/ TakenDown(y[1])')
      <4>1. CASE y = t
        BY CallFacts, <1>0, <2>a, <2>b, <4>1 DEF CoreTypeOK, StepInv, Doing, Aired, Sources
      <4>2. CASE y # t
        <5>1. /\ y \in onAir \ adrift /\ y[1] \in Sources
              /\ y \in held[y[1]] /\ (Aired(y[1]) \/ TakenDown(y[1]))
          BY <1>0, <2>a, <2>b, <4>2 DEF CoreTypeOK, AirInv, Tracks
        <5>2. CASE y[1] = "screen"
          BY CallFacts, <1>0, <2>a, <2>b, <5>1, <5>2 DEF CoreTypeOK, StepInv, AirInv, Mine,
             Doing, Aired, TakenDown, Sources
        <5>3. CASE y[1] # "screen"
          BY CallFacts, <1>0, <2>b, <5>1, <5>3 DEF CoreTypeOK, StepInv, Mine, Doing, Aired,
             TakenDown, Sources
        <5> QED
          BY <5>2, <5>3
      <4> QED
        BY <4>1, <4>2
    <3>5. \A y \in held'["camera"] : y[2] # "audio"
      BY <1>0, <1>a, <2>a, <2>b DEF CoreTypeOK, AirInv, Sources
    <3>6. \A y \in held'["screen"] : y[2] = "audio" =>
            live'["screen"] \/ Doing({"start"}, {"capture", "sound"})' \/ TakenDown("screen")'
      BY CallFacts, <1>0, <1>a, <2>a, <2>b DEF CoreTypeOK, StepInv, AirInv, Mine, Doing,
         TakenDown, Sources
    <3> QED
      BY <3>1, <3>2, <3>3, <3>4, <3>5, <3>6 DEF AirInv
  <2> QED
    BY <2>1, <2>2, <2>3, <2>4, <2>5, <2>6
<1>c. CASE Refused /\ Goto("close")
  <2> USE <1>c
  <2>a. faults' \in 0 .. MaxFaults
    BY <1>0, RefusedFacts
  <2>1. CoreTypeOK'
    BY CallFacts, <1>0, <2>a DEF CoreTypeOK, Steps, Sources, Modes
  <2>2. StepInv'
    BY CallFacts, <1>0, <2>a DEF CoreTypeOK, StepInv, Sources
  <2>3. LinkInv'
    BY CallFacts, <1>0, <2>a DEF CoreTypeOK, StepInv, LinkInv, Doing, Sources
  <2>4. ThreadInv'
    BY CallFacts, <1>0, <2>a DEF CoreTypeOK, StepInv, ThreadInv, Mine, HasCapture, HasPreview,
       Sources
  <2>5. DueInv'
    BY CallFacts, <1>0, <2>a DEF CoreTypeOK, StepInv, LinkInv, ThreadInv, DueInv, Mine, Doing,
       Aired, HasCapture, Sources
  <2>6. AirInv'
    BY CallFacts, <1>0, <2>a DEF CoreTypeOK, StepInv, LinkInv, AirInv, Mine, Doing, Aired,
       TakenDown, Sources
  <2> QED
    BY <2>1, <2>2, <2>3, <2>4, <2>5, <2>6
<1> QED
  BY <1>b, <1>c

\* Preview and capture start, or the preview alone is left to stop.
LEMMA StartScreenKeeps == ASSUME CoreInv, StartScreen PROVE CoreInv'
<1> USE CoreAssumption DEF CoreInv, StartScreen, Holds, Goto, Spawn, Free, lock, link, threads
<1>0. CoreTypeOK
  OBVIOUS
<1>1. CoreTypeOK'
  <2>1. faults' \in 0 .. MaxFaults
    BY <1>0, FaultFacts DEF CoreTypeOK
  <2>2. due' \in [Sources -> Nat]
    BY <1>0 DEF CoreTypeOK
  <2>3. /\ capture' \in [Sources -> {"none", "running", "leaving", "ended"}]
        /\ preview' \in [Sources -> {"none", "working", "ended"}]
    BY <1>0 DEF CoreTypeOK, Sources
  <2>4. stopping' \in [Sources -> BOOLEAN] /\ live' \in [Sources -> BOOLEAN]
    <3>1. stopping' = stopping \/ stopping' = [stopping EXCEPT !["screen"] = FALSE]
      OBVIOUS
    <3>2. stopping \in [Sources -> BOOLEAN] /\ "screen" \in Sources /\ live' = live
          /\ live \in [Sources -> BOOLEAN]
      BY <1>0 DEF CoreTypeOK, Sources
    <3> HIDE DEF StartScreen, Spawn, CoreInv
    <3> QED
      BY <3>1, <3>2
  <2>5. sound' \in Modes \cup {None} /\ stray' \in Nat
    BY <1>0 DEF CoreTypeOK, Modes
  <2>6. told' \subseteq Sources
    BY CallFacts, <1>0 DEF CoreTypeOK
  <2>7. holder' \in Starts \cup Others \cup {None} /\ at' \in Steps
    BY <1>0 DEF CoreTypeOK, Steps
  <2> QED
    BY <1>0, <2>1, <2>2, <2>3, <2>4, <2>5, <2>6, <2>7 DEF CoreTypeOK, Steps, Sources, Modes
<1>2. StepInv'
  BY CallFacts, <1>0 DEF CoreTypeOK, StepInv, Sources
<1>3. LinkInv'
  BY CallFacts, <1>0 DEF CoreTypeOK, StepInv, LinkInv, Doing, Sources
<1>4. ThreadInv'
  BY CallFacts, <1>0 DEF CoreTypeOK, StepInv, ThreadInv, Mine, HasCapture, HasPreview, Sources
<1>5. DueInv'
  BY CallFacts, <1>0 DEF CoreTypeOK, StepInv, LinkInv, ThreadInv, DueInv, Mine, Doing, Aired,
     HasCapture, Sources
<1>6. AirInv'
  BY CallFacts, <1>0 DEF CoreTypeOK, StepInv, LinkInv, AirInv, Mine, Doing, Aired, TakenDown,
     Sources
<1> QED
  BY <1>1, <1>2, <1>3, <1>4, <1>5, <1>6

\* The screen becomes live, with its sound or in silence.
LEMMA StartSoundKeeps == ASSUME CoreInv, StartSound PROVE CoreInv'
<1> USE CoreAssumption DEF CoreInv, StartSound, Holds, Unlock, OpenClient, Free, lock, link,
   threads
<1>0. CoreTypeOK
  OBVIOUS
<1>1. CoreTypeOK'
  <2>1. faults' \in 0 .. MaxFaults
    BY <1>0, FaultFacts DEF CoreTypeOK
  <2>2. due' \in [Sources -> Nat]
    BY <1>0 DEF CoreTypeOK
  <2>3. /\ capture' \in [Sources -> {"none", "running", "leaving", "ended"}]
        /\ preview' \in [Sources -> {"none", "working", "ended"}]
    BY <1>0 DEF CoreTypeOK, Sources
  <2>4. stopping' \in [Sources -> BOOLEAN] /\ live' \in [Sources -> BOOLEAN]
    BY <1>0 DEF CoreTypeOK, Sources
  <2>5. sound' \in Modes \cup {None} /\ stray' \in Nat
    BY <1>0 DEF CoreTypeOK, Modes
  <2>6. told' \subseteq Sources
    BY CallFacts, <1>0 DEF CoreTypeOK
  <2>7. holder' \in Starts \cup Others \cup {None} /\ at' \in Steps
    BY <1>0 DEF CoreTypeOK, Steps
  <2> QED
    BY <1>0, <2>1, <2>2, <2>3, <2>4, <2>5, <2>6, <2>7 DEF CoreTypeOK, Steps, Sources, Modes
<1>2. StepInv'
  BY CallFacts, <1>0 DEF CoreTypeOK, StepInv, Sources
<1>3. LinkInv'
  BY CallFacts, <1>0 DEF CoreTypeOK, StepInv, LinkInv, Doing, Sources
<1>4. ThreadInv'
  BY CallFacts, <1>0 DEF CoreTypeOK, StepInv, ThreadInv, Mine, HasCapture, HasPreview, Sources
<1>5. DueInv'
  BY CallFacts, <1>0 DEF CoreTypeOK, StepInv, LinkInv, ThreadInv, DueInv, Mine, Doing, Aired,
     HasCapture, Sources
<1>6. AirInv'
  BY CallFacts, <1>0 DEF CoreTypeOK, StepInv, LinkInv, AirInv, Mine, Doing, Aired, TakenDown,
     Sources
<1> QED
  BY <1>1, <1>2, <1>3, <1>4, <1>5, <1>6

\* The camera's preview starts before the camera is open.
LEMMA StartPreviewKeeps == ASSUME CoreInv, StartPreview PROVE CoreInv'
<1> USE CoreAssumption DEF CoreInv, StartPreview, Holds, Goto, Free, lock, link, threads
<1>0. CoreTypeOK
  OBVIOUS
<1>1. CoreTypeOK'
  BY CallFacts, <1>0 DEF CoreTypeOK, Steps, Sources, Modes
<1>2. StepInv'
  BY CallFacts, <1>0 DEF CoreTypeOK, StepInv, Sources
<1>3. LinkInv'
  BY CallFacts, <1>0 DEF CoreTypeOK, StepInv, LinkInv, Doing, Sources
<1>4. ThreadInv'
  BY CallFacts, <1>0 DEF CoreTypeOK, StepInv, ThreadInv, Mine, HasCapture, HasPreview, Sources
<1>5. DueInv'
  BY CallFacts, <1>0 DEF CoreTypeOK, StepInv, LinkInv, ThreadInv, DueInv, Mine, Doing, Aired,
     HasCapture, Sources
<1>6. AirInv'
  BY CallFacts, <1>0 DEF CoreTypeOK, StepInv, LinkInv, AirInv, Mine, Doing, Aired, TakenDown,
     Sources
<1> QED
  BY <1>1, <1>2, <1>3, <1>4, <1>5, <1>6

\* The camera opens, or its preview is left to stop.
LEMMA OpenCameraKeeps == ASSUME CoreInv, OpenCamera PROVE CoreInv'
<1> USE CoreAssumption DEF CoreInv, OpenCamera, Holds, Goto, Spawn, Free, lock, link, threads
<1>0. CoreTypeOK
  OBVIOUS
<1>1. CoreTypeOK'
  <2>1. faults' \in 0 .. MaxFaults
    BY <1>0, FaultFacts DEF CoreTypeOK
  <2>2. due' \in [Sources -> Nat]
    BY <1>0 DEF CoreTypeOK
  <2>3. /\ capture' \in [Sources -> {"none", "running", "leaving", "ended"}]
        /\ preview' \in [Sources -> {"none", "working", "ended"}]
    BY <1>0 DEF CoreTypeOK, Sources
  <2>4. stopping' \in [Sources -> BOOLEAN] /\ live' \in [Sources -> BOOLEAN]
    <3>1. stopping' = stopping \/ stopping' = [stopping EXCEPT !["camera"] = FALSE]
      OBVIOUS
    <3>2. stopping \in [Sources -> BOOLEAN] /\ "camera" \in Sources /\ live' = live
          /\ live \in [Sources -> BOOLEAN]
      BY <1>0 DEF CoreTypeOK, Sources
    <3> HIDE DEF OpenCamera, Spawn, CoreInv
    <3> QED
      BY <3>1, <3>2
  <2>5. sound' \in Modes \cup {None} /\ stray' \in Nat
    BY <1>0 DEF CoreTypeOK, Modes
  <2>6. told' \subseteq Sources
    BY CallFacts, <1>0 DEF CoreTypeOK
  <2>7. holder' \in Starts \cup Others \cup {None} /\ at' \in Steps
    BY <1>0 DEF CoreTypeOK, Steps
  <2> QED
    BY <1>0, <2>1, <2>2, <2>3, <2>4, <2>5, <2>6, <2>7 DEF CoreTypeOK, Steps, Sources, Modes
<1>2. StepInv'
  BY CallFacts, <1>0 DEF CoreTypeOK, StepInv, Sources
<1>3. LinkInv'
  BY CallFacts, <1>0 DEF CoreTypeOK, StepInv, LinkInv, Doing, Sources
<1>4. ThreadInv'
  BY CallFacts, <1>0 DEF CoreTypeOK, StepInv, ThreadInv, Mine, HasCapture, HasPreview, Sources
<1>5. DueInv'
  BY CallFacts, <1>0 DEF CoreTypeOK, StepInv, LinkInv, ThreadInv, DueInv, Mine, Doing, Aired,
     HasCapture, Sources
<1>6. AirInv'
  BY CallFacts, <1>0 DEF CoreTypeOK, StepInv, LinkInv, AirInv, Mine, Doing, Aired, TakenDown,
     Sources
<1> QED
  BY <1>1, <1>2, <1>3, <1>4, <1>5, <1>6

\* The camera becomes live, or its capture is left to stop.
LEMMA PublishCameraKeeps == ASSUME CoreInv, PublishCamera PROVE CoreInv'
<1> USE CoreAssumption DEF CoreInv, PublishCamera, Holds, Goto, Unlock, Free, lock, link,
   threads
<1>0. CoreTypeOK
  OBVIOUS
<1>a. "camera" \in Sources /\ "video" \in Kinds
  BY DEF Sources, Kinds
<1>b. CASE /\ OnAir("camera", "video") /\ UNCHANGED stopping
           /\ live' = [live EXCEPT !["camera"] = TRUE] /\ Unlock
  <2> USE <1>b
  <2>a. PICK t \in Tracks : /\ t[1] = "camera" /\ t[2] = "video" /\ t \notin onAir
                           /\ onAir' = onAir \cup {t}
                           /\ held'["camera"] = {x \in held["camera"] : x[2] # "video"} \cup {t}
    BY <1>0, <1>a, OnAirFacts
  <2>b. /\ up /\ UNCHANGED <<publisher, up, adrift, faults>>
        /\ held' \in [Sources -> SUBSET Tracks]
        /\ \A x \in Sources \ {"camera"} : held'[x] = held[x]
    BY <1>0, <1>a, OnAirFacts
  <2>1. CoreTypeOK'
    BY CallFacts, <1>0, <2>a, <2>b DEF CoreTypeOK, Steps, Sources, Modes
  <2>2. StepInv'
    BY CallFacts, <1>0, <2>a, <2>b DEF CoreTypeOK, StepInv, Sources
  <2>3. LinkInv'
    BY CallFacts, <1>0, <2>a, <2>b DEF CoreTypeOK, StepInv, LinkInv, Doing, Sources
  <2>4. ThreadInv'
    BY CallFacts, <1>0, <2>a, <2>b DEF CoreTypeOK, StepInv, ThreadInv, Mine, HasCapture,
       HasPreview, Sources
  <2>5. DueInv'
    BY CallFacts, <1>0, <2>a, <2>b DEF CoreTypeOK, StepInv, LinkInv, ThreadInv, DueInv, Mine,
       Doing, Aired, HasCapture, Sources
  <2>6. AirInv'
    <3>1. \A x \in Sources : \A y \in held'[x] : y[1] = x
      BY <1>0, <1>a, <2>a, <2>b DEF CoreTypeOK, AirInv
    <3>2. adrift' \subseteq onAir'
      BY <2>a, <2>b DEF AirInv
    <3>3. up' => \A x \in Sources :
            held'[x] \subseteq onAir' /\ (Aired(x)' => held'[x] # {} /\ held'[x] \cap adrift' = {})
      BY CallFacts, <1>0, <1>a, <2>a, <2>b DEF CoreTypeOK, StepInv, AirInv, Mine, Doing, Aired,
         TakenDown, Sources, Tracks, Kinds
    <3>4. ASSUME NEW y \in onAir' \ adrift'
          PROVE  y \in held'[y[1]] /\ (Aired(y[1])' \/ TakenDown(y[1])')
      <4>1. CASE y = t
        BY CallFacts, <1>0, <2>a, <2>b, <4>1 DEF CoreTypeOK, StepInv, Doing, Aired, Sources
      <4>2. CASE y # t
        <5>1. /\ y \in onAir \ adrift /\ y[1] \in Sources
              /\ y \in held[y[1]] /\ (Aired(y[1]) \/ TakenDown(y[1]))
          BY <1>0, <2>a, <2>b, <4>2 DEF CoreTypeOK, AirInv, Tracks
        <5>2. CASE y[1] = "camera"
          BY CallFacts, <1>0, <2>a, <2>b, <5>1, <5>2 DEF CoreTypeOK, StepInv, AirInv, Mine,
             Doing, Aired, TakenDown, Sources
        <5>3. CASE y[1] # "camera"
          BY CallFacts, <1>0, <2>b, <5>1, <5>3 DEF CoreTypeOK, StepInv, Mine, Doing, Aired,
             TakenDown, Sources
        <5> QED
          BY <5>2, <5>3
      <4> QED
        BY <4>1, <4>2
    <3>5. \A y \in held'["camera"] : y[2] # "audio"
      BY <1>0, <1>a, <2>a, <2>b DEF CoreTypeOK, AirInv, Sources
    <3>6. \A y \in held'["screen"] : y[2] = "audio" =>
            live'["screen"] \/ Doing({"start"}, {"capture", "sound"})' \/ TakenDown("screen")'
      BY CallFacts, <1>0, <1>a, <2>a, <2>b DEF CoreTypeOK, StepInv, AirInv, Mine, Doing,
         TakenDown, Sources
    <3> QED
      BY <3>1, <3>2, <3>3, <3>4, <3>5, <3>6 DEF AirInv
  <2> QED
    BY <2>1, <2>2, <2>3, <2>4, <2>5, <2>6
<1>c. CASE /\ Refused /\ UNCHANGED live
           /\ stopping' = [stopping EXCEPT !["camera"] = TRUE] /\ Goto("stop_capture")
  <2> USE <1>c
  <2>a. faults' \in 0 .. MaxFaults
    BY <1>0, RefusedFacts
  <2>1. CoreTypeOK'
    BY CallFacts, <1>0, <2>a DEF CoreTypeOK, Steps, Sources, Modes
  <2>2. StepInv'
    BY CallFacts, <1>0, <2>a DEF CoreTypeOK, StepInv, Sources
  <2>3. LinkInv'
    BY CallFacts, <1>0, <2>a DEF CoreTypeOK, StepInv, LinkInv, Doing, Sources
  <2>4. ThreadInv'
    BY CallFacts, <1>0, <2>a DEF CoreTypeOK, StepInv, ThreadInv, Mine, HasCapture, HasPreview,
       Sources
  <2>5. DueInv'
    BY CallFacts, <1>0, <2>a DEF CoreTypeOK, StepInv, LinkInv, ThreadInv, DueInv, Mine, Doing,
       Aired, HasCapture, Sources
  <2>6. AirInv'
    BY CallFacts, <1>0, <2>a DEF CoreTypeOK, StepInv, LinkInv, AirInv, Mine, Doing, Aired,
       TakenDown, Sources
  <2> QED
    BY <2>1, <2>2, <2>3, <2>4, <2>5, <2>6
<1> QED
  BY <1>b, <1>c

\* The capture's thread has been joined.
LEMMA StopCaptureKeeps == ASSUME CoreInv, StopCapture PROVE CoreInv'
<1> USE CoreAssumption DEF CoreInv, StopCapture, Goto, Free, lock, link, threads
<1>0. CoreTypeOK
  OBVIOUS
<1>1. CoreTypeOK'
  BY CallFacts, <1>0 DEF CoreTypeOK, Steps, Sources, Modes
<1>2. StepInv'
  BY CallFacts, <1>0 DEF CoreTypeOK, StepInv, Sources
<1>3. LinkInv'
  BY CallFacts, <1>0 DEF CoreTypeOK, StepInv, LinkInv, Doing, Sources
<1>4. ThreadInv'
  BY CallFacts, <1>0 DEF CoreTypeOK, StepInv, ThreadInv, Mine, HasCapture, HasPreview, Sources
<1>5. DueInv'
  BY CallFacts, <1>0 DEF CoreTypeOK, StepInv, LinkInv, ThreadInv, DueInv, Mine, Doing, Aired,
     HasCapture, Sources
<1>6. AirInv'
  BY CallFacts, <1>0 DEF CoreTypeOK, StepInv, LinkInv, AirInv, Mine, Doing, Aired, TakenDown,
     Sources
<1> QED
  BY <1>1, <1>2, <1>3, <1>4, <1>5, <1>6

\* The preview's thread has been joined.
LEMMA StopPreviewKeeps == ASSUME CoreInv, StopPreview PROVE CoreInv'
<1> USE CoreAssumption DEF CoreInv, StopPreview, Goto, Free, lock, link, threads
<1>0. CoreTypeOK
  OBVIOUS
<1>1. CoreTypeOK'
  BY CallFacts, <1>0 DEF CoreTypeOK, Steps, Sources, Modes
<1>2. StepInv'
  BY CallFacts, <1>0 DEF CoreTypeOK, StepInv, Sources
<1>3. LinkInv'
  BY CallFacts, <1>0 DEF CoreTypeOK, StepInv, LinkInv, Doing, Sources
<1>4. ThreadInv'
  BY CallFacts, <1>0 DEF CoreTypeOK, StepInv, ThreadInv, Mine, HasCapture, HasPreview, Sources
<1>5. DueInv'
  BY CallFacts, <1>0 DEF CoreTypeOK, StepInv, LinkInv, ThreadInv, DueInv, Mine, Doing, Aired,
     HasCapture, Sources
<1>6. AirInv'
  BY CallFacts, <1>0 DEF CoreTypeOK, StepInv, LinkInv, AirInv, Mine, Doing, Aired, TakenDown,
     Sources
<1> QED
  BY <1>1, <1>2, <1>3, <1>4, <1>5, <1>6

\* The sound's thread has been joined.
LEMMA StopSoundKeeps == ASSUME CoreInv, StopSound PROVE CoreInv'
<1> USE CoreAssumption DEF CoreInv, StopSound, Goto, Free, lock, link, threads
<1>0. CoreTypeOK
  OBVIOUS
<1>1. CoreTypeOK'
  BY CallFacts, <1>0 DEF CoreTypeOK, Steps, Sources, Modes
<1>2. StepInv'
  BY CallFacts, <1>0 DEF CoreTypeOK, StepInv, Sources
<1>3. LinkInv'
  BY CallFacts, <1>0 DEF CoreTypeOK, StepInv, LinkInv, Doing, Sources
<1>4. ThreadInv'
  BY CallFacts, <1>0 DEF CoreTypeOK, StepInv, ThreadInv, Mine, HasCapture, HasPreview, Sources
<1>5. DueInv'
  BY CallFacts, <1>0 DEF CoreTypeOK, StepInv, LinkInv, ThreadInv, DueInv, Mine, Doing, Aired,
     HasCapture, Sources
<1>6. AirInv'
  BY CallFacts, <1>0 DEF CoreTypeOK, StepInv, LinkInv, AirInv, Mine, Doing, Aired, TakenDown,
     Sources
<1> QED
  BY <1>1, <1>2, <1>3, <1>4, <1>5, <1>6

\* The tracks of the slot leave the air or go adrift; those of the other source
\* stay.
LEMMA UnpublishKeeps == ASSUME CoreInv, Unpublish PROVE CoreInv'
<1> USE CoreAssumption DEF CoreInv, Unpublish, Goto, Free, lock, link, threads
<1>0. CoreTypeOK
  OBVIOUS
<1>a. PICK left \in SUBSET (held[holder.source] \cap onAir) :
        /\ (left = {} /\ UNCHANGED faults) \/ (left # {} /\ Fault)
        /\ onAir' = (onAir \ held[holder.source]) \cup left
        /\ adrift' = (adrift \ held[holder.source]) \cup left
  OBVIOUS
<1>b. faults' \in 0 .. MaxFaults
  BY <1>0, <1>a, FaultFacts DEF CoreTypeOK
<1>1. CoreTypeOK'
  <2>1. onAir' \subseteq Tracks /\ adrift' \subseteq Tracks
    BY <1>0, <1>a DEF CoreTypeOK
  <2> QED
    BY CallFacts, <1>0, <1>b, <2>1 DEF CoreTypeOK, Steps, Sources, Modes
<1>2. StepInv'
  BY CallFacts, <1>0 DEF CoreTypeOK, StepInv, Sources
<1>3. LinkInv'
  BY CallFacts, <1>0 DEF CoreTypeOK, StepInv, LinkInv, Doing, Sources
<1>4. ThreadInv'
  BY CallFacts, <1>0 DEF CoreTypeOK, StepInv, ThreadInv, Mine, HasCapture, HasPreview, Sources
<1>5. DueInv'
  BY CallFacts, <1>0 DEF CoreTypeOK, StepInv, LinkInv, ThreadInv, DueInv, Mine, Doing, Aired,
     HasCapture, Sources
<1>6. AirInv'
  BY CallFacts, <1>0 DEF CoreTypeOK, StepInv, LinkInv, AirInv, Mine, Doing, Aired, TakenDown,
     Sources
<1> QED
  BY <1>1, <1>2, <1>3, <1>4, <1>5, <1>6

\* The connection closes unless something is live.
LEMMA CloseIfIdleKeeps == ASSUME CoreInv, CloseIfIdle PROVE CoreInv'
<1> USE CoreAssumption DEF CoreInv, CloseIfIdle, Unlock, Lost, Free, lock, link, threads
<1>0. CoreTypeOK
  OBVIOUS
<1>1. CoreTypeOK'
  <2>1. faults' \in 0 .. MaxFaults
    BY <1>0, FaultFacts DEF CoreTypeOK
  <2>2. due' \in [Sources -> Nat]
    BY <1>0 DEF CoreTypeOK
  <2> QED
    BY CallFacts, <1>0, <2>1, <2>2 DEF CoreTypeOK, Steps, Sources, Modes
<1>2. StepInv'
  BY CallFacts, <1>0 DEF CoreTypeOK, StepInv, Sources
<1>3. LinkInv'
  BY CallFacts, <1>0 DEF CoreTypeOK, StepInv, LinkInv, Doing, Sources
<1>4. ThreadInv'
  BY CallFacts, <1>0 DEF CoreTypeOK, StepInv, ThreadInv, Mine, HasCapture, HasPreview, Sources
<1>5. DueInv'
  BY CallFacts, <1>0 DEF CoreTypeOK, StepInv, LinkInv, ThreadInv, DueInv, Mine, Doing, Aired,
     HasCapture, Sources
<1>6. AirInv'
  BY CallFacts, <1>0 DEF CoreTypeOK, StepInv, LinkInv, AirInv, Mine, Doing, Aired, TakenDown,
     Sources
<1> QED
  BY <1>1, <1>2, <1>3, <1>4, <1>5, <1>6

\* The statistics are returned.
LEMMA StatsKeeps == ASSUME CoreInv, Stats PROVE CoreInv'
<1> USE CoreAssumption DEF CoreInv, Stats, Unlock, Free, lock, link, threads
<1>0. CoreTypeOK
  OBVIOUS
<1>1. CoreTypeOK'
  BY CallFacts, <1>0 DEF CoreTypeOK, Steps, Sources, Modes
<1>2. StepInv'
  BY CallFacts, <1>0 DEF CoreTypeOK, StepInv, Sources
<1>3. LinkInv'
  BY CallFacts, <1>0 DEF CoreTypeOK, StepInv, LinkInv, Doing, Sources
<1>4. ThreadInv'
  BY CallFacts, <1>0 DEF CoreTypeOK, StepInv, ThreadInv, Mine, HasCapture, HasPreview, Sources
<1>5. DueInv'
  BY CallFacts, <1>0 DEF CoreTypeOK, StepInv, LinkInv, ThreadInv, DueInv, Mine, Doing, Aired,
     HasCapture, Sources
<1>6. AirInv'
  BY CallFacts, <1>0 DEF CoreTypeOK, StepInv, LinkInv, AirInv, Mine, Doing, Aired, TakenDown,
     Sources
<1> QED
  BY <1>1, <1>2, <1>3, <1>4, <1>5, <1>6

\* A source that disappears schedules its give_up.
LEMMA CaptureLostKeeps == ASSUME CoreInv, NEW s \in Sources, CaptureLost(s) PROVE CoreInv'
<1> USE CoreAssumption DEF CoreInv, CaptureLost, Fault, Free, lock, link, threads
<1>0. CoreTypeOK
  OBVIOUS
<1>1. CoreTypeOK'
  BY CallFacts, <1>0 DEF CoreTypeOK, Steps, Sources, Modes
<1>2. StepInv'
  BY CallFacts, <1>0 DEF CoreTypeOK, StepInv, Sources
<1>3. LinkInv'
  BY CallFacts, <1>0 DEF CoreTypeOK, StepInv, LinkInv, Doing, Sources
<1>4. ThreadInv'
  BY CallFacts, <1>0 DEF CoreTypeOK, StepInv, ThreadInv, Mine, HasCapture, HasPreview, Sources
<1>5. DueInv'
  BY CallFacts, <1>0 DEF CoreTypeOK, StepInv, LinkInv, ThreadInv, DueInv, Mine, Doing, Aired,
     HasCapture, Sources
<1>6. AirInv'
  BY CallFacts, <1>0 DEF CoreTypeOK, StepInv, LinkInv, AirInv, Mine, Doing, Aired, TakenDown,
     Sources
<1> QED
  BY <1>1, <1>2, <1>3, <1>4, <1>5, <1>6

\* A capture's thread ends.
LEMMA CaptureLeavesKeeps == ASSUME CoreInv, NEW s \in Sources, CaptureLeaves(s) PROVE CoreInv'
<1> USE CoreAssumption DEF CoreInv, CaptureLeaves, Free, lock, link, threads
<1>0. CoreTypeOK
  OBVIOUS
<1>1. CoreTypeOK'
  BY CallFacts, <1>0 DEF CoreTypeOK, Steps, Sources, Modes
<1>2. StepInv'
  BY CallFacts, <1>0 DEF CoreTypeOK, StepInv, Sources
<1>3. LinkInv'
  BY CallFacts, <1>0 DEF CoreTypeOK, StepInv, LinkInv, Doing, Sources
<1>4. ThreadInv'
  BY CallFacts, <1>0 DEF CoreTypeOK, StepInv, ThreadInv, Mine, HasCapture, HasPreview, Sources
<1>5. DueInv'
  BY CallFacts, <1>0 DEF CoreTypeOK, StepInv, LinkInv, ThreadInv, DueInv, Mine, Doing, Aired,
     HasCapture, Sources
<1>6. AirInv'
  BY CallFacts, <1>0 DEF CoreTypeOK, StepInv, LinkInv, AirInv, Mine, Doing, Aired, TakenDown,
     Sources
<1> QED
  BY <1>1, <1>2, <1>3, <1>4, <1>5, <1>6

\* A preview's thread ends once its Tap is gone.
LEMMA PreviewEndsKeeps == ASSUME CoreInv, NEW s \in Sources, PreviewEnds(s) PROVE CoreInv'
<1> USE CoreAssumption DEF CoreInv, PreviewEnds, Tapped, Free, lock, link, threads
<1>0. CoreTypeOK
  OBVIOUS
<1>1. CoreTypeOK'
  BY CallFacts, <1>0 DEF CoreTypeOK, Steps, Sources, Modes
<1>2. StepInv'
  BY CallFacts, <1>0 DEF CoreTypeOK, StepInv, Sources
<1>3. LinkInv'
  BY CallFacts, <1>0 DEF CoreTypeOK, StepInv, LinkInv, Doing, Sources
<1>4. ThreadInv'
  BY CallFacts, <1>0 DEF CoreTypeOK, StepInv, ThreadInv, Mine, HasCapture, HasPreview, Sources
<1>5. DueInv'
  BY CallFacts, <1>0 DEF CoreTypeOK, StepInv, LinkInv, ThreadInv, DueInv, Mine, Doing, Aired,
     HasCapture, Sources
<1>6. AirInv'
  BY CallFacts, <1>0 DEF CoreTypeOK, StepInv, LinkInv, AirInv, Mine, Doing, Aired, TakenDown,
     Sources
<1> QED
  BY <1>1, <1>2, <1>3, <1>4, <1>5, <1>6

\* A sound that answered too late ends.
LEMMA StrayEndsKeeps == ASSUME CoreInv, StrayEnds PROVE CoreInv'
<1> USE CoreAssumption DEF CoreInv, StrayEnds, Free, lock, link, threads
<1>0. CoreTypeOK
  OBVIOUS
<1>1. CoreTypeOK'
  BY CallFacts, <1>0 DEF CoreTypeOK, Steps, Sources, Modes
<1>2. StepInv'
  BY CallFacts, <1>0 DEF CoreTypeOK, StepInv, Sources
<1>3. LinkInv'
  BY CallFacts, <1>0 DEF CoreTypeOK, StepInv, LinkInv, Doing, Sources
<1>4. ThreadInv'
  BY CallFacts, <1>0 DEF CoreTypeOK, StepInv, ThreadInv, Mine, HasCapture, HasPreview, Sources
<1>5. DueInv'
  BY CallFacts, <1>0 DEF CoreTypeOK, StepInv, LinkInv, ThreadInv, DueInv, Mine, Doing, Aired,
     HasCapture, Sources
<1>6. AirInv'
  BY CallFacts, <1>0 DEF CoreTypeOK, StepInv, LinkInv, AirInv, Mine, Doing, Aired, TakenDown,
     Sources
<1> QED
  BY <1>1, <1>2, <1>3, <1>4, <1>5, <1>6

\* A lost connection schedules both give_ups and carries nothing.
LEMMA DisconnectKeeps == ASSUME CoreInv, Disconnect PROVE CoreInv'
<1> USE CoreAssumption DEF CoreInv, Disconnect, Lost, Free, lock, link, threads
<1>0. CoreTypeOK
  OBVIOUS
<1>1. CoreTypeOK'
  <2>1. faults' \in 0 .. MaxFaults
    BY <1>0, FaultFacts DEF CoreTypeOK
  <2>2. due' \in [Sources -> Nat]
    BY <1>0 DEF CoreTypeOK
  <2> QED
    BY CallFacts, <1>0, <2>1, <2>2 DEF CoreTypeOK, Steps, Sources, Modes
<1>2. StepInv'
  BY CallFacts, <1>0 DEF CoreTypeOK, StepInv, Sources
<1>3. LinkInv'
  BY CallFacts, <1>0 DEF CoreTypeOK, StepInv, LinkInv, Doing, Sources
<1>4. ThreadInv'
  BY CallFacts, <1>0 DEF CoreTypeOK, StepInv, ThreadInv, Mine, HasCapture, HasPreview, Sources
<1>5. DueInv'
  BY CallFacts, <1>0 DEF CoreTypeOK, StepInv, LinkInv, ThreadInv, DueInv, Mine, Doing, Aired,
     HasCapture, Sources
<1>6. AirInv'
  BY CallFacts, <1>0 DEF CoreTypeOK, StepInv, LinkInv, AirInv, Mine, Doing, Aired, TakenDown,
     Sources
<1> QED
  BY <1>1, <1>2, <1>3, <1>4, <1>5, <1>6

\* A step that changes nothing.
LEMMA StutterKeeps == ASSUME CoreInv, UNCHANGED vars PROVE CoreInv'
BY DEF vars, CoreInv, CoreTypeOK, StepInv, LinkInv, ThreadInv, DueInv, AirInv, Mine, Doing,
   Aired, TakenDown, HasCapture, HasPreview

\* Every step of a command, a thread or the connection keeps the invariant.
LEMMA StepKeeps == CoreInv /\ [Next]_vars => CoreInv'
BY TakeStartKeeps, TakeStopKeeps, TakeStatsKeeps, TakeGiveUpKeeps, HearKeeps, ConnectKeeps,
   PublishScreenKeeps, PublishAudioKeeps, StartScreenKeeps, StartSoundKeeps,
      StartPreviewKeeps, OpenCameraKeeps, PublishCameraKeeps, StopCaptureKeeps,
         StopPreviewKeeps, StopSoundKeeps, UnpublishKeeps, CloseIfIdleKeeps, StatsKeeps,
            CaptureLostKeeps, CaptureLeavesKeeps, PreviewEndsKeeps, StrayEndsKeeps,
               DisconnectKeeps, StutterKeeps DEF Next, Command

\* The invariant of the core between any two steps.  Its AirInv leaves out the
\* tracks in adrift, which LiveKit failed to take down or to complete.
THEOREM CoreInvariant == CoreSpec => []CoreInv
BY InitCore, StepKeeps, PTL DEF CoreSpec

\* A connection exists exactly while something is live, whatever fails
\* (publisher.rs:9, share.rs:118).
THEOREM IdleCoreIsClosed == CoreSpec => []IdleIsClosed
<1>1. CoreInv => IdleIsClosed
  BY DEF CoreInv, LinkInv, IdleIsClosed, Free
<1> QED
  BY CoreInvariant, <1>1, PTL

\* The core never believes in a source that died without a give_up to come
\* (share.rs:279).
THEOREM LossesArePending == CoreSpec => []LossIsPending
<1>1. CoreInv => LossIsPending
  BY DEF CoreInv, CoreTypeOK, ThreadInv, DueInv, LossIsPending, Dead, Free, Mine, HasCapture,
     Aired
<1> QED
  BY CoreInvariant, <1>1, PTL

\* Between commands the threads are those of the live sources.
THEOREM NoThreadLeaks == CoreSpec => []NothingLeaks
<1>1. CoreInv => NothingLeaks
  BY DEF CoreInv, ThreadInv, NothingLeaks, Free, Mine, HasCapture, HasPreview
<1> QED
  BY CoreInvariant, <1>1, PTL

\* On a connection that is up, LiveKit carries a live source with the tracks of
\* its slot.  Everything else it carries was left there by a refused audio track
\* or a failed unpublish_track (publisher.rs:417, :497), and ends with the last
\* live source.
THEOREM TheAirIsLive == CoreSpec => []OnAirIsLive
<1>1. CoreInv => OnAirIsLive
  BY DEF CoreInv, CoreTypeOK, LinkInv, AirInv, OnAirIsLive, Free, Mine, Doing, Aired,
     TakenDown, Sources, Tracks
<1> QED
  BY CoreInvariant, <1>1, PTL
=============================================================================
