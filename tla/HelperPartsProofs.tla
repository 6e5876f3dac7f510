-------------------------- MODULE HelperPartsProofs --------------------------
(* What holds of the parts of the native helpers for every value of the      *)
(* bounds: the adaptive bitrate stays between the bounds in force, the       *)
(* foldable's pump never forgets a change, what the simulated app holds of   *)
(* the camera's ring is whole, and the variables of all five have their      *)
(* types.  Each part has its own inductive invariant; a step of the          *)
(* composition is a step of each part, or leaves its variables alone.        *)
EXTENDS MCHelperParts, Sequences, FiniteSetTheorems, WellFoundedInduction, TLAPS

\* What each part sees of a step.
LEMMA PartSteps ==
    ASSUME [PartsNext]_<<part, vars, duo, ring, capture, monitor>>
    PROVE  /\ [Next]_vars /\ [Duo!Next]_duo /\ [Camera!Next]_ring
           /\ [Capture!CaptureNext]_capture /\ [Monitor!MonitorNext]_monitor
BY DEF PartsNext, Adapts, Composes, Films, Captures, Monitors

-----------------------------------------------------------------------------
(* The adaptive bitrate.                                                     *)

LEMMA LowerHigher ==
    ASSUME NEW least \in Nat, NEW most \in Nat, least <= most, NEW n \in Nat
    PROVE  /\ Lower(Higher(n, least), most) \in Nat
           /\ least <= Lower(Higher(n, least), most) /\ Lower(Higher(n, least), most) <= most
BY DEF Lower, Higher

AllBounds == {Bounds(m, s) : m \in Modes, s \in Sizes}

LEMMA BoundsFacts ==
    ASSUME NEW b \in AllBounds
    PROVE  b.least \in Nat /\ b.most \in Nat /\ b.least <= b.most
<1>1. PICK m \in Modes, s \in Sizes : b = [least |-> Least(m), most |-> Most(m, s)]
    BY DEF AllBounds, Bounds
<1> QED
    BY <1>1, AdaptiveAssumption

\* setBounds leaves the target within the new bounds.
LEMMA SetBoundsClamps ==
    ASSUME NEW b \in AllBounds, bitrate \in Nat, SetBounds(b)
    PROVE  /\ bounds' \in AllBounds
           /\ bitrate' \in Nat /\ bounds'.least <= bitrate' /\ bitrate' <= bounds'.most
<1>1. b.least \in Nat /\ b.most \in Nat /\ b.least <= b.most
    BY BoundsFacts
<1>2. bounds' = b /\ bitrate' = Lower(Higher(bitrate, b.least), b.most)
    BY DEF SetBounds
<1>3. /\ Lower(Higher(bitrate, b.least), b.most) \in Nat
      /\ b.least <= Lower(Higher(bitrate, b.least), b.most)
      /\ Lower(Higher(bitrate, b.least), b.most) <= b.most
    BY <1>1, LowerHigher
<1> QED
    BY <1>2, <1>3

\* The tick's result is within the bounds in force.
LEMMA NextRateInBounds ==
    ASSUME TypeOK, RateInBounds
    PROVE  NextRate \in Nat /\ bounds.least <= NextRate /\ NextRate <= bounds.most
<1>1. /\ bounds.least \in Nat /\ bounds.most \in Nat /\ bitrate \in Nat
      /\ bounds.least <= bitrate /\ bitrate <= bounds.most
  <2>1. bounds \in AllBounds
      BY DEF TypeOK, AllBounds
  <2> QED
      BY <2>1, BoundsFacts DEF TypeOK, RateInBounds
<1>2. CASE link = "congested"
  <2>1. (bitrate * 6) \div 10 \in Nat /\ (bitrate * 6) \div 10 <= bitrate
      BY <1>1
  <2>2. NextRate = Higher(bounds.least, (bitrate * 6) \div 10)
      BY <1>2 DEF NextRate
  <2> QED
      BY <1>1, <2>1, <2>2 DEF Higher
<1>3. CASE link = "clear"
  <2>1. bounds.most \div 16 \in Nat
      BY <1>1
  <2>2. NextRate = Lower(bounds.most, bitrate + Higher(1, bounds.most \div 16))
      BY <1>3 DEF NextRate
  <2> QED
      BY <1>1, <2>1, <2>2 DEF Higher, Lower
<1>4. CASE link \notin {"congested", "clear"}
    BY <1>1, <1>4 DEF NextRate
<1> QED
    BY <1>2, <1>3, <1>4

LEMMA AdaptiveNextKeeps == TypeOK /\ RateInBounds /\ [Next]_vars => TypeOK' /\ RateInBounds'
<1> SUFFICES ASSUME TypeOK, RateInBounds, [Next]_vars PROVE TypeOK' /\ RateInBounds'
    OBVIOUS
<1>0. MaxSwitches \in Nat
    BY AdaptiveAssumption
<1>1. CASE Tick
    BY <1>1, NextRateInBounds DEF Tick, TypeOK, RateInBounds
<1>2. CASE Apply
    BY <1>2 DEF Apply, TypeOK, RateInBounds
<1>3. ASSUME NEW s \in Sizes, FrameOfSize(s) PROVE TypeOK' /\ RateInBounds'
    BY <1>0, <1>3 DEF FrameOfSize, TypeOK, RateInBounds
<1>4. CASE UpdateResolution
  <2>1. resize \in Sizes /\ mode \in Modes /\ bitrate \in Nat /\ SetBounds(Bounds(mode, resize))
      BY <1>4 DEF UpdateResolution, TypeOK
  <2>2. /\ bounds' \in AllBounds
        /\ bitrate' \in Nat /\ bounds'.least <= bitrate' /\ bitrate' <= bounds'.most
    <3>1. Bounds(mode, resize) \in AllBounds
        BY <2>1 DEF AllBounds
    <3> QED
        BY <2>1, <3>1, SetBoundsClamps
  <2>3. /\ resize' = Idle /\ straddled' \in BOOLEAN
        /\ UNCHANGED <<mode, size, link, tick, switch, encoder, switches>>
      BY <1>4 DEF UpdateResolution
  <2> QED
      BY <2>2, <2>3 DEF TypeOK, RateInBounds, AllBounds
<1>5. ASSUME NEW m \in Modes, RequestMode(m) PROVE TypeOK' /\ RateInBounds'
  <2>1. switch' \in [mode : Modes, size : Sizes] /\ switches' \in 0 .. MaxSwitches
      BY <1>0, <1>5 DEF RequestMode, TypeOK
  <2> QED
      BY <1>5, <2>1 DEF RequestMode, TypeOK, RateInBounds
<1>6. CASE SetMode
  <2>1. /\ switch \in [mode : Modes, size : Sizes] /\ bitrate \in Nat
        /\ SetBounds(Bounds(switch.mode, switch.size))
      BY <1>6 DEF SetMode, TypeOK
  <2>2. /\ bounds' \in AllBounds
        /\ bitrate' \in Nat /\ bounds'.least <= bitrate' /\ bitrate' <= bounds'.most
    <3>1. Bounds(switch.mode, switch.size) \in AllBounds
        BY <2>1 DEF AllBounds
    <3> QED
        BY <2>1, <3>1, SetBoundsClamps
  <2>3. /\ mode' \in Modes /\ switch' = Idle /\ straddled' \in BOOLEAN
        /\ UNCHANGED <<size, link, tick, resize, encoder, switches>>
      BY <1>6, <2>1 DEF SetMode
  <2> QED
      BY <2>2, <2>3 DEF TypeOK, RateInBounds, AllBounds
<1>7. ASSUME NEW report \in {"away", "congested", "busy", "clear"}, LinkChanges(report)
      PROVE  TypeOK' /\ RateInBounds'
    BY <1>7 DEF LinkChanges, TypeOK, RateInBounds
<1>8. CASE UNCHANGED vars
    BY <1>8 DEF vars, TypeOK, RateInBounds
<1> QED
    BY <1>1, <1>2, <1>3, <1>4, <1>5, <1>6, <1>7, <1>8 DEF Next

LEMMA AdaptiveInit == PartsInit => TypeOK /\ RateInBounds
<1> SUFFICES ASSUME Init PROVE TypeOK /\ RateInBounds
    BY DEF PartsInit
<1>1. bounds \in AllBounds
    BY DEF Init, AllBounds
<1>2. bounds.least \in Nat /\ bounds.most \in Nat /\ bounds.least <= bounds.most
    BY <1>1, BoundsFacts
<1>3. MaxSwitches \in Nat
    BY AdaptiveAssumption
<1>4. /\ bitrate = bounds.most /\ encoder = bounds.most /\ switches = 0
      /\ mode \in Modes /\ size \in Sizes /\ link = "away"
      /\ tick = Idle /\ resize = Idle /\ switch = Idle /\ straddled \in BOOLEAN
    BY DEF Init
<1>5. TypeOK
    BY <1>1, <1>2, <1>3, <1>4 DEF TypeOK, AllBounds
<1> QED
    BY <1>2, <1>4, <1>5 DEF RateInBounds

\* The target stays within the bounds in force, for any modes, sizes and bit rates, also when
\* a mode or a resolution moves them under it.
\* (AdaptiveController.setBounds and tick, AdaptiveController.swift)
THEOREM RateStaysInBounds == PartsSpec => []RateInBounds
<1>1. PartsInit => TypeOK /\ RateInBounds
    BY AdaptiveInit
<1>2. TypeOK /\ RateInBounds /\ [PartsNext]_<<part, vars, duo, ring, capture, monitor>>
        => TypeOK' /\ RateInBounds'
    BY PartSteps, AdaptiveNextKeeps
<1> QED
    BY <1>1, <1>2, PTL DEF PartsSpec

-----------------------------------------------------------------------------
(* The foldable's pump.  A pump that is running and not stopped has a drain, *)
(* and a drain that may end has composed what it took.                       *)

DuoInv ==
    /\ Duo!TypeOK /\ PendingIsSeen
    /\ running /\ ~stopped => drain # "none"
    /\ drain = "again" => composed = taken

LEMMA DuoNextKeeps == DuoInv /\ [Duo!Next]_duo => DuoInv'
<1> SUFFICES ASSUME DuoInv, [Duo!Next]_duo PROVE DuoInv'
    OBVIOUS
<1> USE DEF DuoInv, Duo!TypeOK, PendingIsSeen, Duo!PendingIsSeen
<1>1. ASSUME NEW c \in Callers, Duo!Offer(c) PROVE DuoInv'
    BY <1>1 DEF Duo!Offer
<1>2. ASSUME NEW c \in Callers, Duo!Update(c) PROVE DuoInv'
  <2>1. /\ revision' = revision + 1 /\ caller' = [caller EXCEPT ![c] = "schedule"]
        /\ seeded' \in BOOLEAN /\ moving' \in BOOLEAN
        /\ UNCHANGED <<panels, grace, running, stopped, drain, taken, composed>>
      BY <1>2 DEF Duo!Update
  <2>2. caller'[c] = "schedule"
      BY <2>1
  <2> QED
      BY <2>1, <2>2
<1>3. ASSUME NEW c \in Callers, Duo!Schedule(c) PROVE DuoInv'
    BY <1>3 DEF Duo!Schedule, Duo!Scheduled, Duo!Runnable, Duo!GraceOver
<1>4. CASE Duo!GraceEnds
    BY <1>4 DEF Duo!GraceEnds
<1>5. CASE Duo!GraceRetry
    BY <1>5 DEF Duo!GraceRetry, Duo!Runnable
<1>6. CASE Duo!Take
    BY <1>6 DEF Duo!Take
<1>7. CASE Duo!Compose
    BY <1>7 DEF Duo!Compose
<1>8. CASE Duo!Again
    BY <1>8 DEF Duo!Again, Duo!MoreToCompose
<1>9. CASE Duo!Wake
    BY <1>9 DEF Duo!Wake
<1>10. CASE Duo!Stop
    BY <1>10 DEF Duo!Stop
<1>11. CASE UNCHANGED duo
    BY <1>11 DEF duo
<1> QED
    BY <1>1, <1>2, <1>3, <1>4, <1>5, <1>6, <1>7, <1>8, <1>9, <1>10, <1>11 DEF Duo!Next, Duo!Drain

LEMMA DuoInit == PartsInit => DuoInv
<1> SUFFICES ASSUME Duo!Init PROVE DuoInv
    BY DEF PartsInit
<1> QED
    BY DEF Duo!Init, DuoInv, Duo!TypeOK, PendingIsSeen, Duo!PendingIsSeen

\* No panel and no view update waits unseen, for any number of threads and changes: while one
\* is not composed, a drain is under way, or the retry at the end of the hinge grace, or a
\* caller about to schedule.  (DuoFramePump.swift:100-147)
THEOREM ChangesAreSeen == PartsSpec => []PendingIsSeen
<1>1. PartsInit => DuoInv
    BY DuoInit
<1>2. DuoInv /\ [PartsNext]_<<part, vars, duo, ring, capture, monitor>> => DuoInv'
    BY PartSteps, DuoNextKeeps
<1>3. DuoInv => PendingIsSeen
    BY DEF DuoInv
<1> QED
    BY <1>1, <1>2, <1>3, PTL DEF PartsSpec

-----------------------------------------------------------------------------
(* The camera's ring, written by one thread at a time.  The newest surface   *)
(* is never written, and what the app read is newest until the sequence      *)
(* number tells it otherwise.                                                *)

Slots == Camera!Slots
Writers == Camera!Writers
Nothing == Camera!Nothing
Frame == [by : Writers, number : Nat]
Publication == [at : {"away", "pick", "copy", "point", "store"}, latest : Slots, slot : Slots, seq : Nat]

Reads == [at : {"away", "locate", "wrap", "check"}, seq : Nat, slot : Slots]
Buffers == [slot : Slots, frame : Frame \cup {Nothing}, by : Readers]

CameraTypes ==
    /\ writer \in [Writers -> Publication]
    /\ pixels \in [Slots -> Frame \cup {Nothing}]
    /\ write \in Slots /\ latest \in Slots
    /\ seq \in Nat /\ shared \in Nat
    /\ reader \in [Readers -> Reads] /\ seen \in Nat
    /\ held \subseteq Buffers

Storing == \E w \in Writers : writer[w].at = "store"

\* One frame is under way; its surface is neither the newest nor one that the pump holds.
\* A photo may hold it: nothing tells a photo that the surface was picked.
WriterInv ==
    /\ \A v, w \in Writers : writer[v].at # "away" /\ writer[w].at # "away" => v = w
    /\ \A w \in Writers : writer[w].at = "store" => writer[w].seq = seq /\ seq = shared + 1
    /\ ~Storing => seq = shared
    /\ \A w \in Writers :
         /\ writer[w].at = "pick" => writer[w].latest = latest
         /\ writer[w].at \in {"copy", "point"} =>
              writer[w].slot # latest /\ \A b \in held : b.by = "pump" => b.slot # writer[w].slot
         /\ writer[w].at = "point" => pixels[writer[w].slot] # Nothing
    /\ seq # 0 => pixels[latest] # Nothing

\* While no newer frame was announced, the surface that a reader reads is the newest, or was
\* until the frame that is about to be announced.
ReaderInv ==
    \A r \in Readers :
      /\ reader[r].at # "away" => reader[r].seq # 0 /\ reader[r].seq <= shared
      /\ reader[r].at \in {"wrap", "check"} /\ reader[r].seq = shared =>
           pixels[reader[r].slot] # Nothing /\ (reader[r].slot = latest \/ Storing)

CameraInv == CameraTypes /\ WriterInv /\ ReaderInv /\ StreamedWhole

Below == {pair \in Nat \X Nat : pair[1] < pair[2]}

\* A set of naturals has a least element.
LEMMA LeastNatural ==
    ASSUME NEW S \in SUBSET Nat, S # {}
    PROVE  \E x \in S : \A y \in S : x <= y
<1>1. IsWellFoundedOn(Below, Nat)
    BY NatLessThanWellFounded DEF OpToRel, Below
<1>2. PICK x \in S : \A y \in S : ~(<<y, x>> \in Below)
    BY <1>1, WFMin
<1>3. \A y \in S : ~(y < x)
    BY <1>2 DEF Below
<1> QED
    BY <1>3

\* Some candidate is the nearest.
LEMMA NearestIsOne ==
    ASSUME NEW S \in SUBSET Slots, S # {}, write \in Slots
    PROVE  Camera!Nearest(S) \in S
<1> DEFINE far == {Camera!Distance(s) : s \in S}
<1>1. \A s \in Slots : Camera!Distance(s) \in Nat
  <2> SUFFICES ASSUME NEW s \in Slots PROVE (s + 2 * Ring - write - 1) % Ring \in Nat
      BY DEF Camera!Distance
  <2>1. Ring \in Nat /\ Ring > 0 /\ s + 2 * Ring - write - 1 \in Int
      BY HelperAssumption DEF Slots, Camera!Slots
  <2> QED
      BY <2>1
<1>2. far \in SUBSET Nat /\ far # {}
    BY <1>1
<1> HIDE DEF far
<1>3. PICK d \in far : \A e \in far : d <= e
    BY <1>2, LeastNatural
<1>4. \E s \in S : \A t \in S : Camera!Distance(s) <= Camera!Distance(t)
    BY <1>3 DEF far
<1> QED
    BY <1>4 DEF Camera!Nearest

LEMMA CameraFacts ==
    ASSUME CameraInv, NEW w \in Writers
    PROVE  /\ writer[w] \in Publication /\ writer[w].at \in {"away", "pick", "copy", "point", "store"}
           /\ writer[w].latest \in Slots /\ writer[w].slot \in Slots /\ writer[w].seq \in Nat
           /\ \A s \in Slots : pixels[s] \in Frame \cup {Nothing}
           /\ write \in Slots /\ latest \in Slots /\ seq \in Nat /\ shared \in Nat
           /\ \A r \in Readers : /\ reader[r].slot \in Slots /\ reader[r].seq \in Nat
                                /\ reader[r].at \in {"away", "locate", "wrap", "check"}
           /\ \A b \in held : b.slot \in Slots
           /\ \A b \in held : b.by = "pump" => b.frame # Nothing /\ pixels[b.slot] = b.frame
BY DEF CameraInv, CameraTypes, Publication, Reads, Buffers, StreamedWhole, Camera!StreamedWhole, Camera!Whole, Nothing

\* What a picture of a writer is, it is not Nothing.
LEMMA FrameIsSomething ==
    ASSUME NEW w \in Writers, NEW n \in Nat
    PROVE  [by |-> w, number |-> n] \in Frame /\ [by |-> w, number |-> n] # Nothing
<1>1. [by |-> w, number |-> n].by # Nothing.by
    BY DEF Nothing, Camera!Nothing, Writers, Camera!Writers
<1> QED
    BY <1>1 DEF Frame

\* A frame is begun, with no other under way.
LEMMA BeginKeeps ==
    ASSUME ~LateFrames, CameraInv, NEW w \in Writers, Camera!Begin(w),
           UNCHANGED <<pixels, write, latest, seq, shared, reader, seen, held>>
    PROVE  CameraInv'
<1> DEFINE y1 == [Camera!Away EXCEPT !.at = "pick"]
           y == [y1 EXCEPT !.latest = latest]
<1>1. /\ \A v \in Writers : writer[v].at = "away"
      /\ writer' = [writer EXCEPT ![w] = y]
    BY DEF Camera!Begin, Camera!Publishing, Writers
<1>2. y \in Publication /\ y.at = "pick" /\ y.latest = latest
  <2>1. 0 \in Slots /\ latest \in Slots
      BY CameraFacts, HelperAssumption DEF Slots, Camera!Slots
  <2>2. y1 \in Publication /\ y1.at = "pick"
      BY <2>1 DEF Camera!Away, Publication
  <2> HIDE DEF y1
  <2> QED
      BY <2>1, <2>2 DEF Publication
<1> HIDE DEF y
<1>3. /\ writer' \in [Writers -> Publication] /\ writer'[w] = y
      /\ \A v \in Writers : v # w => writer'[v].at = "away"
    BY <1>1, <1>2 DEF CameraInv, CameraTypes
<1>4. CameraTypes'
    BY <1>3 DEF CameraInv, CameraTypes
<1>5. ~Storing /\ ~Storing'
    BY <1>1, <1>2, <1>3 DEF Storing
<1>6. WriterInv'
    BY <1>2, <1>3, <1>5 DEF CameraInv, WriterInv
<1>7. ReaderInv'
    BY <1>5 DEF CameraInv, ReaderInv
<1>8. StreamedWhole'
    BY DEF CameraInv, StreamedWhole, Camera!StreamedWhole, Camera!Whole
<1> QED
    BY <1>4, <1>6, <1>7, <1>8 DEF CameraInv

\* Without a free surface the frame is dropped; else one that is neither the newest nor held
\* loses its picture.
LEMMA PickKeeps ==
    ASSUME CameraInv, NEW w \in Writers, Camera!Pick(w)
    PROVE  CameraInv'
<1>1. /\ writer[w].at = "pick" /\ writer[w].latest = latest
      /\ \A v \in Writers : v # w => writer[v].at = "away"
      /\ UNCHANGED <<latest, seq, shared, reader, seen, held>>
    BY DEF Camera!Pick, Camera!app, CameraInv, WriterInv
<1>2. ~Storing /\ seq = shared
    BY <1>1 DEF Storing, CameraInv, WriterInv
<1>3. CASE Camera!Candidates(w) = {}
  <2>1. writer' = [writer EXCEPT ![w] = Camera!Away] /\ UNCHANGED <<write, pixels>>
      BY <1>3 DEF Camera!Pick
  <2>2. Camera!Away \in Publication /\ Camera!Away.at = "away"
      BY HelperAssumption DEF Camera!Away, Publication, Slots, Camera!Slots
  <2>3. /\ writer' \in [Writers -> Publication]
        /\ \A v \in Writers : writer'[v].at = "away"
      BY <1>1, <2>1, <2>2 DEF CameraInv, CameraTypes
  <2>4. CameraTypes'
      BY <1>1, <2>1, <2>3 DEF CameraInv, CameraTypes
  <2>5. WriterInv' /\ ~Storing'
      BY <1>1, <1>2, <2>1, <2>3 DEF CameraInv, WriterInv, Storing
  <2>6. ReaderInv' /\ StreamedWhole'
      BY <1>1, <1>2, <2>1, <2>5 DEF CameraInv, ReaderInv, StreamedWhole, Camera!StreamedWhole, Camera!Whole
  <2> QED
      BY <2>4, <2>5, <2>6 DEF CameraInv
<1>4. CASE Camera!Candidates(w) # {}
  <2> DEFINE s == Camera!Nearest(Camera!Candidates(w))
             y1 == [writer[w] EXCEPT !.at = "copy"]
             y == [y1 EXCEPT !.slot = s]
  <2>1. /\ s \in Slots /\ s # latest /\ \A b \in held : b.slot # s
        /\ \A r \in Readers : reader[r].at = "check" => s # reader[r].slot
    <3>1. Camera!Candidates(w) \in SUBSET Slots
        BY DEF Camera!Candidates, Slots
    <3>2. s \in Camera!Candidates(w)
        BY <1>4, <3>1, NearestIsOne, CameraFacts
    <3> HIDE DEF s
    <3> QED
        BY <1>1, <3>1, <3>2 DEF Camera!Candidates, Camera!InUse
  <2>2. /\ writer' = [writer EXCEPT ![w] = y]
        /\ write' = s /\ pixels' = [pixels EXCEPT ![s] = Nothing]
    <3>1. writer' = [writer EXCEPT ![w].at = "copy", ![w].slot = s]
        BY <1>4 DEF Camera!Pick
    <3>2. writer \in [Writers -> Publication]
        BY DEF CameraInv, CameraTypes
    <3>3. write' = s /\ pixels' = [pixels EXCEPT ![s] = Nothing]
        BY <1>4 DEF Camera!Pick, Nothing
    <3> HIDE DEF s
    <3> QED
        BY <3>1, <3>2, <3>3
  <2> HIDE DEF s
  <2>3. y \in Publication /\ y.at = "copy" /\ y.slot = s
    <3>1. y1 \in Publication /\ y1.at = "copy"
        BY CameraFacts DEF Publication
    <3> HIDE DEF y1
    <3> QED
        BY <2>1, <3>1 DEF Publication
  <2> HIDE DEF y
  <2>4. /\ writer' \in [Writers -> Publication] /\ writer'[w] = y
        /\ \A v \in Writers : v # w => writer'[v].at = "away"
      BY <1>1, <2>2, <2>3 DEF CameraInv, CameraTypes
  <2>5. /\ pixels' \in [Slots -> Frame \cup {Nothing}]
        /\ \A t \in Slots : t # s => pixels'[t] = pixels[t]
      BY <2>1, <2>2 DEF CameraInv, CameraTypes
  <2>6. CameraTypes'
      BY <1>1, <2>1, <2>2, <2>4, <2>5 DEF CameraInv, CameraTypes
  <2>7. ~Storing'
      BY <2>3, <2>4 DEF Storing
  <2>8. WriterInv'
    <3>1. seq # 0 => pixels'[latest] # Nothing
        BY <2>1, <2>5, CameraFacts DEF CameraInv, WriterInv
    <3> QED
        BY <1>1, <1>2, <2>1, <2>3, <2>4, <2>7, <3>1 DEF WriterInv
  <2>9. ReaderInv'
    <3>1. ASSUME NEW r \in Readers, reader[r].at \in {"wrap", "check"}, reader[r].seq = shared
          PROVE  reader[r].slot = latest /\ pixels'[reader[r].slot] # Nothing
        BY <1>2, <2>1, <2>5, <3>1, CameraFacts DEF CameraInv, ReaderInv
    <3> QED
        BY <1>1, <3>1 DEF CameraInv, ReaderInv
  <2>10. StreamedWhole'
      BY <1>1, <2>1, <2>5, CameraFacts DEF StreamedWhole, Camera!StreamedWhole, Camera!Whole, Nothing
  <2> QED
      BY <2>6, <2>8, <2>9, <2>10 DEF CameraInv
<1> QED
    BY <1>3, <1>4

LEMMA CopiedKeeps ==
    ASSUME CameraInv, NEW w \in Writers, Camera!Copied(w)
    PROVE  CameraInv'
<1> DEFINE p == [by |-> w, number |-> seq + 1]
           slot == writer[w].slot
           y == [writer[w] EXCEPT !.at = "point"]
<1>1. /\ writer[w].at = "copy" /\ slot # latest /\ \A b \in held : b.by = "pump" => b.slot # slot
      /\ \A v \in Writers : v # w => writer[v].at = "away"
      /\ UNCHANGED <<write, latest, seq, shared, reader, seen, held>>
      /\ writer' = [writer EXCEPT ![w] = y] /\ pixels' = [pixels EXCEPT ![slot] = p]
    BY DEF Camera!Copied, Camera!app, CameraInv, WriterInv
<1>2. p \in Frame /\ p # Nothing /\ slot \in Slots
    BY FrameIsSomething, CameraFacts
<1>3. y \in Publication /\ y.at = "point" /\ y.slot = slot
    BY CameraFacts DEF Publication
<1> HIDE DEF p, slot, y
<1>4. /\ writer' \in [Writers -> Publication] /\ writer'[w] = y
      /\ \A v \in Writers : v # w => writer'[v].at = "away"
    BY <1>1, <1>3 DEF CameraInv, CameraTypes
<1>5. /\ pixels' \in [Slots -> Frame \cup {Nothing}] /\ pixels'[slot] # Nothing
      /\ \A t \in Slots : pixels[t] # Nothing => pixels'[t] # Nothing
      /\ \A t \in Slots : t # slot => pixels'[t] = pixels[t]
    BY <1>1, <1>2 DEF CameraInv, CameraTypes
<1>6. CameraTypes'
    BY <1>1, <1>4, <1>5 DEF CameraInv, CameraTypes
<1>7. ~Storing /\ ~Storing' /\ seq = shared
    BY <1>1, <1>3, <1>4 DEF Storing, CameraInv, WriterInv
<1>8. WriterInv'
  <2>1. seq # 0 => pixels'[latest] # Nothing
      BY <1>5, CameraFacts DEF CameraInv, WriterInv
  <2> QED
      BY <1>1, <1>3, <1>4, <1>5, <1>7, <2>1 DEF WriterInv
<1>9. ReaderInv'
  <2>1. ASSUME NEW r \in Readers, reader[r].at \in {"wrap", "check"}, reader[r].seq = shared
        PROVE  reader[r].slot = latest /\ pixels'[reader[r].slot] # Nothing
      BY <1>5, <1>7, <2>1, CameraFacts DEF CameraInv, ReaderInv
  <2> QED
      BY <1>1, <2>1 DEF CameraInv, ReaderInv
<1>10. StreamedWhole'
    BY <1>1, <1>5, CameraFacts DEF StreamedWhole, Camera!StreamedWhole, Camera!Whole, Nothing
<1> QED
    BY <1>6, <1>8, <1>9, <1>10 DEF CameraInv

\* The surface becomes the newest; the app may still read the one before.
LEMMA PointKeeps ==
    ASSUME CameraInv, NEW w \in Writers, Camera!Point(w)
    PROVE  CameraInv'
<1> DEFINE slot == writer[w].slot
           y1 == [writer[w] EXCEPT !.at = "store"]
           y == [y1 EXCEPT !.seq = seq + 1]
<1>1. /\ writer[w].at = "point" /\ pixels[slot] # Nothing
      /\ \A v \in Writers : v # w => writer[v].at = "away"
      /\ latest' = slot /\ seq' = seq + 1
      /\ UNCHANGED <<pixels, write, shared, reader, seen, held>>
    BY DEF Camera!Point, Camera!app, CameraInv, WriterInv
<1>2. writer' = [writer EXCEPT ![w] = y]
  <2>1. writer' = [writer EXCEPT ![w].at = "store", ![w].seq = seq + 1]
      BY DEF Camera!Point
  <2>2. writer \in [Writers -> Publication]
      BY DEF CameraInv, CameraTypes
  <2> QED
      BY <2>1, <2>2
<1>3. slot \in Slots /\ seq \in Nat
    BY CameraFacts
<1>4. y \in Publication /\ y.at = "store" /\ y.seq = seq + 1
  <2>1. y1 \in Publication /\ y1.at = "store"
      BY CameraFacts DEF Publication
  <2> HIDE DEF y1
  <2> QED
      BY <1>3, <2>1 DEF Publication
<1> HIDE DEF slot, y
<1>5. /\ writer' \in [Writers -> Publication] /\ writer'[w] = y
      /\ \A v \in Writers : v # w => writer'[v].at = "away"
    BY <1>1, <1>2, <1>4 DEF CameraInv, CameraTypes
<1>6. CameraTypes'
    BY <1>1, <1>3, <1>5 DEF CameraInv, CameraTypes
<1>7. ~Storing /\ Storing' /\ seq = shared
    BY <1>1, <1>4, <1>5 DEF Storing, CameraInv, WriterInv
<1>8. WriterInv'
    BY <1>1, <1>3, <1>4, <1>5, <1>7 DEF WriterInv
<1>9. ReaderInv' /\ StreamedWhole'
    BY <1>1, <1>7 DEF CameraInv, ReaderInv, StreamedWhole, Camera!StreamedWhole, Camera!Whole
<1> QED
    BY <1>6, <1>8, <1>9 DEF CameraInv

\* The new number is announced: what the app read before is out of date.
LEMMA StoreKeeps ==
    ASSUME CameraInv, NEW w \in Writers, Camera!Store(w)
    PROVE  CameraInv'
<1>1. /\ writer[w].at = "store" /\ writer[w].seq = seq /\ seq = shared + 1
      /\ \A v \in Writers : v # w => writer[v].at = "away"
      /\ shared' = seq /\ writer' = [writer EXCEPT ![w] = Camera!Away]
      /\ UNCHANGED <<pixels, write, latest, seq, reader, seen, held>>
    BY DEF Camera!Store, Camera!app, CameraInv, WriterInv
<1>2. Camera!Away \in Publication /\ Camera!Away.at = "away"
    BY HelperAssumption DEF Camera!Away, Publication, Slots, Camera!Slots
<1>3. /\ writer' \in [Writers -> Publication]
      /\ \A v \in Writers : writer'[v].at = "away"
    BY <1>1, <1>2 DEF CameraInv, CameraTypes
<1>4. CameraTypes'
    BY <1>1, <1>3 DEF CameraInv, CameraTypes
<1>5. WriterInv'
    BY <1>1, <1>3 DEF CameraInv, WriterInv, Storing
<1>6. ReaderInv' /\ StreamedWhole'
    BY <1>1, CameraFacts DEF CameraInv, ReaderInv, StreamedWhole, Camera!StreamedWhole, Camera!Whole
<1> QED
    BY <1>4, <1>5, <1>6 DEF CameraInv

\* The steps of the app.
LEMMA AppKeeps ==
    ASSUME CameraInv, UNCHANGED <<writer, pixels, write, latest, seq, shared>>,
           reader' \in [Readers -> Reads], seen' \in Nat, held' \subseteq Buffers,
           ReaderInv', StreamedWhole',
           \A b \in held' : b.by = "pump" => b \in held \/ b.slot = latest \/ Storing
    PROVE  CameraInv'
<1>1. CameraTypes'
    BY DEF CameraInv, CameraTypes
<1>2. Storing' <=> Storing
    BY DEF Storing
<1>3. ASSUME NEW w \in Writers, writer[w].at \in {"copy", "point"}, NEW b \in held', b.by = "pump"
      PROVE  b.slot # writer[w].slot
  <2>1. ~Storing
      BY <1>3 DEF CameraInv, WriterInv, Storing
  <2> QED
      BY <1>3, <2>1 DEF CameraInv, WriterInv
<1>4. WriterInv'
    BY <1>2, <1>3 DEF CameraInv, WriterInv
<1> QED
    BY <1>1, <1>4 DEF CameraInv

\* A reader takes a step: what it reads next is as ReaderInv says.
LEMMA ReaderKeeps ==
    ASSUME ReaderInv, UNCHANGED <<writer, pixels, latest, shared>>, reader \in [Readers -> Reads],
           NEW r \in Readers, NEW x \in Reads, reader' = [reader EXCEPT ![r] = x],
           x.at # "away" => x.seq # 0 /\ x.seq <= shared,
           x.at \in {"wrap", "check"} /\ x.seq = shared =>
             pixels[x.slot] # Nothing /\ (x.slot = latest \/ Storing)
    PROVE  ReaderInv' /\ reader' \in [Readers -> Reads]
<1>1. reader' \in [Readers -> Reads] /\ reader'[r] = x /\ \A q \in Readers : q # r => reader'[q] = reader[q]
    OBVIOUS
<1>2. Storing' <=> Storing
    BY DEF Storing
<1> QED
    BY <1>1, <1>2 DEF ReaderInv

LEMMA SampleKeeps ==
    ASSUME CameraInv, NEW r \in Readers, Camera!Sample(r)
    PROVE  CameraInv'
<1> DEFINE x1 == [reader[r] EXCEPT !.at = "locate"]
           x == [x1 EXCEPT !.seq = shared]
<1>1. /\ reader \in [Readers -> Reads] /\ shared \in Nat /\ seen \in Nat /\ held \subseteq Buffers
      /\ ReaderInv /\ StreamedWhole
    BY DEF CameraInv, CameraTypes
<1>2. /\ shared # 0 /\ reader' = [reader EXCEPT ![r].at = "locate", ![r].seq = shared]
      /\ UNCHANGED <<writer, pixels, write, latest, seq, shared, seen, held>>
    BY DEF Camera!Sample, Camera!ring
<1>3. reader' = [reader EXCEPT ![r] = x]
    BY <1>1, <1>2
<1>4. x \in Reads /\ x.at = "locate" /\ x.seq = shared
  <2>1. x1 \in Reads /\ x1.at = "locate"
      BY <1>1 DEF Reads
  <2> HIDE DEF x1
  <2> QED
      BY <1>1, <2>1 DEF Reads
<1> HIDE DEF x
<1>5. ReaderInv' /\ reader' \in [Readers -> Reads]
  <2>1. shared <= shared
      BY <1>1
  <2> QED
      BY <1>1, <1>2, <1>3, <1>4, <2>1, ReaderKeeps
<1>6. StreamedWhole'
    BY <1>1, <1>2 DEF StreamedWhole, Camera!StreamedWhole, Camera!Whole
<1> QED
    BY <1>1, <1>2, <1>5, <1>6, AppKeeps

LEMMA LocateKeeps ==
    ASSUME CameraInv, NEW r \in Readers, Camera!Locate(r)
    PROVE  CameraInv'
<1> DEFINE x1 == [reader[r] EXCEPT !.at = "wrap"]
           x == [x1 EXCEPT !.slot = latest]
<1>1. /\ reader \in [Readers -> Reads] /\ shared \in Nat /\ seq \in Nat /\ seen \in Nat
      /\ held \subseteq Buffers /\ latest \in Slots /\ ReaderInv /\ StreamedWhole /\ WriterInv
    BY DEF CameraInv, CameraTypes
<1>2. /\ reader[r].at = "locate" /\ reader' = [reader EXCEPT ![r].at = "wrap", ![r].slot = latest]
      /\ UNCHANGED <<writer, pixels, write, latest, seq, shared, seen, held>>
    BY DEF Camera!Locate, Camera!ring
<1>3. reader' = [reader EXCEPT ![r] = x]
    BY <1>1, <1>2
<1>4. x \in Reads /\ x.at = "wrap" /\ x.slot = latest /\ x.seq = reader[r].seq
  <2>1. x1 \in Reads /\ x1.at = "wrap" /\ x1.seq = reader[r].seq
      BY <1>1 DEF Reads
  <2> HIDE DEF x1
  <2> QED
      BY <1>1, <2>1 DEF Reads
<1>5. reader[r].seq \in Nat /\ reader[r].seq # 0 /\ reader[r].seq <= shared
    BY <1>1, <1>2 DEF ReaderInv, Reads
<1> HIDE DEF x
<1>6. pixels[latest] # Nothing
  <2>1. seq = shared \/ seq = shared + 1
      BY <1>1 DEF WriterInv, Storing
  <2>2. seq # 0
      BY <1>1, <1>5, <2>1
  <2> QED
      BY <1>1, <2>2 DEF WriterInv
<1>7. ReaderInv' /\ reader' \in [Readers -> Reads]
    BY <1>1, <1>2, <1>3, <1>4, <1>5, <1>6, ReaderKeeps
<1>8. StreamedWhole'
    BY <1>1, <1>2 DEF StreamedWhole, Camera!StreamedWhole, Camera!Whole
<1> QED
    BY <1>1, <1>2, <1>7, <1>8, AppKeeps

LEMMA WrapKeeps ==
    ASSUME CameraInv, NEW r \in Readers, Camera!Wrap(r)
    PROVE  CameraInv'
<1> DEFINE x == [reader[r] EXCEPT !.at = "check"]
<1>1. /\ reader \in [Readers -> Reads] /\ seen \in Nat /\ held \subseteq Buffers
      /\ ReaderInv /\ StreamedWhole
    BY DEF CameraInv, CameraTypes
<1>2. /\ reader[r].at = "wrap" /\ reader' = [reader EXCEPT ![r] = x]
      /\ UNCHANGED <<writer, pixels, write, latest, seq, shared, seen, held>>
    BY DEF Camera!Wrap, Camera!ring
<1>3. x \in Reads /\ x.at = "check" /\ x.slot = reader[r].slot /\ x.seq = reader[r].seq
    BY <1>1 DEF Reads
<1> HIDE DEF x
<1>4. /\ reader[r].seq # 0 /\ reader[r].seq <= shared
      /\ reader[r].seq = shared =>
           pixels[reader[r].slot] # Nothing /\ (reader[r].slot = latest \/ Storing)
    BY <1>1, <1>2 DEF ReaderInv
<1>5. ReaderInv' /\ reader' \in [Readers -> Reads]
    BY <1>1, <1>2, <1>3, <1>4, ReaderKeeps
<1>6. StreamedWhole'
    BY <1>1, <1>2 DEF StreamedWhole, Camera!StreamedWhole, Camera!Whole
<1> QED
    BY <1>1, <1>2, <1>5, <1>6, AppKeeps

\* The pump keeps what it wrapped when the sequence is what it was; a photo keeps it anyway.
LEMMA CheckKeeps ==
    ASSUME CameraInv, NEW r \in Readers, Camera!Check(r)
    PROVE  CameraInv'
<1> DEFINE new == [slot |-> reader[r].slot, frame |-> pixels[reader[r].slot], by |-> r]
<1>1. /\ reader \in [Readers -> Reads] /\ seen \in Nat /\ held \subseteq Buffers
      /\ ReaderInv /\ StreamedWhole /\ pixels \in [Slots -> Frame \cup {Nothing}]
    BY DEF CameraInv, CameraTypes
<1>2. /\ reader[r].at = "check" /\ reader' = [reader EXCEPT ![r] = Camera!NotReading]
      /\ UNCHANGED <<writer, pixels, write, latest, seq, shared>>
      /\ \/ Camera!UnchangedSince(r) /\ held' = held \cup {new} /\ seen' = reader[r].seq
         \/ UNCHANGED <<seen, held>>
    BY DEF Camera!Check, Camera!ring
<1>3. Camera!NotReading \in Reads /\ Camera!NotReading.at = "away"
    BY HelperAssumption DEF Camera!NotReading, Reads, Slots, Camera!Slots
<1>4. ReaderInv' /\ reader' \in [Readers -> Reads]
    BY <1>1, <1>2, <1>3, ReaderKeeps
<1>5. reader[r].slot \in Slots /\ reader[r].seq \in Nat /\ pixels[reader[r].slot] \in Frame \cup {Nothing}
    BY <1>1 DEF Reads
<1>6. /\ new \in Buffers /\ new.slot = reader[r].slot
      /\ new.frame = pixels[reader[r].slot] /\ new.by = r
    BY <1>5 DEF Buffers
<1>7. ASSUME r = "pump", Camera!UnchangedSince(r)
      PROVE  pixels[reader[r].slot] # Nothing /\ (reader[r].slot = latest \/ Storing)
    BY <1>1, <1>2, <1>7 DEF Camera!UnchangedSince, ReaderInv
<1> HIDE DEF new
<1>8. held' \subseteq Buffers /\ seen' \in Nat
    BY <1>1, <1>2, <1>5, <1>6
<1>9. StreamedWhole'
    BY <1>1, <1>2, <1>6, <1>7 DEF StreamedWhole, Camera!StreamedWhole, Camera!Whole, Nothing
<1>10. \A b \in held' : b.by = "pump" => b \in held \/ b.slot = latest \/ Storing
    BY <1>2, <1>6, <1>7
<1> QED
    BY <1>2, <1>4, <1>8, <1>9, <1>10, AppKeeps

LEMMA CameraNextKeeps ==
    ASSUME ~LateFrames, CameraInv, [Camera!Next]_ring
    PROVE  CameraInv'
<1>1. ASSUME NEW w \in Writers, Camera!Publish(w) PROVE CameraInv'
    BY <1>1, PickKeeps, CopiedKeeps, PointKeeps, StoreKeeps DEF Camera!Publish
<1>2. ASSUME NEW w \in Writers, Camera!NextFrame(w) PROVE CameraInv'
    BY <1>2, BeginKeeps DEF Camera!NextFrame, Camera!ring, Camera!app
<1>3. ASSUME UNCHANGED <<writer, pixels, write, latest, seq, shared, reader, seen, held>> PROVE CameraInv'
    BY <1>3 DEF CameraInv, CameraTypes, WriterInv, ReaderInv, StreamedWhole, Camera!StreamedWhole, Camera!Whole, Storing
<1>4. ASSUME NEW s, Camera!Switch(s) PROVE CameraInv'
  <2>1. UNCHANGED <<pixels, write, latest, seq, shared, reader, seen, held>>
      BY <1>4 DEF Camera!Switch, Camera!ring, Camera!app
  <2>2. "switch" \in Writers
      BY DEF Writers, Camera!Writers
  <2>3. Camera!Begin("switch") \/ writer' = writer
      BY <1>4 DEF Camera!Switch
  <2> QED
      BY <1>3, <2>1, <2>2, <2>3, BeginKeeps
<1>5. CASE Camera!VideoEnds
    BY <1>3, <1>5 DEF Camera!VideoEnds, Camera!ring, Camera!app
<1>6. ASSUME NEW r \in Readers, Camera!Sample(r) \/ Camera!Locate(r) \/ Camera!Wrap(r) \/ Camera!Check(r)
      PROVE  CameraInv'
    BY <1>6, SampleKeeps, LocateKeeps, WrapKeeps, CheckKeeps
<1>7. ASSUME NEW b \in held, Camera!Release(b) PROVE CameraInv'
  <2>1. /\ held' = held \ {b} /\ UNCHANGED <<reader, seen>>
        /\ UNCHANGED <<writer, pixels, write, latest, seq, shared>>
      BY <1>7 DEF Camera!Release, Camera!ring
  <2>2. ReaderInv' /\ StreamedWhole'
      BY <2>1 DEF CameraInv, ReaderInv, StreamedWhole, Camera!StreamedWhole, Camera!Whole, Storing
  <2>3. reader' \in [Readers -> Reads] /\ seen' \in Nat /\ held' \subseteq Buffers
      BY <2>1 DEF CameraInv, CameraTypes
  <2> QED
      BY <2>1, <2>2, <2>3, AppKeeps
<1>8. CASE UNCHANGED ring
    BY <1>3, <1>8 DEF ring
<1> QED
    BY <1>1, <1>2, <1>4, <1>5, <1>6, <1>7, <1>8 DEF Camera!Next, Writers

\* What the pump holds of the camera's ring is a whole frame and stays the one it wrapped, for
\* any number of surfaces, frames and buffers in use, and whatever photos are taken meanwhile,
\* as long as one thread writes: nothing is locked.  (PublishFrame, SimCameraHelper/
\* main.m:74-114, SimCamFrameSource.m:240-277)
THEOREM StreamedFramesAreWhole == ~LateFrames => (PartsSpec => []StreamedWhole)
<1> SUFFICES ASSUME ~LateFrames PROVE PartsSpec => []StreamedWhole
    OBVIOUS
<1>1. PartsInit => CameraInv
  <2> SUFFICES ASSUME Camera!Init PROVE CameraInv
      BY DEF PartsInit
  <2>1. 0 \in Slots
      BY HelperAssumption DEF Slots, Camera!Slots
  <2>2. /\ writer = [w \in Writers |-> Camera!Away] /\ pixels = [s \in Slots |-> Nothing]
        /\ write = 0 /\ latest = 0 /\ seq = 0 /\ shared = 0 /\ held = {}
        /\ reader = [r \in Readers |-> Camera!NotReading] /\ seen = 0
      BY DEF Camera!Init, Writers, Slots, Nothing
  <2>3. Camera!Away \in Publication /\ Camera!Away.at = "away"
      BY <2>1 DEF Camera!Away, Publication
  <2>4. Camera!NotReading \in Reads /\ Camera!NotReading.at = "away"
      BY <2>1 DEF Camera!NotReading, Reads
  <2>5. CameraTypes
      BY <2>1, <2>2, <2>3, <2>4 DEF CameraTypes
  <2> QED
      BY <2>2, <2>3, <2>4, <2>5 DEF CameraInv, WriterInv, ReaderInv, Storing, StreamedWhole, Camera!StreamedWhole, Camera!Whole
<1>2. CameraInv /\ [PartsNext]_<<part, vars, duo, ring, capture, monitor>> => CameraInv'
    BY PartSteps, CameraNextKeeps
<1>3. CameraInv => StreamedWhole
    BY DEF CameraInv
<1> QED
    BY <1>1, <1>2, <1>3, PTL DEF PartsSpec

-----------------------------------------------------------------------------
(* The types of all parts.  The camera's numbers are bounded by what was     *)
(* begun, also when several threads publish at once.                         *)

\* The frames that will still get a number.
Begun == {w \in Writers : writer[w].at \in {"pick", "copy", "point"}}
Turn == [at : {"away", "pick", "copy", "point", "store"}, latest : Slots, slot : Slots, seq : 0 .. MaxSeq]

BoundedReads == [at : {"away", "locate", "wrap", "check"}, seq : 0 .. MaxSeq, slot : Slots]
BoundedBuffers == [slot : Slots, frame : Camera!Frames \cup {Nothing}, by : Readers]

CameraBounded ==
    /\ camera \in {"none", "placeholder", "webcam", "image", "video"}
    /\ video \in {"off", "on", "cancelled"}
    /\ writer \in [Writers -> Turn]
    /\ pixels \in [Slots -> Camera!Frames \cup {Nothing}]
    /\ write \in Slots /\ latest \in Slots
    /\ seq \in 0 .. MaxSeq /\ shared \in 0 .. MaxSeq
    /\ reader \in [Readers -> BoundedReads] /\ seen \in 0 .. MaxSeq
    /\ held \subseteq BoundedBuffers
    /\ seq + Cardinality(Begun) <= MaxSeq

LEMMA WritersFinite ==
    ASSUME NEW S \in SUBSET Writers
    PROVE  IsFiniteSet(S) /\ Cardinality(S) \in Nat
<1> DEFINE a == {"switch"}
           b == a \cup {"timer"}
           c == b \cup {"webcam"}
           d == c \cup {"video"}
<1>1. IsFiniteSet(a)
    BY FS_Singleton
<1>2. IsFiniteSet(b)
  <2> HIDE DEF a
  <2> QED
      BY <1>1, FS_AddElement
<1>3. IsFiniteSet(c)
  <2> HIDE DEF b
  <2> QED
      BY <1>2, FS_AddElement
<1>4. IsFiniteSet(d)
  <2> HIDE DEF c
  <2> QED
      BY <1>3, FS_AddElement
<1>5. d = Writers
    BY DEF Writers, Camera!Writers
<1> HIDE DEF d
<1>6. IsFiniteSet(S)
    BY <1>4, <1>5, FS_Subset
<1> QED
    BY <1>6, FS_CardinalityType

\* A writer goes on: the sets of those that have begun before and after.
LEMMA TurnTaken ==
    ASSUME CameraBounded, NEW w \in Writers, NEW y \in Turn, writer' = [writer EXCEPT ![w] = y]
    PROVE  /\ writer' \in [Writers -> Turn]
           /\ Cardinality(Begun) \in Nat /\ Cardinality(Begun') \in Nat
           /\ y.at \in {"pick", "copy", "point"} =>
                Cardinality(Begun') = IF w \in Begun THEN Cardinality(Begun) ELSE Cardinality(Begun) + 1
           /\ y.at \notin {"pick", "copy", "point"} =>
                Cardinality(Begun') = IF w \in Begun THEN Cardinality(Begun) - 1 ELSE Cardinality(Begun)
           /\ w \in Begun => Cardinality(Begun) >= 1
<1>1. /\ writer' \in [Writers -> Turn] /\ writer'[w] = y
      /\ \A v \in Writers : v # w => writer'[v] = writer[v]
    BY DEF CameraBounded
<1>2. IsFiniteSet(Begun) /\ Cardinality(Begun) \in Nat /\ Cardinality(Begun') \in Nat
    BY WritersFinite DEF Begun
<1>3. CASE y.at \in {"pick", "copy", "point"}
  <2>1. Begun' = Begun \cup {w}
      BY <1>1, <1>3 DEF Begun
  <2> QED
      BY <1>1, <1>2, <1>3, <2>1, FS_AddElement, FS_EmptySet
<1>4. CASE y.at \notin {"pick", "copy", "point"}
  <2>1. Begun' = Begun \ {w}
      BY <1>1, <1>4 DEF Begun
  <2> QED
      BY <1>1, <1>2, <1>4, <2>1, FS_RemoveElement, FS_EmptySet
<1> QED
    BY <1>3, <1>4

LEMMA TurnFacts ==
    ASSUME CameraBounded, NEW w \in Writers
    PROVE  /\ writer[w] \in Turn /\ writer[w].at \in {"away", "pick", "copy", "point", "store"}
           /\ writer[w].latest \in Slots /\ writer[w].slot \in Slots /\ writer[w].seq \in 0 .. MaxSeq
           /\ seq \in Nat /\ MaxSeq \in Nat /\ 0 \in Slots
<1>1. writer[w] \in Turn
    BY DEF CameraBounded
<1> QED
    BY <1>1, HelperAssumption DEF CameraBounded, Turn, Slots, Camera!Slots

LEMMA AwayIsATurn == Camera!Away \in Turn /\ Camera!Away.at = "away"
BY HelperAssumption DEF Camera!Away, Turn, Slots, Camera!Slots

\* The instance's name for the size of a set.
LEMMA CameraCounts == \A S : Camera!Cardinality(S) = Cardinality(S)
BY DEF Camera!Cardinality, Cardinality

LEMMA BeginBounded ==
    ASSUME CameraBounded, NEW w \in Writers, Camera!Begin(w)
    PROVE  writer' \in [Writers -> Turn] /\ seq + Cardinality(Begun') <= MaxSeq
<1> DEFINE y1 == [Camera!Away EXCEPT !.at = "pick"]
           y == [y1 EXCEPT !.latest = latest]
<1>1. /\ writer[w].at = "away" /\ seq + Cardinality(Camera!Publishing) < MaxSeq
      /\ writer' = [writer EXCEPT ![w] = y]
  <2>1. writer[w].at = "away" /\ seq + Cardinality(Camera!Publishing) < MaxSeq
    <3> HIDE DEF y
    <3> QED
        BY CameraCounts DEF Camera!Begin
  <2>2. writer' = [writer EXCEPT ![w] = y]
      BY DEF Camera!Begin
  <2> QED
      BY <2>1, <2>2
<1>2. y \in Turn /\ y.at = "pick"
  <2>1. y1 \in Turn /\ y1.at = "pick"
      BY AwayIsATurn DEF Turn
  <2> HIDE DEF y1
  <2> QED
      BY <2>1 DEF Turn, CameraBounded
<1> HIDE DEF y
<1>3. /\ writer' \in [Writers -> Turn]
      /\ Cardinality(Begun') = IF w \in Begun THEN Cardinality(Begun) ELSE Cardinality(Begun) + 1
      /\ Cardinality(Begun) \in Nat
    BY <1>1, <1>2, TurnTaken
<1>4. w \notin Begun
    BY <1>1 DEF Begun
<1>5. Cardinality(Begun) <= Cardinality(Camera!Publishing) /\ Cardinality(Camera!Publishing) \in Nat
  <2>1. Camera!Publishing \in SUBSET Writers /\ Begun \in SUBSET Camera!Publishing
      BY DEF Begun, Camera!Publishing, Writers
  <2> QED
      BY <2>1, WritersFinite, FS_Subset
<1>6. seq \in Nat /\ MaxSeq \in Nat
    BY TurnFacts
<1> QED
    BY <1>1, <1>3, <1>4, <1>5, <1>6

\* What the sources leave alone while one of them begins a frame, or none does.
LEMMA SourcesBounded ==
    ASSUME CameraBounded,
           writer' = writer \/ \E w \in Writers : Camera!Begin(w),
           camera' \in {"none", "placeholder", "webcam", "image", "video"},
           video' \in {"off", "on", "cancelled"},
           UNCHANGED <<pixels, write, latest, seq, shared, reader, seen, held>>
    PROVE  CameraBounded'
<1>1. CASE writer' = writer
    BY <1>1 DEF CameraBounded, Begun
<1>2. ASSUME NEW w \in Writers, Camera!Begin(w) PROVE CameraBounded'
  <2>1. writer' \in [Writers -> Turn] /\ seq + Cardinality(Begun') <= MaxSeq
      BY <1>2, BeginBounded
  <2> QED
      BY <2>1 DEF CameraBounded
<1> QED
    BY <1>1, <1>2

LEMMA PickBounded ==
    ASSUME CameraBounded, NEW w \in Writers, Camera!Pick(w)
    PROVE  CameraBounded'
<1>1. /\ writer[w].at = "pick" /\ UNCHANGED <<camera, video, latest, seq, shared, reader, seen, held>>
      /\ w \in Begun
    BY DEF Camera!Pick, Camera!app, Begun
<1>2. CASE Camera!Candidates(w) = {}
  <2>1. writer' = [writer EXCEPT ![w] = Camera!Away] /\ UNCHANGED <<write, pixels>>
      BY <1>2 DEF Camera!Pick
  <2>2. /\ writer' \in [Writers -> Turn] /\ Cardinality(Begun) \in Nat
        /\ Cardinality(Begun') = Cardinality(Begun) - 1
      BY <1>1, <2>1, AwayIsATurn, TurnTaken
  <2>3. seq' + Cardinality(Begun') <= MaxSeq
      BY <1>1, <2>2, TurnFacts DEF CameraBounded
  <2> QED
      BY <1>1, <2>1, <2>2, <2>3 DEF CameraBounded
<1>3. CASE Camera!Candidates(w) # {}
  <2> DEFINE s == Camera!Nearest(Camera!Candidates(w))
             y1 == [writer[w] EXCEPT !.at = "copy"]
             y == [y1 EXCEPT !.slot = s]
  <2>1. s \in Slots
    <3>1. Camera!Candidates(w) \in SUBSET Slots
        BY DEF Camera!Candidates, Slots
    <3>2. write \in Slots
        BY DEF CameraBounded
    <3>3. s \in Camera!Candidates(w)
        BY <1>3, <3>1, <3>2, NearestIsOne
    <3> HIDE DEF s
    <3> QED
        BY <3>1, <3>3
  <2>2. /\ writer' = [writer EXCEPT ![w] = y]
        /\ write' = s /\ pixels' = [pixels EXCEPT ![s] = Nothing]
    <3>1. writer' = [writer EXCEPT ![w].at = "copy", ![w].slot = s]
        BY <1>3 DEF Camera!Pick
    <3>2. writer \in [Writers -> Turn]
        BY DEF CameraBounded
    <3>3. write' = s /\ pixels' = [pixels EXCEPT ![s] = Nothing]
        BY <1>3 DEF Camera!Pick, Nothing
    <3> HIDE DEF s
    <3> QED
        BY <3>1, <3>2, <3>3
  <2> HIDE DEF s
  <2>3. y \in Turn /\ y.at = "copy"
    <3>1. y1 \in Turn /\ y1.at = "copy"
        BY TurnFacts DEF Turn
    <3> HIDE DEF y1
    <3> QED
        BY <2>1, <3>1 DEF Turn
  <2> HIDE DEF y
  <2>4. /\ writer' \in [Writers -> Turn] /\ Cardinality(Begun') = Cardinality(Begun)
      BY <1>1, <2>2, <2>3, TurnTaken
  <2>5. pixels' \in [Slots -> Camera!Frames \cup {Nothing}]
      BY <2>1, <2>2 DEF CameraBounded
  <2>6. seq' + Cardinality(Begun') <= MaxSeq
      BY <1>1, <2>4 DEF CameraBounded
  <2> QED
      BY <1>1, <2>1, <2>2, <2>4, <2>5, <2>6 DEF CameraBounded
<1> QED
    BY <1>2, <1>3

LEMMA CopiedBounded ==
    ASSUME CameraBounded, NEW w \in Writers, Camera!Copied(w)
    PROVE  CameraBounded'
<1> DEFINE p == [by |-> w, number |-> seq + 1]
           slot == writer[w].slot
           y == [writer[w] EXCEPT !.at = "point"]
<1>1. /\ w \in Begun /\ UNCHANGED <<camera, video, write, latest, seq, shared, reader, seen, held>>
      /\ writer' = [writer EXCEPT ![w] = y] /\ pixels' = [pixels EXCEPT ![slot] = p]
    BY DEF Camera!Copied, Camera!app, Begun
<1>2. y \in Turn /\ y.at = "point" /\ slot \in Slots /\ seq \in Nat /\ MaxSeq \in Nat
    BY TurnFacts DEF Turn
<1> HIDE DEF slot, y
<1>3. /\ writer' \in [Writers -> Turn] /\ Cardinality(Begun') = Cardinality(Begun)
      /\ Cardinality(Begun) >= 1 /\ Cardinality(Begun) \in Nat
    BY <1>1, <1>2, TurnTaken
<1>4. seq + Cardinality(Begun) <= MaxSeq
    BY DEF CameraBounded
<1>5. seq + 1 \in 1 .. MaxSeq
    BY <1>2, <1>3, <1>4
<1>6. p \in Camera!Frames
    BY <1>5 DEF Camera!Frames, Writers
<1> HIDE DEF p
<1>7. pixels' \in [Slots -> Camera!Frames \cup {Nothing}]
    BY <1>1, <1>2, <1>6 DEF CameraBounded
<1> QED
    BY <1>1, <1>3, <1>4, <1>7 DEF CameraBounded

LEMMA PointBounded ==
    ASSUME CameraBounded, NEW w \in Writers, Camera!Point(w)
    PROVE  CameraBounded'
<1> DEFINE slot == writer[w].slot
           number == seq + 1
           y1 == [writer[w] EXCEPT !.at = "store"]
           y == [y1 EXCEPT !.seq = number]
<1>1. /\ w \in Begun /\ latest' = slot /\ seq' = number
      /\ UNCHANGED <<camera, video, pixels, write, shared, reader, seen, held>>
    BY DEF Camera!Point, Camera!app, Begun
<1>2. writer' = [writer EXCEPT ![w] = y]
  <2>1. writer' = [writer EXCEPT ![w].at = "store", ![w].seq = number]
      BY DEF Camera!Point
  <2>2. writer \in [Writers -> Turn]
      BY DEF CameraBounded
  <2> QED
      BY <2>1, <2>2
<1>3. slot \in Slots /\ seq \in Nat /\ MaxSeq \in Nat
    BY TurnFacts
<1>4. Cardinality(Begun) \in Nat /\ Cardinality(Begun) >= 1 /\ seq + Cardinality(Begun) <= MaxSeq
  <2>1. IsFiniteSet(Begun) /\ Cardinality(Begun) \in Nat
      BY WritersFinite DEF Begun
  <2>2. Cardinality(Begun) # 0
      BY <1>1, <2>1, FS_EmptySet
  <2> QED
      BY <2>1, <2>2 DEF CameraBounded
<1>5. number \in 0 .. MaxSeq
    BY <1>3, <1>4
<1>6. y \in Turn /\ y.at = "store"
  <2>1. y1 \in Turn /\ y1.at = "store"
      BY TurnFacts DEF Turn
  <2> HIDE DEF y1, number
  <2> QED
      BY <1>5, <2>1 DEF Turn
<1> HIDE DEF slot, y
<1>7. writer' \in [Writers -> Turn] /\ Cardinality(Begun') = Cardinality(Begun) - 1
    BY <1>1, <1>2, <1>6, TurnTaken
<1>8. seq' + Cardinality(Begun') <= MaxSeq
    BY <1>1, <1>3, <1>4, <1>7
<1> HIDE DEF number
<1> QED
    BY <1>1, <1>3, <1>5, <1>7, <1>8 DEF CameraBounded

LEMMA StoreBounded ==
    ASSUME CameraBounded, NEW w \in Writers, Camera!Store(w)
    PROVE  CameraBounded'
<1>1. /\ writer[w].at = "store" /\ shared' = writer[w].seq
      /\ writer' = [writer EXCEPT ![w] = Camera!Away]
      /\ UNCHANGED <<camera, video, pixels, write, latest, seq, reader, seen, held>>
    BY DEF Camera!Store, Camera!app
<1>2. w \notin Begun
    BY <1>1 DEF Begun
<1>3. writer' \in [Writers -> Turn] /\ Cardinality(Begun') = Cardinality(Begun)
    BY <1>1, <1>2, AwayIsATurn, TurnTaken
<1>4. shared' \in 0 .. MaxSeq
    BY <1>1, TurnFacts
<1> QED
    BY <1>1, <1>3, <1>4 DEF CameraBounded

LEMMA CameraNextBounded ==
    ASSUME CameraBounded, [Camera!Next]_ring
    PROVE  CameraBounded'
<1>0. /\ reader \in [Readers -> BoundedReads] /\ seen \in 0 .. MaxSeq /\ held \subseteq BoundedBuffers
      /\ shared \in 0 .. MaxSeq /\ latest \in Slots /\ pixels \in [Slots -> Camera!Frames \cup {Nothing}]
    BY DEF CameraBounded
<1>1. ASSUME NEW w \in Writers, Camera!Publish(w) PROVE CameraBounded'
    BY <1>1, PickBounded, CopiedBounded, PointBounded, StoreBounded DEF Camera!Publish
<1>2. ASSUME NEW w \in Writers, Camera!NextFrame(w) PROVE CameraBounded'
  <2>1. /\ Camera!Begin(w) /\ camera' = camera /\ video' = video
        /\ UNCHANGED <<pixels, write, latest, seq, shared, reader, seen, held>>
      BY <1>2 DEF Camera!NextFrame, Camera!ring, Camera!app
  <2>2. /\ camera' \in {"none", "placeholder", "webcam", "image", "video"}
        /\ video' \in {"off", "on", "cancelled"}
      BY <2>1 DEF CameraBounded
  <2> QED
      BY <2>1, <2>2, SourcesBounded
<1>3. ASSUME NEW s \in Sources \cup {"none"}, Camera!Switch(s) PROVE CameraBounded'
  <2>1. /\ camera' \in {s, "none"}
        /\ UNCHANGED <<pixels, write, latest, seq, shared, reader, seen, held>>
        /\ writer' = writer \/ Camera!Begin("switch")
      BY <1>3 DEF Camera!Switch, Camera!ring, Camera!app
  <2>2. video' \in {"off", "on", "cancelled"}
      BY <1>3 DEF Camera!Switch, CameraBounded
  <2>3. "switch" \in Writers
      BY DEF Writers, Camera!Writers
  <2>4. camera' \in {"none", "placeholder", "webcam", "image", "video"}
      BY <2>1, HelperAssumption
  <2> QED
      BY <2>1, <2>2, <2>3, <2>4, SourcesBounded
<1>4. CASE Camera!VideoEnds
  <2>1. /\ writer' = writer /\ camera' = camera /\ video' = "off"
        /\ UNCHANGED <<pixels, write, latest, seq, shared, reader, seen, held>>
      BY <1>4 DEF Camera!VideoEnds, Camera!ring, Camera!app
  <2>2. camera' \in {"none", "placeholder", "webcam", "image", "video"}
      BY <2>1 DEF CameraBounded
  <2> QED
      BY <2>1, <2>2, SourcesBounded
<1>5. ASSUME reader' \in [Readers -> BoundedReads], seen' \in 0 .. MaxSeq, held' \subseteq BoundedBuffers,
             UNCHANGED <<camera, writer, video, pixels, write, latest, seq, shared>>
      PROVE  CameraBounded'
    BY <1>5 DEF CameraBounded, Begun
<1>6. ASSUME NEW r \in Readers, Camera!Sample(r) PROVE CameraBounded'
  <2> DEFINE x1 == [reader[r] EXCEPT !.at = "locate"]
             x == [x1 EXCEPT !.seq = shared]
  <2>1. /\ reader' = [reader EXCEPT ![r].at = "locate", ![r].seq = shared]
        /\ UNCHANGED <<camera, writer, video, pixels, write, latest, seq, shared, seen, held>>
      BY <1>6 DEF Camera!Sample, Camera!ring
  <2>2. x \in BoundedReads /\ reader' = [reader EXCEPT ![r] = x]
    <3>1. x1 \in BoundedReads
        BY <1>0 DEF BoundedReads
    <3>2. reader' = [reader EXCEPT ![r] = x]
        BY <1>0, <2>1
    <3> HIDE DEF x1
    <3> QED
        BY <1>0, <3>1, <3>2 DEF BoundedReads
  <2> HIDE DEF x
  <2>3. reader' \in [Readers -> BoundedReads]
      BY <1>0, <2>2
  <2> QED
      BY <1>0, <1>5, <2>1, <2>3
<1>7. ASSUME NEW r \in Readers, Camera!Locate(r) PROVE CameraBounded'
  <2> DEFINE x1 == [reader[r] EXCEPT !.at = "wrap"]
             x == [x1 EXCEPT !.slot = latest]
  <2>1. /\ reader' = [reader EXCEPT ![r].at = "wrap", ![r].slot = latest]
        /\ UNCHANGED <<camera, writer, video, pixels, write, latest, seq, shared, seen, held>>
      BY <1>7 DEF Camera!Locate, Camera!ring
  <2>2. x \in BoundedReads /\ reader' = [reader EXCEPT ![r] = x]
    <3>1. x1 \in BoundedReads
        BY <1>0 DEF BoundedReads
    <3>2. reader' = [reader EXCEPT ![r] = x]
        BY <1>0, <2>1
    <3> HIDE DEF x1
    <3> QED
        BY <1>0, <3>1, <3>2 DEF BoundedReads
  <2> HIDE DEF x
  <2>3. reader' \in [Readers -> BoundedReads]
      BY <1>0, <2>2
  <2> QED
      BY <1>0, <1>5, <2>1, <2>3
<1>8. ASSUME NEW r \in Readers, Camera!Wrap(r) PROVE CameraBounded'
  <2> DEFINE x == [reader[r] EXCEPT !.at = "check"]
  <2>1. /\ reader' = [reader EXCEPT ![r].at = "check"]
        /\ UNCHANGED <<camera, writer, video, pixels, write, latest, seq, shared, seen, held>>
      BY <1>8 DEF Camera!Wrap, Camera!ring
  <2>2. x \in BoundedReads /\ reader' = [reader EXCEPT ![r] = x]
    <3>1. x \in BoundedReads
        BY <1>0 DEF BoundedReads
    <3> QED
        BY <1>0, <2>1, <3>1
  <2> HIDE DEF x
  <2>3. reader' \in [Readers -> BoundedReads]
      BY <1>0, <2>2
  <2> QED
      BY <1>0, <1>5, <2>1, <2>3
<1>9. ASSUME NEW r \in Readers, Camera!Check(r) PROVE CameraBounded'
  <2> DEFINE new == [slot |-> reader[r].slot, frame |-> pixels[reader[r].slot], by |-> r]
  <2>1. /\ UNCHANGED <<camera, writer, video, pixels, write, latest, seq, shared>>
        /\ held' = held \cup {new} \/ held' = held
        /\ seen' = reader[r].seq \/ seen' = seen
        /\ reader' = [reader EXCEPT ![r] = Camera!NotReading]
      BY <1>9 DEF Camera!Check, Camera!ring
  <2>2. new \in BoundedBuffers /\ reader[r].seq \in 0 .. MaxSeq
      BY <1>0 DEF BoundedBuffers, BoundedReads
  <2> HIDE DEF new
  <2>3. held' \subseteq BoundedBuffers /\ seen' \in 0 .. MaxSeq
      BY <1>0, <2>1, <2>2
  <2>4. Camera!NotReading \in BoundedReads
      BY HelperAssumption DEF Camera!NotReading, BoundedReads, Slots, Camera!Slots
  <2>5. reader' \in [Readers -> BoundedReads]
      BY <1>0, <2>1, <2>4
  <2> QED
      BY <1>5, <2>1, <2>3, <2>5
<1>10. ASSUME NEW b \in held, Camera!Release(b) PROVE CameraBounded'
  <2>1. /\ UNCHANGED <<reader, seen>> /\ held' = held \ {b}
        /\ UNCHANGED <<camera, writer, video, pixels, write, latest, seq, shared>>
      BY <1>10 DEF Camera!Release, Camera!ring
  <2>2. held' \subseteq BoundedBuffers
      BY <1>0, <2>1
  <2> QED
      BY <1>0, <1>5, <2>1, <2>2
<1>11. CASE UNCHANGED ring
    BY <1>11 DEF ring, CameraBounded, Begun
<1> QED
    BY <1>1, <1>2, <1>3, <1>4, <1>6, <1>7, <1>8, <1>9, <1>10, <1>11 DEF Camera!Next, Writers

LEMMA CameraInitBounded == Camera!Init => CameraBounded
<1> SUFFICES ASSUME Camera!Init PROVE CameraBounded
    OBVIOUS
<1>1. 0 \in Slots /\ 0 \in 0 .. MaxSeq /\ MaxSeq \in Nat
    BY HelperAssumption DEF Slots, Camera!Slots
<1>2. /\ camera = "none" /\ video = "off"
      /\ writer = [w \in Writers |-> Camera!Away] /\ pixels = [s \in Slots |-> Nothing]
      /\ write = 0 /\ latest = 0 /\ seq = 0 /\ shared = 0 /\ held = {}
      /\ reader = [r \in Readers |-> Camera!NotReading] /\ seen = 0
    BY DEF Camera!Init, Writers, Slots, Nothing
<1>3. Begun = {}
    BY <1>2, AwayIsATurn DEF Begun
<1>4. Cardinality(Begun) = 0
    BY <1>3, FS_EmptySet
<1>5. writer \in [Writers -> Turn]
    BY <1>2, AwayIsATurn
<1>6. reader \in [Readers -> BoundedReads]
    BY <1>1, <1>2 DEF Camera!NotReading, BoundedReads
<1> QED
    BY <1>1, <1>2, <1>4, <1>5, <1>6 DEF CameraBounded

LEMMA CameraBoundedTypes == CameraBounded => Camera!TypeOK
<1> SUFFICES ASSUME CameraBounded PROVE Camera!TypeOK
    OBVIOUS
<1>1. \A w \in Writers : writer[w].at \in {"away", "pick", "copy", "point", "store"}
    BY TurnFacts
<1> QED
    BY <1>1 DEF CameraBounded, Camera!TypeOK, BoundedBuffers, Writers, Slots, Nothing

-----------------------------------------------------------------------------
(* Panel capture.                                                            *)

Captures0 == [last : [Panels -> 0 .. MaxSeed], handed : [Panels -> 0 .. MaxSeed],
              failed : [Panels -> 0 .. MaxSeed],
              stale : BOOLEAN, some : BOOLEAN, due : BOOLEAN]

LEMMA CaptureTypes ==
    ASSUME seed \in [Panels -> 0 .. MaxSeed], demand \in BOOLEAN, NEW c \in Captures0, NEW forced \in BOOLEAN
    PROVE  Capture!Captured(c, forced) \subseteq Captures0 /\ Capture!Forgotten(c) \in Captures0
<1>1. /\ c.last \in [Panels -> 0 .. MaxSeed] /\ c.handed \in [Panels -> 0 .. MaxSeed]
      /\ c.failed \in [Panels -> 0 .. MaxSeed]
      /\ c.stale \in BOOLEAN /\ c.some \in BOOLEAN /\ c.due \in BOOLEAN
    BY DEF Captures0
<1>2. ASSUME NEW failing \in SUBSET Panels PROVE Capture!Panelled(c, forced, failing) \in Captures0
  <2> DEFINE hit == {p \in Panels : /\ seed[p] > 0
                                    /\ forced \/ (c.some /\ c.due) \/ c.stale \/ c.last[p] # seed[p]}
             Taken(old, of) == [p \in Panels |-> IF p \in of THEN seed[p] ELSE old[p]]
             last == Taken(c.last, hit)
             handed == Taken(c.handed, hit \ failing)
             failed == Taken(c.failed, hit \cap failing)
             some == c.some \/ hit \ failing # {}
             due == c.due /\ hit \ failing = {}
  <2>1. Capture!Panelled(c, forced, failing)
          = [last |-> last, handed |-> handed, failed |-> failed, stale |-> FALSE, some |-> some, due |-> due]
      BY DEF Capture!Panelled
  <2> HIDE DEF hit
  <2>2. /\ last \in [Panels -> 0 .. MaxSeed] /\ handed \in [Panels -> 0 .. MaxSeed]
        /\ failed \in [Panels -> 0 .. MaxSeed]
      BY <1>1
  <2>3. some \in BOOLEAN /\ due \in BOOLEAN
      BY <1>1
  <2> HIDE DEF last, handed, failed, some, due
  <2> QED
      BY <2>1, <2>2, <2>3 DEF Captures0
<1>3. [c EXCEPT !.stale = TRUE] \in Captures0
    BY DEF Captures0
<1>4. Capture!Captured(c, forced) \subseteq Captures0
    BY <1>2, <1>3 DEF Capture!Captured
<1>5. Capture!Forgotten(c) \in Captures0
  <2> DEFINE none == [p \in Panels |-> 0]
  <2>1. none \in [Panels -> 0 .. MaxSeed]
      BY HelperAssumption
  <2>2. Capture!Forgotten(c) = [c EXCEPT !.last = none]
      BY DEF Capture!Forgotten, Capture!Nothing
  <2> HIDE DEF none
  <2> QED
      BY <2>1, <2>2 DEF Captures0
<1> QED
    BY <1>4, <1>5

LEMMA CaptureNextKeeps ==
    ASSUME Capture!CaptureTypeOK, [Capture!CaptureNext]_capture
    PROVE  Capture!CaptureTypeOK'
<1>0. /\ seed \in [Panels -> 0 .. MaxSeed] /\ callbacks \subseteq Panels
      /\ demand \in BOOLEAN /\ turns \in 0 .. MaxTurns /\ cap \in Captures0
      /\ MaxSeed \in Nat /\ MaxTurns \in Nat
    BY HelperAssumption DEF Capture!CaptureTypeOK, Captures0
<1>1. ASSUME NEW p \in Panels, Capture!Draws(p) PROVE Capture!CaptureTypeOK'
  <2>1. seed[p] + 1 \in 0 .. MaxSeed
      BY <1>0, <1>1 DEF Capture!Draws
  <2> QED
      BY <1>0, <1>1, <2>1 DEF Capture!Draws, Capture!CaptureTypeOK
<1>2. ASSUME cap' \in Captures0, callbacks' \subseteq Panels, UNCHANGED <<seed, demand, turns>>
      PROVE  Capture!CaptureTypeOK'
    BY <1>0, <1>2 DEF Capture!CaptureTypeOK, Captures0
<1>3. ASSUME NEW p \in Panels, Capture!Callback(p) PROVE Capture!CaptureTypeOK'
  <2>1. PICK refresh \in BOOLEAN : cap' \in Capture!Captured(cap, refresh)
      BY <1>3 DEF Capture!Callback
  <2>2. cap' \in Captures0
      BY <1>0, <2>1, CaptureTypes
  <2>3. callbacks' \subseteq Panels /\ UNCHANGED <<seed, demand, turns>>
      BY <1>0, <1>3 DEF Capture!Callback
  <2> QED
      BY <1>2, <2>2, <2>3
<1>4. ASSUME NEW bound \in BOOLEAN, NEW idle \in BOOLEAN, NEW rewire \in BOOLEAN,
             Capture!Tick(bound, idle, rewire)
      PROVE  Capture!CaptureTypeOK'
  <2>1. callbacks' \subseteq Panels /\ UNCHANGED <<seed, demand, turns>>
      BY <1>0, <1>4 DEF Capture!Tick
  <2>2. ASSUME NEW c \in Captures0
        PROVE  /\ Capture!Captured(c, FALSE) \subseteq Captures0 /\ Capture!Forgotten(c) \in Captures0
               /\ [c EXCEPT !.due = FALSE] \in Captures0
    <3>1. [c EXCEPT !.due = FALSE] \in Captures0
        BY DEF Captures0
    <3>2. FALSE \in BOOLEAN
        OBVIOUS
    <3> QED
        BY <1>0, <3>1, <3>2, CaptureTypes
  <2>3. PICK c1 \in IF bound THEN Capture!Captured(Capture!Forgotten(cap), FALSE) ELSE {cap} :
             \E c2 \in IF c1.stale /\ demand THEN Capture!Captured(c1, FALSE) ELSE {c1} :
             \E c3 \in IF ~c2.due THEN {c2}
                       ELSE IF idle THEN Capture!Captured(c2, FALSE) ELSE {[c2 EXCEPT !.due = FALSE]} :
               cap' \in IF ~c3.some /\ rewire THEN Capture!Captured(Capture!Forgotten(c3), FALSE) ELSE {c3}
      BY <1>4 DEF Capture!Tick
  <2>4. c1 \in Captures0
      BY <1>0, <2>2, <2>3
  <2>5. PICK c2 \in IF c1.stale /\ demand THEN Capture!Captured(c1, FALSE) ELSE {c1} :
             \E c3 \in IF ~c2.due THEN {c2}
                       ELSE IF idle THEN Capture!Captured(c2, FALSE) ELSE {[c2 EXCEPT !.due = FALSE]} :
               cap' \in IF ~c3.some /\ rewire THEN Capture!Captured(Capture!Forgotten(c3), FALSE) ELSE {c3}
      BY <2>3
  <2>6. c2 \in Captures0
      BY <2>2, <2>4, <2>5
  <2>7. PICK c3 \in IF ~c2.due THEN {c2}
                    ELSE IF idle THEN Capture!Captured(c2, FALSE) ELSE {[c2 EXCEPT !.due = FALSE]} :
             cap' \in IF ~c3.some /\ rewire THEN Capture!Captured(Capture!Forgotten(c3), FALSE) ELSE {c3}
      BY <2>5
  <2>8. c3 \in Captures0
      BY <2>2, <2>6, <2>7
  <2>9. cap' \in Captures0
      BY <2>2, <2>7, <2>8
  <2> QED
      BY <1>2, <2>1, <2>9
<1>5. CASE Capture!TimePasses
  <2>1. cap' \in Captures0
      BY <1>0, <1>5 DEF Capture!TimePasses, Captures0
  <2> QED
      BY <1>0, <1>2, <1>5, <2>1 DEF Capture!TimePasses
<1>6. CASE Capture!Turns
  <2>1. turns' \in 0 .. MaxTurns /\ demand' \in BOOLEAN
      BY <1>0, <1>6 DEF Capture!Turns
  <2> QED
      BY <1>0, <1>6, <2>1 DEF Capture!Turns, Capture!CaptureTypeOK
<1>7. CASE UNCHANGED capture
    BY <1>7 DEF capture, Capture!CaptureTypeOK
<1> QED
    BY <1>1, <1>3, <1>4, <1>5, <1>6, <1>7 DEF Capture!CaptureNext, Capture!Ticks

LEMMA CaptureInitTypes == Capture!CaptureInit => Capture!CaptureTypeOK
<1> SUFFICES ASSUME Capture!CaptureInit PROVE Capture!CaptureTypeOK
    OBVIOUS
<1> DEFINE none == [p \in Panels |-> 0]
<1>1. none \in [Panels -> 0 .. MaxSeed] /\ 0 \in 0 .. MaxTurns
    BY HelperAssumption
<1>2. /\ seed = none /\ callbacks = {} /\ demand = FALSE /\ turns = 0
      /\ cap = [last |-> none, handed |-> none, failed |-> none, stale |-> FALSE, some |-> FALSE, due |-> FALSE]
    BY DEF Capture!CaptureInit, Capture!Nothing
<1> HIDE DEF none
<1> QED
    BY <1>1, <1>2 DEF Capture!CaptureTypeOK

-----------------------------------------------------------------------------
(* The display monitor.                                                      *)

Samples == [active : SUBSET Panels, main : Panels]

LEMMA DisplayTypes ==
    ASSUME NEW s \in Samples, NEW prev
    PROVE  /\ Monitor!Shown(s) \in Monitor!Displays
           /\ Monitor!Selected(s, prev) \in Monitor!Displays
<1>1. s.active \subseteq Panels /\ s.main \in Panels
    BY DEF Samples
<1>2. \A p \in Panels, b \in BOOLEAN : Monitor!Display(p, b) \in Monitor!Displays
    BY DEF Monitor!Display, Monitor!Displays
<1>3. Monitor!None \in Monitor!Displays
    BY DEF Monitor!Displays
<1>4. (s.active = {}) \in BOOLEAN /\ FALSE \in BOOLEAN
    OBVIOUS
<1>5. Monitor!Shown(s) \in Monitor!Displays
    BY <1>1, <1>2, <1>4 DEF Monitor!Shown
<1> QED
    BY <1>1, <1>2, <1>3, <1>4, <1>5 DEF Monitor!Selected

\* A display that is one names a panel.
LEMMA DisplayNames ==
    ASSUME NEW d \in Monitor!Displays
    PROVE  d.id \in Panels \union {0}
BY DEF Monitor!Displays, Monitor!None

LEMMA MonitorInitTypes == Monitor!MonitorInit => Monitor!MonitorTypeOK
<1> SUFFICES ASSUME Monitor!MonitorInit PROVE Monitor!MonitorTypeOK
    OBVIOUS
<1> DEFINE printing == [active |-> {}, main |-> 0]
           idle == [at |-> "idle", display |-> Monitor!None]
<1>1. Monitor!None \in Monitor!Displays
    BY DEF Monitor!Displays
<1>2. {First} \subseteq Panels /\ First \in Panels /\ 0 \in 0 .. MaxChanges
    BY HelperAssumption
<1>3. /\ printing \in [active : SUBSET Panels, main : Panels \union {0}]
      /\ idle \in [at : {"idle", "asked", "post"}, display : Monitor!Displays]
  <2>1. {} \in SUBSET Panels
      OBVIOUS
  <2> QED
      BY <1>1, <2>1
<1> HIDE DEF printing, idle
<1>4. /\ active = {First} /\ main = First /\ changes = 0 /\ printed = printing /\ poll = idle
      /\ pipe = << >> /\ found = << >> /\ previous = 0
      /\ primary = Monitor!None /\ streamed = Monitor!None /\ observed = Monitor!None
    BY DEF Monitor!MonitorInit, printing, idle
<1>5. alive \in BOOLEAN /\ ambiguous \in BOOLEAN /\ overtaken \in BOOLEAN
    BY DEF Monitor!MonitorInit
<1> QED
    BY <1>1, <1>2, <1>3, <1>4, <1>5 DEF Monitor!MonitorTypeOK

LEMMA MonitorNextKeeps ==
    ASSUME Monitor!MonitorTypeOK, [Monitor!MonitorNext]_monitor
    PROVE  Monitor!MonitorTypeOK'
<1> DEFINE Polled == [at : {"idle", "asked", "post"}, display : Monitor!Displays]
           idle == [at |-> "idle", display |-> Monitor!None]
<1>0. /\ active \subseteq Panels /\ main \in Panels /\ changes \in 0 .. MaxChanges
      /\ printed \in [active : SUBSET Panels, main : Panels \union {0}] /\ pipe \in Seq(Samples)
      /\ alive \in BOOLEAN /\ ambiguous \in BOOLEAN /\ overtaken \in BOOLEAN
      /\ previous \in Panels \union {0} /\ primary \in Monitor!Displays
      /\ streamed \in Monitor!Displays /\ observed \in Monitor!Displays
      /\ found \in Seq(Monitor!Displays) /\ poll \in Polled /\ MaxChanges \in Nat
    BY HelperAssumption DEF Monitor!MonitorTypeOK, Samples
<1>00. Monitor!None \in Monitor!Displays /\ idle \in Polled
    BY DEF Monitor!Displays
<1>000. /\ Monitor!Sample \in Samples
        /\ Monitor!Sample \in [active : SUBSET Panels, main : Panels \union {0}]
    BY <1>0 DEF Monitor!Sample, Samples
<1>1. ASSUME /\ active' \subseteq Panels /\ main' \in Panels /\ changes' \in 0 .. MaxChanges
             /\ UNCHANGED <<printed, pipe, alive, ambiguous, primary, previous, streamed,
                            poll, overtaken, found, observed>>
      PROVE  Monitor!MonitorTypeOK'
    BY <1>0, <1>1 DEF Monitor!MonitorTypeOK, Samples
<1>2. CASE Monitor!RuntimeChanges
  <2>1. main' \in Panels /\ active' \subseteq Panels /\ changes' \in 0 .. MaxChanges
      BY <1>0, <1>2 DEF Monitor!RuntimeChanges
  <2> QED
      BY <1>1, <1>2, <2>1 DEF Monitor!RuntimeChanges
<1>3. ASSUME /\ printed' \in [active : SUBSET Panels, main : Panels \union {0}]
             /\ pipe' \in Seq(Samples) /\ alive' \in BOOLEAN /\ primary' \in Monitor!Displays
             /\ ambiguous' \in BOOLEAN /\ overtaken' \in BOOLEAN
             /\ previous' \in Panels \union {0} /\ streamed' \in Monitor!Displays
             /\ poll' \in Polled /\ found' \in Seq(Monitor!Displays)
             /\ observed' \in Monitor!Displays /\ UNCHANGED <<active, main, changes>>
      PROVE  Monitor!MonitorTypeOK'
    BY <1>0, <1>3 DEF Monitor!MonitorTypeOK, Samples
<1>4. CASE Monitor!Prints
  <2>1. pipe' \in Seq(Samples)
      BY <1>0, <1>000, <1>4 DEF Monitor!Prints
  <2>2. /\ printed' = Monitor!Sample
        /\ UNCHANGED <<active, main, changes, alive, ambiguous, primary, previous,
                       streamed, poll, overtaken, found, observed>>
      BY <1>4 DEF Monitor!Prints
  <2> HIDE DEF Polled
  <2> QED
      BY <1>0, <1>000, <1>3, <2>1, <2>2
<1>5. CASE Monitor!ReadsSample
  <2> DEFINE s == Head(pipe)
             kept == IF Monitor!Clear(s) THEN Monitor!None ELSE primary
             d == Monitor!Selected(s, IF kept # Monitor!None THEN kept.id ELSE previous)
             display == IF d # Monitor!None THEN d ELSE kept
  <2>1. s \in Samples /\ pipe' \in Seq(Samples)
      BY <1>0, <1>5 DEF Monitor!ReadsSample
  <2>2. /\ ambiguous' = ~Monitor!Clear(s) /\ primary' = kept /\ streamed' = display
        /\ previous' = IF display # Monitor!None THEN display.id ELSE previous
        /\ overtaken' = (overtaken \/ (poll.at = "post" /\ Monitor!Clear(s)))
        /\ UNCHANGED <<active, main, changes, printed, alive, poll, found, observed>>
      BY <1>5 DEF Monitor!ReadsSample
  <2> HIDE DEF s
  <2>3. kept \in Monitor!Displays
      BY <1>0, <1>00
  <2> HIDE DEF kept
  <2>4. d \in Monitor!Displays
      BY <2>1, DisplayTypes
  <2> HIDE DEF d
  <2>5. display \in Monitor!Displays
      BY <2>3, <2>4
  <2> HIDE DEF display
  <2>6. previous' \in Panels \union {0}
      BY <1>0, <2>2, <2>5, DisplayNames
  <2>7. ambiguous' \in BOOLEAN /\ overtaken' \in BOOLEAN
      BY <2>2, Zenon
  <2> HIDE DEF Polled
  <2> QED
      BY <1>0, <1>3, <2>1, <2>2, <2>3, <2>5, <2>6, <2>7
<1>6. CASE Monitor!Streams
  <2>1. /\ streamed' = Monitor!None /\ found' \in Seq(Monitor!Displays)
        /\ UNCHANGED <<active, main, changes, printed, pipe, alive, ambiguous,
                       primary, previous, poll, overtaken, observed>>
      BY <1>0, <1>6 DEF Monitor!Streams
  <2> HIDE DEF Polled
  <2> QED
      BY <1>0, <1>00, <1>3, <2>1
<1>7. CASE Monitor!StreamEnds
  <2>1. /\ alive' = FALSE /\ pipe' = << >> /\ primary' = Monitor!None
        /\ UNCHANGED <<active, main, changes, printed, ambiguous, previous, streamed,
                       poll, overtaken, found, observed>>
      BY <1>7 DEF Monitor!StreamEnds
  <2>2. pipe' \in Seq(Samples)
      BY <2>1
  <2> HIDE DEF Polled
  <2> QED
      BY <1>0, <1>00, <1>3, <2>1, <2>2
<1>8. CASE Monitor!Polls
  <2> DEFINE asked == [at |-> "asked", display |-> Monitor!Shown(Monitor!Sample)]
  <2>1. asked \in Polled
      BY <1>000, DisplayTypes
  <2>2. /\ poll' = asked
        /\ UNCHANGED <<active, main, changes, printed, pipe, alive, ambiguous,
                       primary, previous, streamed, overtaken, found, observed>>
      BY <1>8 DEF Monitor!Polls
  <2> HIDE DEF Polled, asked
  <2> QED
      BY <1>0, <1>3, <2>1, <2>2
<1>9. ASSUME NEW ok \in BOOLEAN, Monitor!Answers(ok) PROVE Monitor!MonitorTypeOK'
  <2>1. poll.display \in Monitor!Displays /\ [poll EXCEPT !.at = "post"] \in Polled
      BY <1>0
  <2>2. /\ \/ poll' = [poll EXCEPT !.at = "post"] /\ primary' = poll.display
           \/ poll' = idle /\ primary' = primary
        /\ UNCHANGED <<active, main, changes, printed, pipe, alive, ambiguous,
                       previous, streamed, overtaken, found, observed>>
      BY <1>9 DEF Monitor!Answers
  <2> HIDE DEF Polled, idle
  <2>3. poll' \in Polled /\ primary' \in Monitor!Displays
      BY <1>0, <1>00, <2>1, <2>2
  <2> QED
      BY <1>0, <1>3, <2>2, <2>3
<1>10. CASE Monitor!Posts
  <2>1. poll.display \in Monitor!Displays
      BY <1>0
  <2>2. /\ poll' = idle /\ found' = Append(found, poll.display)
        /\ UNCHANGED <<active, main, changes, printed, pipe, alive, ambiguous,
                       primary, previous, streamed, overtaken, observed>>
      BY <1>10 DEF Monitor!Posts
  <2> HIDE DEF Polled, idle
  <2>3. found' \in Seq(Monitor!Displays)
      BY <1>0, <2>1, <2>2
  <2> QED
      BY <1>0, <1>00, <1>3, <2>2, <2>3
<1>11. CASE Monitor!Observes
  <2>1. /\ found' \in Seq(Monitor!Displays) /\ observed' \in Monitor!Displays
        /\ UNCHANGED <<active, main, changes, printed, pipe, alive, ambiguous,
                       primary, previous, streamed, poll, overtaken>>
      BY <1>0, <1>11 DEF Monitor!Observes
  <2> HIDE DEF Polled
  <2> QED
      BY <1>0, <1>3, <2>1
<1>12. CASE UNCHANGED monitor
    BY <1>12 DEF monitor, Monitor!MonitorTypeOK
<1> QED
    BY <1>2, <1>4, <1>5, <1>6, <1>7, <1>8, <1>9, <1>10, <1>11, <1>12 DEF Monitor!MonitorNext

-----------------------------------------------------------------------------
PartsInv ==
    /\ TypeOK /\ RateInBounds /\ DuoInv /\ CameraBounded
    /\ Capture!CaptureTypeOK /\ Monitor!MonitorTypeOK

\* Every part's variables have their types and stay within their bounds, for any sizes,
\* panels, sources and numbers of threads, with late frames of the camera or without.  The
\* camera never publishes more than it began, which takes counting its writers.
\* (AdaptiveController.swift, DuoFramePump.swift, FrameCapture.swift, FrameDisplayMonitor.swift,
\* SimCameraHelper/main.m)
THEOREM PartsTypes == PartsSpec => []PartsTypeOK
<1>1. PartsInit => PartsInv
  <2> SUFFICES ASSUME PartsInit PROVE PartsInv
      OBVIOUS
  <2>1. Camera!Init /\ Capture!CaptureInit /\ Monitor!MonitorInit
      BY DEF PartsInit
  <2> QED
      BY <2>1, AdaptiveInit, DuoInit, CameraInitBounded, CaptureInitTypes, MonitorInitTypes DEF PartsInv
<1>2. PartsInv /\ [PartsNext]_<<part, vars, duo, ring, capture, monitor>> => PartsInv'
    BY PartSteps, AdaptiveNextKeeps, DuoNextKeeps, CameraNextBounded, CaptureNextKeeps, MonitorNextKeeps
       DEF PartsInv
<1>3. PartsInv => PartsTypeOK
    BY CameraBoundedTypes DEF PartsInv, DuoInv, PartsTypeOK
<1> QED
    BY <1>1, <1>2, <1>3, PTL DEF PartsSpec
============================================================================
