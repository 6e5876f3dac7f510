--------------------------- MODULE H264PumpProofs ---------------------------
(* The pump's slots, its parked frame and its keyframe requests, for every  *)
(* depth and any number of frames.                                          *)
EXTENDS H264Pump, TLAPS

\* A thread holds a frame exactly between its claim and its submit.
HeldInv == \A t \in Thread : at[t] = "submitting" => held[t] # NoFrame

IdleHandsInv == \A t \in Thread : at[t] # "submitting" => held[t] = NoFrame

PumpInv ==
    /\ TypeOK
    /\ HeldInv
    /\ IdleHandsInv
    /\ SlotsExact
    /\ ParkedIsSeen
    /\ forceAsked <= offered
    /\ ForceSurvives

LEMMA NoFrameFields == NoFrame.id = 0 /\ NoFrame.force = FALSE /\ NoFrame \notin Frame
BY DEF NoFrame, Frame

LEMMA InitPump == Init => PumpInv
<1> SUFFICES ASSUME Init PROVE PumpInv
    OBVIOUS
<1>1. TypeOK
    BY 0 \in Nat, <<>> \in Seq(Frame) DEF Init, TypeOK, Place
<1>2. HeldInv /\ IdleHandsInv
    BY DEF Init, HeldInv, IdleHandsInv
<1>3. SlotsExact
    BY PumpAssumption DEF Init, SlotsExact, InHands, Thread
<1>4. ParkedIsSeen /\ ForceSurvives /\ forceAsked <= offered
    BY DEF Init, ParkedIsSeen, ForceSurvives
<1> QED
    BY <1>1, <1>2, <1>3, <1>4 DEF PumpInv

LEMMA OfferStep == ASSUME PumpInv, NEW force \in BOOLEAN, Offer(force) PROVE PumpInv'
<1> USE DEF PumpInv
<1>0. /\ at["capture"] = "idle"
      /\ offered' = offered + 1
      /\ pending' = Park(force)
      /\ at' = [at EXCEPT !["capture"] = "draining"]
      /\ forceAsked' = IF force THEN offered + 1 ELSE forceAsked
      /\ UNCHANGED <<inFlight, held, h264Queue, encoder, shown, forceGiven>>
      /\ offered \in Nat /\ forceAsked \in Nat
      /\ at \in [Thread -> Place]
    BY DEF Offer, TypeOK
<1>1. /\ Park(force) \in Frame
      /\ Park(force).id = offered + 1
      /\ Park(force).force = (force \/ pending.force)
  <2>1. pending.force \in BOOLEAN
      BY NoFrameFields DEF TypeOK, Frame
  <2>2. offered + 1 \in Nat \ {0} /\ (force \/ pending.force) \in BOOLEAN
      BY <1>0, <2>1
  <2> QED
      BY <2>2 DEF Park, Frame
<1>2. TypeOK'
    BY <1>0, <1>1 DEF TypeOK, Place, Thread
<1>3. HeldInv' /\ IdleHandsInv'
    BY <1>0 DEF HeldInv, IdleHandsInv, Thread
<1>4. SlotsExact'
  <2>1. \A t \in Thread : InHands(t)' = InHands(t)
      BY <1>0 DEF InHands, Thread
  <2> QED
      BY <1>0, <2>1 DEF SlotsExact, Thread
<1>5. ParkedIsSeen'
    BY <1>0 DEF ParkedIsSeen, Thread
<1>6. (forceAsked <= offered)'
    BY <1>0
<1>7. ForceSurvives'
  <2>1. CASE force
    <3>1. pending'.force = TRUE /\ pending'.id = offered + 1
        BY <1>0, <1>1, <2>1
    <3>2. forceAsked' = offered + 1
        BY <1>0, <2>1
    <3> QED
        BY <1>0, <3>1, <3>2 DEF ForceSurvives
  <2>2. CASE ~force
    <3>1. forceAsked' = forceAsked
        BY <1>0, <2>2
    <3>2. CASE pending.force
      <4>1. pending'.force = TRUE /\ pending'.id = offered + 1
          BY <1>0, <1>1, <3>2
      <4>2. offered + 1 >= forceAsked
          BY <1>0
      <4> QED
          BY <3>1, <4>1, <4>2 DEF ForceSurvives
    <3>3. CASE ~pending.force
        BY <1>0, <3>1, <3>3 DEF ForceSurvives, ForcedIn
    <3> QED
        BY <3>2, <3>3
  <2> QED
      BY <2>1, <2>2
<1> QED
    BY <1>2, <1>3, <1>4, <1>5, <1>6, <1>7

LEMMA ClaimStep == ASSUME PumpInv, NEW t \in Thread, Claim(t) PROVE PumpInv'
<1> USE DEF PumpInv
<1>0. /\ at[t] = "draining"
      /\ inFlight < MaxInFlight /\ pending # NoFrame
      /\ held' = [held EXCEPT ![t] = pending]
      /\ pending' = NoFrame
      /\ inFlight' = inFlight + 1
      /\ at' = [at EXCEPT ![t] = "submitting"]
      /\ UNCHANGED <<offered, h264Queue, encoder, shown, forceAsked, forceGiven>>
      /\ inFlight \in Nat
      /\ at \in [Thread -> Place]
      /\ held \in [Thread -> Frame \cup {NoFrame}]
      /\ MaxInFlight \in Nat
    BY PumpAssumption DEF Claim, CanClaim, TypeOK
<1>1. TypeOK'
    BY <1>0 DEF TypeOK, Place
<1>2. HeldInv' /\ IdleHandsInv'
    BY <1>0 DEF HeldInv, IdleHandsInv
<1>3. SlotsExact'
  <2>1. InHands(t)' = InHands(t) + 1
      BY <1>0 DEF InHands
  <2>2. \A u \in Thread \ {t} : InHands(u)' = InHands(u)
      BY <1>0 DEF InHands
  <2>3. \A u \in Thread : InHands(u) \in {0, 1}
      BY DEF InHands
  <2>4. Len(h264Queue) \in Nat /\ Len(encoder) \in Nat
      BY DEF TypeOK
  <2> QED
      BY <1>0, <2>1, <2>2, <2>3, <2>4 DEF SlotsExact, Thread
<1>4. ParkedIsSeen'
    BY <1>0 DEF ParkedIsSeen
<1>5. ForceSurvives'
  <2>1. held[t] = NoFrame
      BY <1>0 DEF IdleHandsInv
  <2>2. CASE pending.force /\ pending.id >= forceAsked
    <3>1. held'[t] = pending
        BY <1>0
    <3> QED
        BY <1>0, <2>2, <3>1 DEF ForceSurvives
  <2>3. ASSUME NEW u \in Thread, held[u].force /\ held[u].id >= forceAsked
        PROVE  ForceSurvives'
    <3>1. u # t
        BY <2>1, <2>3, NoFrameFields
    <3>2. held'[u] = held[u]
        BY <1>0, <3>1
    <3> QED
        BY <1>0, <2>3, <3>2 DEF ForceSurvives
  <2> QED
      BY <1>0, <2>2, <2>3 DEF ForceSurvives, ForcedIn
<1> QED
    BY <1>0, <1>1, <1>2, <1>3, <1>4, <1>5

LEMMA EndDrainStep == ASSUME PumpInv, NEW t \in Thread, EndDrain(t) PROVE PumpInv'
<1> USE DEF PumpInv
<1>0. /\ at[t] = "draining"
      /\ ~CanClaim
      /\ at' = [at EXCEPT ![t] = "idle"]
      /\ UNCHANGED <<offered, pending, inFlight, held, h264Queue, encoder, shown,
                     forceAsked, forceGiven>>
      /\ at \in [Thread -> Place]
    BY DEF EndDrain, TypeOK
<1>1. TypeOK'
    BY <1>0 DEF TypeOK, Place
<1>2. HeldInv' /\ IdleHandsInv'
    BY <1>0 DEF HeldInv, IdleHandsInv
<1>3. SlotsExact'
  <2>1. \A u \in Thread : InHands(u)' = InHands(u)
      BY <1>0 DEF InHands
  <2> QED
      BY <1>0, <2>1 DEF SlotsExact, Thread
<1>4. ParkedIsSeen'
    BY <1>0 DEF ParkedIsSeen, CanClaim
<1>5. ForceSurvives'
    BY <1>0 DEF ForceSurvives, ForcedIn
<1> QED
    BY <1>0, <1>1, <1>2, <1>3, <1>4, <1>5

LEMMA SubmitStep == ASSUME PumpInv, NEW t \in Thread, Submit(t) PROVE PumpInv'
<1> USE DEF PumpInv
<1>0. /\ at[t] = "submitting"
      /\ h264Queue' = Append(h264Queue, held[t])
      /\ held' = [held EXCEPT ![t] = NoFrame]
      /\ at' = [at EXCEPT ![t] = "draining"]
      /\ UNCHANGED <<offered, pending, inFlight, encoder, shown, forceAsked,
                     forceGiven>>
      /\ at \in [Thread -> Place]
      /\ held \in [Thread -> Frame \cup {NoFrame}]
      /\ h264Queue \in Seq(Frame)
    BY DEF Submit, TypeOK
<1>1. held[t] \in Frame
    BY <1>0 DEF HeldInv
<1>2. /\ h264Queue' \in Seq(Frame)
      /\ Len(h264Queue') = Len(h264Queue) + 1
      /\ Len(h264Queue) \in Nat
      /\ h264Queue'[Len(h264Queue) + 1] = held[t]
      /\ \A i \in DOMAIN h264Queue : i \in DOMAIN h264Queue' /\ h264Queue'[i] = h264Queue[i]
      /\ Len(h264Queue) + 1 \in DOMAIN h264Queue'
    BY <1>0, <1>1
<1>3. TypeOK'
    BY <1>0, <1>2 DEF TypeOK, Place
<1>4. HeldInv' /\ IdleHandsInv'
    BY <1>0 DEF HeldInv, IdleHandsInv
<1>5. SlotsExact'
  <2>1. InHands(t) = 1 /\ InHands(t)' = 0
      BY <1>0 DEF InHands
  <2>2. \A u \in Thread \ {t} : InHands(u)' = InHands(u)
      BY <1>0 DEF InHands
  <2>3. \A u \in Thread : InHands(u) \in {0, 1}
      BY DEF InHands
  <2>4. Len(encoder) \in Nat
      BY DEF TypeOK
  <2> QED
      BY <1>0, <1>2, <2>1, <2>2, <2>3, <2>4 DEF SlotsExact, Thread
<1>6. ParkedIsSeen'
    BY <1>0 DEF ParkedIsSeen
<1>7. ForceSurvives'
  <2>1. CASE held[t].force /\ held[t].id >= forceAsked
    <3>1. ForcedIn(h264Queue', forceAsked')
        BY <1>0, <1>2, <2>1 DEF ForcedIn
    <3> QED
        BY <3>1 DEF ForceSurvives
  <2>2. ASSUME NEW u \in Thread, u # t, held[u].force /\ held[u].id >= forceAsked
        PROVE  ForceSurvives'
    <3>1. held'[u] = held[u]
        BY <1>0, <2>2
    <3> QED
        BY <1>0, <2>2, <3>1 DEF ForceSurvives
  <2>3. CASE ForcedIn(h264Queue, forceAsked)
    <3>1. ForcedIn(h264Queue', forceAsked')
        BY <1>0, <1>2, <2>3 DEF ForcedIn
    <3> QED
        BY <3>1 DEF ForceSurvives
  <2>4. CASE forceGiven >= forceAsked \/ (pending.force /\ pending.id >= forceAsked)
      BY <1>0, <2>4 DEF ForceSurvives
  <2> QED
      BY <2>1, <2>2, <2>3, <2>4 DEF ForceSurvives
<1> QED
    BY <1>0, <1>3, <1>4, <1>5, <1>6, <1>7

LEMMA CompleteStep == ASSUME PumpInv, NEW t \in Thread, Complete(t) PROVE PumpInv'
<1> USE DEF PumpInv
<1>0. /\ at[t] = "completing"
      /\ inFlight' = IF inFlight > 0 THEN inFlight - 1 ELSE inFlight
      /\ at' = [at EXCEPT ![t] = "draining"]
      /\ UNCHANGED <<offered, pending, held, h264Queue, encoder, shown,
                     forceAsked, forceGiven>>
      /\ inFlight \in Nat
      /\ MaxInFlight \in Nat
      /\ at \in [Thread -> Place]
    BY PumpAssumption DEF Complete, TypeOK
<1>1. SlotsExact' /\ inFlight' \in Nat
  <2>1. InHands(t) = 1 /\ InHands(t)' = 0
      BY <1>0 DEF InHands
  <2>2. \A u \in Thread \ {t} : InHands(u)' = InHands(u)
      BY <1>0 DEF InHands
  <2>3. \A u \in Thread : InHands(u) \in {0, 1}
      BY DEF InHands
  <2>4. Len(h264Queue) \in Nat /\ Len(encoder) \in Nat
      BY DEF TypeOK
  <2>5. inFlight > 0
      BY <2>1, <2>3, <2>4 DEF SlotsExact, Thread
  <2> QED
      BY <1>0, <2>1, <2>2, <2>3, <2>4, <2>5 DEF SlotsExact, Thread
<1>2. TypeOK'
    BY <1>0, <1>1 DEF TypeOK, Place
<1>3. HeldInv' /\ IdleHandsInv'
    BY <1>0 DEF HeldInv, IdleHandsInv
<1>4. ParkedIsSeen'
    BY <1>0 DEF ParkedIsSeen
<1>5. ForceSurvives'
    BY <1>0 DEF ForceSurvives, ForcedIn
<1> QED
    BY <1>0, <1>1, <1>2, <1>3, <1>4, <1>5

-----------------------------------------------------------------------------
\* h264Queue runs its first block: a forced frame has reached the encoder.
LEMMA RunStep ==
    ASSUME PumpInv, RunEncode
    PROVE  /\ h264Queue \in Seq(Frame)
           /\ Head(h264Queue) \in Frame
           /\ h264Queue' \in Seq(Frame)
           /\ Len(h264Queue) \in Nat
           /\ Len(h264Queue') = Len(h264Queue) - 1
           /\ forceGiven' \in Nat
           /\ ForceSurvives'
<1> USE DEF PumpInv
<1> DEFINE frame == Head(h264Queue)
<1>0. /\ h264Queue # <<>>
      /\ h264Queue' = Tail(h264Queue)
      /\ forceGiven' = IF frame.force /\ frame.id > forceGiven
                       THEN frame.id ELSE forceGiven
      /\ UNCHANGED <<offered, pending, inFlight, held, shown, forceAsked>>
      /\ h264Queue \in Seq(Frame)
      /\ forceGiven \in Nat /\ forceAsked \in Nat
    BY DEF RunEncode, TypeOK
<1>1. /\ frame \in Frame
      /\ frame = h264Queue[1]
      /\ h264Queue' \in Seq(Frame)
      /\ Len(h264Queue) \in Nat
      /\ Len(h264Queue') = Len(h264Queue) - 1
      /\ \A i \in DOMAIN h264Queue :
            i # 1 => i - 1 \in DOMAIN h264Queue' /\ h264Queue'[i - 1] = h264Queue[i]
    BY <1>0
<1>2. frame.id \in Nat
    BY <1>1 DEF Frame
<1>3. forceGiven' \in Nat /\ forceGiven' >= forceGiven
    BY <1>0, <1>2
<1>4. ForceSurvives'
  <2>1. CASE ForcedIn(h264Queue, forceAsked)
    <3>1. PICK i \in DOMAIN h264Queue :
              h264Queue[i].force /\ h264Queue[i].id >= forceAsked
        BY <2>1 DEF ForcedIn
    <3>2. CASE i = 1
      <4>1. frame.force /\ frame.id >= forceAsked
          BY <1>1, <3>1, <3>2
      <4>2. forceGiven' >= forceAsked
          BY <1>0, <1>2, <4>1
      <4> QED
          BY <1>0, <4>2 DEF ForceSurvives
    <3>3. CASE i # 1
      <4>1. ForcedIn(h264Queue', forceAsked')
          BY <1>0, <1>1, <3>1, <3>3 DEF ForcedIn
      <4> QED
          BY <4>1 DEF ForceSurvives
    <3> QED
        BY <3>2, <3>3
  <2>2. CASE ~ForcedIn(h264Queue, forceAsked)
      BY <1>0, <1>3, <2>2 DEF ForceSurvives
  <2> QED
      BY <2>1, <2>2
<1> QED
    BY <1>0, <1>1, <1>3, <1>4

LEMMA EncodeStep == ASSUME PumpInv, Encode PROVE PumpInv'
<1> USE DEF PumpInv
<1>0. /\ RunEncode
      /\ encoder' = Append(encoder, Head(h264Queue))
      /\ UNCHANGED <<offered, pending, inFlight, at, held, shown, forceAsked>>
      /\ encoder \in Seq(Frame)
    BY DEF Encode, RunEncode, TypeOK
<1>1. /\ h264Queue \in Seq(Frame)
      /\ Head(h264Queue) \in Frame
      /\ h264Queue' \in Seq(Frame)
      /\ Len(h264Queue) \in Nat
      /\ Len(h264Queue') = Len(h264Queue) - 1
      /\ forceGiven' \in Nat
      /\ ForceSurvives'
    BY <1>0, RunStep
<1>2. encoder' \in Seq(Frame) /\ Len(encoder') = Len(encoder) + 1 /\ Len(encoder) \in Nat
    BY <1>0, <1>1
<1>3. TypeOK'
    BY <1>0, <1>1, <1>2 DEF TypeOK
<1>4. HeldInv' /\ IdleHandsInv'
    BY <1>0 DEF HeldInv, IdleHandsInv
<1>5. SlotsExact'
  <2>1. \A u \in Thread : InHands(u)' = InHands(u) /\ InHands(u) \in {0, 1}
      BY <1>0 DEF InHands
  <2> QED
      BY <1>0, <1>1, <1>2, <2>1 DEF SlotsExact, Thread
<1>6. ParkedIsSeen'
    BY <1>0 DEF ParkedIsSeen
<1> QED
    BY <1>0, <1>1, <1>3, <1>4, <1>5, <1>6

LEMMA EncodeFailsStep == ASSUME PumpInv, EncodeFails PROVE PumpInv'
<1> USE DEF PumpInv
<1>0. /\ RunEncode
      /\ at["h264"] = "idle"
      /\ at' = [at EXCEPT !["h264"] = "completing"]
      /\ UNCHANGED <<offered, pending, inFlight, held, encoder, shown, forceAsked>>
      /\ at \in [Thread -> Place]
    BY DEF EncodeFails, RunEncode, TypeOK
<1>1. /\ h264Queue \in Seq(Frame)
      /\ h264Queue' \in Seq(Frame)
      /\ Len(h264Queue) \in Nat
      /\ Len(h264Queue') = Len(h264Queue) - 1
      /\ forceGiven' \in Nat
      /\ ForceSurvives'
    BY <1>0, RunStep
<1>3. TypeOK'
    BY <1>0, <1>1 DEF TypeOK, Place, Thread
<1>4. HeldInv' /\ IdleHandsInv'
    BY <1>0 DEF HeldInv, IdleHandsInv, Thread
<1>5. SlotsExact'
  <2>1. InHands("h264") = 0 /\ InHands("h264")' = 1
      BY <1>0 DEF InHands, Thread
  <2>2. \A u \in Thread \ {"h264"} : InHands(u)' = InHands(u) /\ InHands(u) \in {0, 1}
      BY <1>0 DEF InHands, Thread
  <2>3. Len(encoder) \in Nat
      BY DEF TypeOK
  <2> QED
      BY <1>0, <1>1, <2>1, <2>2, <2>3 DEF SlotsExact, Thread
<1>6. ParkedIsSeen'
    BY <1>0 DEF ParkedIsSeen, Thread
<1> QED
    BY <1>0, <1>1, <1>3, <1>4, <1>5, <1>6

LEMMA OutputStep == ASSUME PumpInv, NEW emitted \in BOOLEAN, Output(emitted) PROVE PumpInv'
<1> USE DEF PumpInv
<1>0. /\ at["vt"] = "idle"
      /\ encoder # <<>>
      /\ encoder' = Tail(encoder)
      /\ shown' = IF emitted THEN Head(encoder).id ELSE shown
      /\ at' = [at EXCEPT !["vt"] = "completing"]
      /\ UNCHANGED <<offered, pending, inFlight, held, h264Queue, forceAsked,
                     forceGiven>>
      /\ at \in [Thread -> Place]
      /\ encoder \in Seq(Frame)
    BY DEF Output, TypeOK
<1>1. /\ encoder' \in Seq(Frame)
      /\ Head(encoder) \in Frame
      /\ Len(encoder) \in Nat
      /\ Len(encoder') = Len(encoder) - 1
    BY <1>0
<1>2. shown' \in Nat
    BY <1>0, <1>1 DEF TypeOK, Frame
<1>3. TypeOK'
    BY <1>0, <1>1, <1>2 DEF TypeOK, Place, Thread
<1>4. HeldInv' /\ IdleHandsInv'
    BY <1>0 DEF HeldInv, IdleHandsInv, Thread
<1>5. SlotsExact'
  <2>1. InHands("vt") = 0 /\ InHands("vt")' = 1
      BY <1>0 DEF InHands, Thread
  <2>2. \A u \in Thread \ {"vt"} : InHands(u)' = InHands(u) /\ InHands(u) \in {0, 1}
      BY <1>0 DEF InHands, Thread
  <2>3. Len(h264Queue) \in Nat
      BY DEF TypeOK
  <2> QED
      BY <1>0, <1>1, <2>1, <2>2, <2>3 DEF SlotsExact, Thread
<1>6. ParkedIsSeen'
    BY <1>0 DEF ParkedIsSeen, Thread
<1>7. ForceSurvives'
    BY <1>0 DEF ForceSurvives, ForcedIn
<1> QED
    BY <1>0, <1>3, <1>4, <1>5, <1>6, <1>7

LEMMA PumpInvariant == Spec => []PumpInv
<1>1. Init => PumpInv
    BY InitPump
<1>2. PumpInv /\ [Next]_vars => PumpInv'
  <2> SUFFICES ASSUME PumpInv, [Next]_vars PROVE PumpInv'
      OBVIOUS
  <2>1. CASE Next
      BY <2>1, OfferStep, ClaimStep, EndDrainStep, SubmitStep, CompleteStep,
         EncodeStep, EncodeFailsStep, OutputStep DEF Next, Pump
  <2>2. CASE UNCHANGED vars
      BY <2>2 DEF vars, PumpInv, TypeOK, HeldInv, IdleHandsInv, SlotsExact,
                  InHands, ParkedIsSeen, ForceSurvives, ForcedIn
  <2> QED
      BY <2>1, <2>2
<1> QED
    BY <1>1, <1>2, PTL DEF Spec

\* Every variable keeps its type.
THEOREM PumpTypes == Spec => []TypeOK
BY PumpInvariant, PTL DEF PumpInv

\* inFlight counts exactly the frames between claim and completion, and never
\* exceeds the depth.  (H264Pump.drain, complete)
THEOREM SlotsAreExact == Spec => []SlotsExact
BY PumpInvariant, PTL DEF PumpInv

\* No interleaving of offer and complete strands the parked frame beside a
\* free slot.  (H264Pump.offer, drain, complete)
THEOREM ParkedFrameIsSeen == Spec => []ParkedIsSeen
BY PumpInvariant, PTL DEF PumpInv

\* A forced keyframe request survives supersession, claims and queueing.
\* (H264Pump.offer)
THEOREM ForceIsKept == Spec => []ForceSurvives
BY PumpInvariant, PTL DEF PumpInv
=============================================================================
