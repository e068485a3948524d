---------------------------- MODULE CaptureProofs ----------------------------
(***************************************************************************)
(* What module Capture promises, for every frame time, poll and duration.  *)
(***************************************************************************)
EXTENDS Capture, TLAPS

\* No frame is out without a duplication; once there is a lastBgra_ there is a
\* picture in it; lead bounds from below when the last three frames were due,
\* as far as they were due less than T ago.
Reset   == ~dupl => ~out
Known   == bgra <= screen /\ (fit # "none" => haveFrame)
Cadence == /\ age[1] < T => lead >= -T - age[1]
           /\ age[2] < T => lead >= -age[2]
           /\ age[3] < T => lead >= T - age[3]

IInv == TypeOK /\ FrameReturned /\ RealPicture /\ Reset /\ Known /\ Cadence

USE CaptureAssumption

\* The start of the loop meets the invariant.
LEMMA InitIInv == Init => IInv
<1> SUFFICES ASSUME Init PROVE IInv
    OBVIOUS
<1>1. TypeOK
    <2>1. age \in [1 .. 3 -> 0 .. T] /\ lead \in -2 * T - 1 .. T
        BY DEF Init
    <2>2. nap \in 0 .. Poll /\ left \in Nat \cup {None}
        BY DEF Init
    <2>3. bgra \in 0 .. MaxScreen /\ screen \in 1 .. MaxScreen /\ shown \in 0 .. MaxScreen
        BY DEF Init
    <2>4. /\ running \in BOOLEAN /\ dupl \in BOOLEAN /\ frameHeld \in BOOLEAN
          /\ haveFrame \in BOOLEAN /\ newImage \in BOOLEAN /\ newPointer \in BOOLEAN
          /\ out \in BOOLEAN /\ missed \in BOOLEAN
        BY DEF Init
    <2>6. fit = "none"
        BY DEF Init
    <2>5. pc = "pump"
        BY DEF Init
    <2> QED
        BY <2>1, <2>2, <2>3, <2>4, <2>5, <2>6 DEF TypeOK
<1>2. FrameReturned /\ Reset
    BY DEF Init, FrameReturned, Reset
<1>3. RealPicture /\ Known
    BY DEF Init, RealPicture, Known
<1>4. Cadence
    BY DEF Init, Cadence
<1> QED
    BY <1>1, <1>2, <1>3, <1>4 DEF IInv

\* The next frame is due T from now at most, and T ago at the earliest
\* (main.cpp:383-384).
LEMMA NextDueRange ==
    ASSUME NEW l \in Int, l <= 0
    PROVE  /\ NextDue(l) \in -T .. T
           /\ NextDue(l) >= l + T
BY DEF NextDue

\* What a step leaves of the invariant: the ranges.
LEMMA NextType == IInv /\ [Next]_vars => TypeOK'
<1> SUFFICES ASSUME IInv, [Next]_vars PROVE TypeOK'
    OBVIOUS
<1>0. TypeOK
    BY DEF IInv
<1> USE <1>0 DEF TypeOK, clock, capture, desktop, Goto
<1>1. CASE UNCHANGED vars
    BY <1>1 DEF vars
<1>2. CASE EndLoop
    BY <1>2 DEF EndLoop
<1>3. CASE CreateDuplication \/ CreateFails
    BY <1>3 DEF CreateDuplication, CreateFails, Pumping
<1>4. CASE AcquireTimeout \/ AcquireFails
    BY <1>4 DEF AcquireTimeout, AcquireFails
<1>5. CASE AcquirePointer \/ CopyFails \/ CopyIntoOldSize
    BY <1>5 DEF AcquirePointer, CopyFails, CopyIntoOldSize, HandedOut
<1>6. CASE AcquireImage
    <2>1. bgra' \in 0 .. MaxScreen
        BY <1>6 DEF AcquireImage
    <2> QED
        BY <1>6, <2>1 DEF AcquireImage, HandedOut
<1>7. CASE Pace
    <2>1. nap' \in 0 .. Poll
        BY <1>7 DEF Pace, Nap, Least
    <2>2. pc' \in {"sleep", "due"}
        BY <1>7 DEF Pace
    <2> QED
        BY <1>7, <2>1, <2>2 DEF Pace
<1>8. CASE Wake
    BY <1>8 DEF Wake
<1>9. CASE Due
    <2>1. lead' \in -2 * T - 1 .. T
        BY <1>9, NextDueRange DEF Due
    <2>2. age' \in [1 .. 3 -> 0 .. T]
        BY <1>9 DEF Due
    <2>3. pc' \in {"convert", "pump"}
        BY <1>9 DEF Due
    <2> QED
        BY <1>9, <2>1, <2>2, <2>3 DEF Due
<1>10. CASE Convert \/ ConvertFails
    BY <1>10 DEF Convert, ConvertFails
<1>11. CASE Check
    BY <1>11 DEF Check
<1>12. CASE ScreenChanges
    <2>1. screen' \in 1 .. MaxScreen
        BY <1>12 DEF ScreenChanges
    <2>2. fit' \in {"none", "same", "other"}
        BY <1>12 DEF ScreenChanges
    <2> QED
        BY <1>12, <2>1, <2>2 DEF ScreenChanges
<1>13. CASE PointerMoves \/ Interrupt
    <2>1. CASE PointerMoves
        BY <2>1 DEF PointerMoves
    <2>2. CASE Interrupt
        BY <2>2, ZenonT(40) DEF Interrupt
    <2> QED
        BY <1>13, <2>1, <2>2
<1>14. CASE Tick
    <2>1. lead' \in -2 * T - 1 .. T
        BY <1>14 DEF Tick
    <2>2. nap' \in 0 .. Poll
        BY <1>14 DEF Tick
    <2>3. left' \in Nat \cup {None}
        BY <1>14 DEF Tick
    <2>4. age' \in [1 .. 3 -> 0 .. T]
        BY <1>14 DEF Tick, Least
    <2> QED
        BY <1>14, <2>1, <2>2, <2>3, <2>4 DEF Tick
<1> QED
    BY <1>1, <1>2, <1>3, <1>4, <1>5, <1>6, <1>7, <1>8, <1>9, <1>10, <1>11, <1>12,
       <1>13, <1>14
    DEF Next, Loop, PumpFrame, World

\* Only the steps of PumpFrame change whose the frame is.
LEMMA NextFrame == IInv /\ [Next]_vars => FrameReturned' /\ Reset'
<1> SUFFICES ASSUME IInv, [Next]_vars PROVE FrameReturned' /\ Reset'
    OBVIOUS
<1>0. FrameReturned /\ Reset /\ frameHeld \in BOOLEAN /\ out \in BOOLEAN
    BY DEF IInv, TypeOK
<1> USE <1>0 DEF FrameReturned, Reset
<1>1. CASE UNCHANGED <<capture, out>>
    BY <1>1 DEF capture
<1>2. CASE CreateDuplication
    BY <1>2 DEF CreateDuplication
<1>3. CASE AcquireTimeout
    BY <1>3 DEF AcquireTimeout, Acquiring
<1>4. CASE AcquireFails
    BY <1>4 DEF AcquireFails
<1>5. CASE AcquirePointer \/ AcquireImage \/ CopyFails \/ CopyIntoOldSize
    <2>1. HandedOut /\ frameHeld' = TRUE
        BY <1>5 DEF AcquirePointer, AcquireImage, CopyFails, CopyIntoOldSize
    <2>2. out' = TRUE /\ dupl /\ dupl' = dupl
        BY <2>1 DEF HandedOut, Acquiring
    <2> QED
        BY <2>1, <2>2
<1>6. CASE EndLoop \/ CreateFails \/ Pace \/ Wake \/ Due \/ Convert \/ ConvertFails
           \/ Check \/ World
    BY <1>1, <1>6
    DEF EndLoop, CreateFails, Pace, Wake, Due, Convert, ConvertFails, Check, World,
        ScreenChanges, PointerMoves, Tick, Interrupt
<1>7. CASE UNCHANGED vars
    BY <1>1, <1>7 DEF vars
<1> QED
    BY <1>2, <1>3, <1>4, <1>5, <1>6, <1>7 DEF Next, Loop, PumpFrame

\* A frame taken over is the newest; what was submitted is no newer.
LEMMA NextPicture == IInv /\ [Next]_vars => RealPicture' /\ Known'
<1> SUFFICES ASSUME IInv, [Next]_vars PROVE RealPicture' /\ Known'
    OBVIOUS
<1>0. RealPicture /\ Known /\ TypeOK
    BY DEF IInv
<1>1. /\ haveFrame => bgra \in 1 .. screen
      /\ shown <= bgra /\ bgra <= screen
      /\ bgra \in Nat /\ screen \in Nat \ {0} /\ shown \in Nat
      /\ fit # "none" => haveFrame
    BY <1>0 DEF RealPicture, Known, TypeOK
<1>2. pc = "convert" => haveFrame
    BY <1>0 DEF RealPicture
<1>3. SUFFICES /\ haveFrame' => bgra' \in 1 .. screen'
               /\ shown' <= bgra' /\ bgra' <= screen' /\ (fit' # "none" => haveFrame')
               /\ pc' = "convert" => haveFrame'
    BY DEF RealPicture, Known
<1>4. CASE UNCHANGED <<bgra, fit, haveFrame, screen, shown>> /\ pc' \in {pc, "pace", "sleep",
                                                "due", "pump", "check", "stopped"}
    BY <1>1, <1>2, <1>4
<1>5. CASE EndLoop \/ CreateDuplication \/ CreateFails \/ AcquireTimeout
           \/ AcquireFails \/ Pace \/ Wake \/ ConvertFails \/ Check
    BY <1>4, <1>5
    DEF EndLoop, CreateDuplication, CreateFails, AcquireTimeout, AcquireFails, Pace,
        Wake, ConvertFails, Check, clock, capture, desktop, Goto
<1>6. CASE AcquirePointer \/ CopyFails
    BY <1>4, <1>6 DEF AcquirePointer, CopyFails, HandedOut, Goto
<1>13. CASE CopyIntoOldSize
    <2>1. fit # "none" /\ haveFrame' = TRUE /\ pc' = "pace"
          /\ UNCHANGED <<bgra, fit, screen, shown>>
        BY <1>13 DEF CopyIntoOldSize, HandedOut, Goto
    <2> QED
        BY <1>1, <2>1
<1>7. CASE AcquireImage
    <2>1. /\ bgra' = screen /\ screen' = screen /\ shown' = shown /\ pc' = "pace"
          /\ haveFrame' = TRUE
        BY <1>7 DEF AcquireImage, HandedOut, Goto
    <2> QED
        BY <1>1, <2>1
<1>8. CASE Due
    <2>1. UNCHANGED <<bgra, fit, haveFrame, screen, shown>>
        BY <1>8 DEF Due, capture, desktop
    <2>2. pc' = "convert" => haveFrame
        BY <1>8 DEF Due, Goto
    <2> QED
        BY <1>1, <2>1, <2>2
<1>9. CASE Convert
    <2>1. /\ shown' = bgra /\ pc' = "check"
          /\ UNCHANGED <<bgra, fit, haveFrame, screen>>
        BY <1>9 DEF Convert, capture, desktop, Goto
    <2> QED
        BY <1>1, <2>1
<1>10. CASE ScreenChanges
    <2>1. /\ screen' = screen + 1 /\ pc' = pc
          /\ UNCHANGED <<bgra, haveFrame, shown>>
          /\ fit' # "none" => fit # "none"
        BY <1>10 DEF ScreenChanges, capture
    <2> QED
        BY <1>1, <1>2, <2>1
<1>11. CASE PointerMoves \/ Tick \/ Interrupt
    BY <1>4, <1>11 DEF PointerMoves, Tick, Interrupt, capture, desktop
<1>12. CASE UNCHANGED vars
    BY <1>4, <1>12 DEF vars, capture, desktop
<1> QED
    BY <1>5, <1>6, <1>7, <1>8, <1>9, <1>10, <1>11, <1>12, <1>13
    DEF Next, Loop, PumpFrame, World

\* Only a frame that is due and the clock touch the cadence.
LEMMA NextCadence == IInv /\ [Next]_vars => Cadence'
<1> SUFFICES ASSUME IInv, [Next]_vars PROVE Cadence'
    OBVIOUS
<1>1. /\ lead \in Int /\ lead >= -2 * T - 1 /\ T \in Nat \ {0}
      /\ age \in [1 .. 3 -> 0 .. T]
    BY DEF IInv, TypeOK
<1>2. Cadence
    BY DEF IInv
<1>3. CASE UNCHANGED <<lead, age>>
    BY <1>2, <1>3 DEF Cadence
<1>4. CASE Due
    <2>1. CASE haveFrame /\ lead <= 0
        <3>1. /\ lead' = NextDue(lead)
              /\ age' = [i \in 1 .. 3 |-> IF i = 1 THEN 0 ELSE age[i - 1]]
            BY <1>4, <2>1 DEF Due
        <3>2. age'[1] = 0 /\ age'[2] = age[1] /\ age'[3] = age[2]
            BY <3>1
        <3>3. lead' \in -T .. T /\ (lead' = T \/ lead' = lead + T)
            BY <1>1, <2>1, <3>1 DEF NextDue
        <3>4. age[1] \in 0 .. T /\ age[2] \in 0 .. T
            BY <1>1
        <3> QED
            BY <1>1, <1>2, <3>2, <3>3, <3>4 DEF Cadence
    <2>2. CASE ~(haveFrame /\ lead <= 0)
        BY <1>3, <1>4, <2>2 DEF Due
    <2> QED
        BY <2>1, <2>2
<1>5. CASE Tick
    <2>1. /\ lead' = IF lead < -2 * T THEN lead ELSE lead - 1
          /\ age' = [i \in 1 .. 3 |-> Least(age[i] + 1, T)]
        BY <1>5 DEF Tick
    <2>2. \A i \in 1 .. 3 : age[i] \in 0 .. T /\ age'[i] = Least(age[i] + 1, T)
        BY <1>1, <2>1
    <2>3. \A i \in 1 .. 3 : age'[i] < T => age'[i] = age[i] + 1 /\ age[i] < T
        BY <1>1, <2>2 DEF Least
    <2>4. lead' >= lead - 1 /\ lead' \in Int
        BY <1>1, <2>1
    <2> QED
        BY <1>1, <1>2, <2>2, <2>3, <2>4 DEF Cadence
<1>6. CASE EndLoop \/ CreateDuplication \/ CreateFails \/ AcquireTimeout
           \/ AcquireFails \/ Pace \/ Wake \/ Convert \/ ConvertFails \/ Check
    BY <1>3, <1>6
    DEF EndLoop, CreateDuplication, CreateFails, AcquireTimeout, AcquireFails, Pace,
        Wake, Convert, ConvertFails, Check, clock
<1>7. CASE AcquirePointer \/ AcquireImage \/ CopyFails \/ CopyIntoOldSize
    BY <1>3, <1>7
    DEF AcquirePointer, AcquireImage, CopyFails, CopyIntoOldSize, HandedOut, clock
<1>8. CASE ScreenChanges \/ PointerMoves \/ Interrupt \/ UNCHANGED vars
    BY <1>3, <1>8 DEF ScreenChanges, PointerMoves, Interrupt, vars, clock
<1> QED
    BY <1>4, <1>5, <1>6, <1>7, <1>8 DEF Next, Loop, PumpFrame, World

\* The invariant is inductive.
LEMMA NextIInv == IInv /\ [Next]_vars => IInv'
BY NextType, NextFrame, NextPicture, NextCadence DEF IInv

\* It holds in every reachable state.
THEOREM Invariance == Spec => []IInv
BY InitIInv, NextIInv, PTL DEF Spec

\* Every variable keeps its range.
THEOREM TypeCorrect == Spec => []TypeOK
<1>1. IInv => TypeOK
    BY DEF IInv
<1> QED
    BY Invariance, <1>1, PTL

\* AcquireNextFrame is never refused (capture.cpp:343-346).
THEOREM NeverRefused == Spec => []FrameReturned
<1>1. IInv => FrameReturned
    BY DEF IInv
<1> QED
    BY Invariance, <1>1, PTL

\* The encoder never gets an empty surface (capture.cpp:365-367).
THEOREM NoEmptySurface == Spec => []RealPicture
<1>1. IInv => RealPicture
    BY DEF IInv
<1> QED
    BY Invariance, <1>1, PTL

\* After a stall of any length the loop does not burst (main.cpp:381-384).
THEOREM Paced == Spec => NoBurst
<1>1. IInv /\ [Next]_vars => [pc = "due" /\ pc' = "convert" => age[3] = T]_vars
    <2> SUFFICES ASSUME IInv, [Next]_vars, pc = "due", pc' = "convert"
                 PROVE  age[3] = T
        OBVIOUS
    <2>1. lead <= 0
        BY DEF Next, Loop, PumpFrame, World, EndLoop, CreateDuplication, CreateFails,
               AcquireTimeout, AcquireFails, AcquirePointer, AcquireImage, CopyFails,
               CopyIntoOldSize, HandedOut, Pumping, Acquiring, Pace, Wake, Due, Convert,
               ConvertFails,
               Check, ScreenChanges, PointerMoves, Tick, Interrupt, Goto, vars
    <2>2. age[3] \in 0 .. T /\ lead \in Int /\ T \in Nat
        BY DEF IInv, TypeOK
    <2>3. age[3] < T => lead >= T - age[3]
        BY DEF IInv, Cadence
    <2> QED
        BY <2>1, <2>2, <2>3
<1> QED
    BY Invariance, <1>1, PTL DEF Spec, NoBurst
=============================================================================
