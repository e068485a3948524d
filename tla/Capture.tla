------------------------------ MODULE Capture ------------------------------
(***************************************************************************)
(* The sender's main loop (main.cpp:354-429) and the desktop duplication   *)
(* it polls (DesktopCapture::PumpFrame, ConvertLatestToNv12): one thread,  *)
(* with the desktop, the clock and the console around it.                  *)
(*                                                                         *)
(* Times are kept as differences to now, in ticks: lead is nextFrameQpc -  *)
(* now, nap what is left of a sleep, left what is left of --duration, age  *)
(* how long ago the last frames were due.  Each stops at the value beyond  *)
(* which the code no longer tells values apart.  Tick may come any number  *)
(* of times between two steps: every call may take arbitrarily long.       *)
(*                                                                         *)
(* A picture is the number of the desktop's version it shows; 0 is the     *)
(* empty surface DXGI hands out with a pointer-only update.  Logging, the  *)
(* statistics (freshSinceSubmit, resent, FlushInterval), the cursor's      *)
(* decoding and drawing and the choice of the NV12 texture are left out.   *)
(***************************************************************************)
EXTENDS Integers

CONSTANTS T,            \* frameTicks
          Poll,         \* pollTicks (line 363)
          None,         \* there is no --duration
          Durations,    \* the values of --duration in ticks, or None
          MaxScreen     \* bound: versions of the desktop

ASSUME CaptureAssumption ==
    /\ T \in Nat \ {0} /\ Poll \in Nat \ {0}
    /\ None \notin Nat /\ Durations \subseteq Nat \cup {None}
    /\ MaxScreen \in Nat \ {0}

\* Marked *: history, read by properties only.
VARIABLES
    pc,         \* where the loop is
    running,    \* g_running
    \* the clock
    lead,       \* nextFrameQpc - now
    nap,        \* ticks left of SleepUntilQpc
    left,       \* ticks left of the duration, or None
    age,        \* * age[i]: ticks since the i-th last frame was due, up to T
    \* DesktopCapture
    dupl,       \* is dupl_ set?
    frameHeld,  \* frameHeld_
    bgra,       \* the picture in lastBgra_
    fit,        \* is the size lastBgra_ was made with the desktop's: "same",
                \* "other", or "none" if it has not been made
    haveFrame,  \* haveFrame_
    \* DXGI and the desktop
    screen,     \* the desktop's version
    newImage,   \* has it changed since the last frame handed out?
    newPointer, \* has the pointer?
    out,        \* is a frame handed out and not released?
    \* what became of it
    shown,      \* * the picture last submitted to the encoder
    missed      \* * was the last frame handed out not copied?

clock   == <<lead, nap, left, age>>
capture == <<dupl, frameHeld, bgra, fit, haveFrame>>
desktop == <<screen, newImage, newPointer>>
vars    == <<pc, running, clock, capture, desktop, out, shown, missed>>

Init ==
    /\ pc = "pump" /\ running = TRUE
    /\ lead = 0 /\ nap = 0 /\ left \in Durations /\ age = [i \in 1 .. 3 |-> T]
    /\ dupl = TRUE /\ frameHeld = FALSE /\ bgra = 0 /\ fit = "none" /\ haveFrame = FALSE
    /\ screen = 1 /\ newImage \in BOOLEAN /\ newPointer \in BOOLEAN /\ out = FALSE
    /\ shown = 0 /\ missed = FALSE

-----------------------------------------------------------------------------
(* PumpFrame.                                                              *)

Goto(l) == pc' = l

\* Line 354, the loop's condition.
EndLoop ==
    /\ pc = "pump" /\ ~running /\ Goto("stopped")
    /\ UNCHANGED <<running, clock, capture, desktop, out, shown, missed>>

Pumping == pc = "pump" /\ running

\* CreateDuplication (lines 336-337): it hands out the whole desktop if that
\* has changed since the last frame, and may do so anyway.
CreateDuplication ==
    /\ Pumping /\ ~dupl
    /\ dupl' = TRUE /\ frameHeld' = FALSE
    /\ newImage' \in {newImage, TRUE}
    /\ UNCHANGED <<pc, running, clock, bgra, fit, haveFrame, screen, newPointer,
                   out, shown, missed>>

\* Mutant: a failure is retried at once, whatever g_running says.
CreateAgain ==
    /\ (pc = "pump" /\ running) \/ pc = "create"
    /\ ~dupl
    /\ Goto("create")
    /\ UNCHANGED <<running, clock, capture, desktop, out, shown, missed>>

\* Lines 337-339; main goes on without a frame.
CreateFails ==
    /\ Pumping /\ ~dupl /\ Goto("pace")
    /\ UNCHANGED <<running, clock, capture, desktop, out, shown, missed>>

\* Lines 343-346 make AcquireNextFrame possible; DXGI refuses it while a
\* frame is handed out.
Acquiring == Pumping /\ dupl
Possible  == out => frameHeld

\* Line 352.
AcquireTimeout ==
    /\ Acquiring /\ Possible /\ ~newImage /\ ~newPointer
    /\ Goto("pace")
    /\ frameHeld' = FALSE /\ out' = FALSE
    /\ UNCHANGED <<running, clock, dupl, bgra, fit, haveFrame, desktop, shown, missed>>

\* Lines 353-362 and ReleaseDuplication: access lost (another desktop, a mode
\* change) or another failure.
AcquireFails ==
    /\ Acquiring /\ Goto("pace")
    /\ dupl' = FALSE /\ frameHeld' = FALSE /\ out' = FALSE
    /\ UNCHANGED <<running, clock, bgra, fit, haveFrame, desktop, shown, missed>>

HandedOut ==
    /\ Acquiring /\ Possible /\ Goto("pace")
    /\ out' = TRUE
    /\ newImage' = FALSE /\ newPointer' = FALSE
    /\ UNCHANGED <<running, clock, dupl, screen, shown>>

\* Mutant: frameHeld_ is set for frames with an image only.
PointerNotHeld ==
    /\ newPointer /\ ~newImage /\ HandedOut
    /\ frameHeld' = FALSE
    /\ UNCHANGED <<bgra, fit, haveFrame, missed>>

\* Mutant: the surface of a pointer-only update is copied, too.
PointerCopied ==
    /\ newPointer /\ ~newImage /\ HandedOut
    /\ frameHeld' = TRUE /\ bgra' = 0 /\ haveFrame' = TRUE
    /\ UNCHANGED <<fit, missed>>

\* Mutant: an update with a new pointer is taken for a pointer-only one.
PointerFirst ==
    /\ newPointer /\ HandedOut
    /\ frameHeld' = TRUE
    /\ UNCHANGED <<bgra, fit, haveFrame, missed>>

\* Lines 363-381, a pointer-only update.
AcquirePointer ==
    /\ newPointer /\ ~newImage /\ HandedOut
    /\ frameHeld' = TRUE
    /\ UNCHANGED <<bgra, fit, haveFrame, missed>>

\* Lines 363-407, a new image; lastBgra_ is made with the first one.
AcquireImage ==
    /\ newImage /\ HandedOut
    /\ fit # "other" /\ fit' = "same"
    /\ frameHeld' = TRUE /\ bgra' = screen /\ haveFrame' = TRUE
    /\ missed' = FALSE

\* The same lines after a mode change: lastBgra_ is not made anew (389), and
\* CopyResource (404) copies nothing into a texture of another size.
CopyIntoOldSize ==
    /\ newImage /\ HandedOut
    /\ fit = "other"
    /\ frameHeld' = TRUE /\ haveFrame' = TRUE
    /\ UNCHANGED <<bgra, fit, missed>>

\* Lines 384 and 396-399: the image cannot be copied; DXGI will not repeat it.
CopyFails ==
    /\ newImage /\ HandedOut
    /\ frameHeld' = TRUE
    /\ missed' = TRUE
    /\ UNCHANGED <<bgra, fit, haveFrame>>

PumpFrame ==
    \/ CreateDuplication \/ CreateFails \/ AcquireTimeout \/ AcquireFails
    \/ AcquirePointer \/ AcquireImage \/ CopyIntoOldSize \/ CopyFails

-----------------------------------------------------------------------------
(* The rest of the loop.                                                   *)

Least(a, b) == IF a <= b THEN a ELSE b

\* Lines 363-366: how long to sleep when the frame is due in l ticks.
Nap(l) == Least(l, Poll)

\* Lines 359-369; without a frame there is no sleep.
Pace ==
    /\ pc = "pace"
    /\ IF haveFrame /\ lead > 0 THEN Goto("sleep") /\ nap' = Nap(lead)
       ELSE Goto("due") /\ UNCHANGED nap
    /\ UNCHANGED <<running, lead, left, age, capture, desktop, out, shown, missed>>

Wake ==
    /\ pc = "sleep" /\ nap = 0 /\ Goto("due")
    /\ UNCHANGED <<running, clock, capture, desktop, out, shown, missed>>

\* Mutant: after a stall the loop catches up on every frame it missed.
NextDueAlways(l) == l + T

\* Lines 383-384: the next frame's time, seen from a frame due l ticks ago.
NextDue(l) == IF l + T < -T THEN T ELSE l + T

\* Mutant: a picture that was submitted is not submitted again.
DueIfChanged ==
    /\ pc = "due"
    /\ IF haveFrame /\ lead <= 0 /\ shown # bgra
       THEN /\ Goto("convert")
            /\ lead' = NextDue(lead)
            /\ age' = [i \in 1 .. 3 |-> IF i = 1 THEN 0 ELSE age[i - 1]]
       ELSE Goto("pump") /\ UNCHANGED <<lead, age>>
    /\ UNCHANGED <<running, nap, left, capture, desktop, out, shown, missed>>

\* Lines 371-390.
Due ==
    /\ pc = "due"
    /\ IF haveFrame /\ lead <= 0
       THEN /\ Goto("convert")
            /\ lead' = NextDue(lead)
            /\ age' = [i \in 1 .. 3 |-> IF i = 1 THEN 0 ELSE age[i - 1]]
       ELSE Goto("pump") /\ UNCHANGED <<lead, age>>
    /\ UNCHANGED <<running, nap, left, capture, desktop, out, shown, missed>>

\* Lines 393-401: the latest picture is converted and submitted.
Convert ==
    /\ pc = "convert" /\ Goto("check")
    /\ shown' = bgra
    /\ UNCHANGED <<running, clock, capture, desktop, out, missed>>

\* ConvertLatestToNv12 returns nullptr (a view, the cursor's or the blt).
ConvertFails ==
    /\ pc = "convert" /\ Goto("check")
    /\ UNCHANGED <<running, clock, capture, desktop, out, shown, missed>>

\* Lines 424-428.
Check ==
    /\ pc = "check"
    /\ Goto(IF left = 0 THEN "stopped" ELSE "pump")
    /\ UNCHANGED <<running, clock, capture, desktop, out, shown, missed>>

Loop == EndLoop \/ PumpFrame \/ Pace \/ Wake \/ Due \/ Convert \/ ConvertFails \/ Check

-----------------------------------------------------------------------------
(* The desktop, the clock, the console.                                    *)

\* In the same mode or with a change of it.
ScreenChanges ==
    /\ screen < MaxScreen /\ screen' = screen + 1
    /\ fit' \in (IF fit = "none" THEN {"none"} ELSE {"same", "other"})
    /\ newImage' = TRUE
    /\ UNCHANGED <<pc, running, clock, dupl, frameHeld, bgra, haveFrame, newPointer,
                   out, shown, missed>>

PointerMoves ==
    /\ newPointer' = TRUE
    /\ UNCHANGED <<pc, running, clock, capture, screen, newImage, out, shown, missed>>

\* A frame that is due 2 T late, and an age of T, are as late as can be.
Tick ==
    /\ lead' = IF lead < -2 * T THEN lead ELSE lead - 1
    /\ nap' = IF nap = 0 THEN 0 ELSE nap - 1
    /\ left' = IF left \in {0, None} THEN left ELSE left - 1
    /\ age' = [i \in 1 .. 3 |-> Least(age[i] + 1, T)]
    /\ UNCHANGED <<pc, running, capture, desktop, out, shown, missed>>

\* Ctrl-C (ConsoleHandler).
Interrupt ==
    /\ running /\ running' = FALSE
    /\ UNCHANGED <<pc, clock, capture, desktop, out, shown, missed>>

World == ScreenChanges \/ PointerMoves \/ Tick \/ Interrupt

-----------------------------------------------------------------------------
Next == Loop \/ World

Spec == Init /\ [][Next]_vars

\* The loop runs and time passes; failures of DXGI are not for ever.
FairSpec ==
    /\ Spec
    /\ WF_vars(Loop) /\ WF_vars(Tick)
    /\ SF_vars(CreateDuplication) /\ SF_vars(AcquireImage) /\ SF_vars(Convert)

-----------------------------------------------------------------------------
(* Properties.                                                             *)

\* Every variable keeps its range; a sleep is never longer than a poll.
TypeOK ==
    /\ pc \in {"pump", "pace", "sleep", "due", "convert", "check", "stopped"}
    /\ running \in BOOLEAN
    /\ lead \in -2 * T - 1 .. T /\ nap \in 0 .. Poll
    /\ left \in Nat \cup {None} /\ age \in [1 .. 3 -> 0 .. T]
    /\ dupl \in BOOLEAN /\ frameHeld \in BOOLEAN /\ haveFrame \in BOOLEAN
    /\ bgra \in 0 .. MaxScreen /\ screen \in 1 .. MaxScreen
    /\ fit \in {"none", "same", "other"}
    /\ newImage \in BOOLEAN /\ newPointer \in BOOLEAN /\ out \in BOOLEAN
    /\ shown \in 0 .. MaxScreen /\ missed \in BOOLEAN

\* DXGI's idea of whether a frame is out is the program's, over access lost,
\* failures and early returns: AcquireNextFrame is never refused.
FrameReturned == out = frameHeld

\* What is submitted is a picture of the desktop, and not an old one: never
\* the empty surface, never an image before the last one copied
\* (capture.cpp:365-367).
RealPicture ==
    /\ haveFrame => bgra \in 1 .. screen
    /\ shown <= bgra
    /\ pc = "convert" => haveFrame

\* After a stall the loop does not burst (main.cpp:381-382): of any four
\* frames in a row the last is due a frame time or more after the first.
NoBurst == [][pc = "due" /\ pc' = "convert" => age[3] = T]_vars

\* Every change of the desktop is submitted, also one that fell into a loss
\* of the duplication, unless taking DXGI's one image of it failed, or the
\* desktop's size is no longer that of lastBgra_: then nothing new is shown
\* until the size is again what it was (capture.cpp:389, 404).
EventuallyShown ==
    \A v \in 2 .. MaxScreen :
        screen = v ~> \/ shown >= v \/ missed \/ pc = "stopped"
                      \/ fit = "other"

\* While nothing changes the last picture is submitted again and again.
StaticStillSent == <>[](haveFrame /\ pc # "stopped") => []<>(pc = "convert")

\* Ctrl-C ends the loop wherever it is; so does the duration (main.cpp:424),
\* once there has been a picture: before, line 377 goes round it.
LoopEnds == ~running \/ (left = 0 /\ haveFrame) ~> pc = "stopped"
=============================================================================
