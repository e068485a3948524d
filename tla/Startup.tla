------------------------------ MODULE Startup ------------------------------
(***************************************************************************)
(* main.cpp around the encoder: COM, Winsock, Media Foundation, adb, the   *)
(* capture, the encoder and the sender are started one after the other,    *)
(* each start may fail, and whatever was started is ended again: objects   *)
(* by their destructors when `goto cleanup` or the end leaves their scope, *)
(* the rest by the calls at the label.  The encoder's own start            *)
(* (Encoder::Initialize) looks for a transform, hardware first; one that   *)
(* was chosen and cannot be configured is replaced by a software one.      *)
(*                                                                         *)
(* The module extends Encoder: its frames, its work queue and its Shutdown *)
(* are those of that module, begun and ended from here.  The sender's      *)
(* thread is seen only where it calls the encoder (ForceKeyFrame).         *)
(***************************************************************************)
EXTENDS Encoder, SequencesExt

CONSTANT MaxMfts        \* bound: transforms found by one enumeration

ASSUME StartupAssumption == MaxMfts \in Nat

VARIABLES
    stage,      \* where main is
    up,         \* what has been started and not ended, oldest first
    exit,       \* exitCode
    todo,       \* when leaving: what is still to be ended, in the order of the code
    left,       \* transforms of the current enumeration not yet looked at
    isHardware, \* isHardware_
    mft,        \* what holds of transform_ itself
    asking,     \* is the sender's thread inside ForceKeyFrame?
    wrong       \* * was something ended that was not the last one started?

encoder  == vars
life     == <<up, exit, todo, wrong>>
choice   == <<left, isHardware, mft>>
mainVars == <<stage, life, choice, asking>>
allVars  == <<encoder, mainVars>>

\* A transform nobody has set up.
NoMft == [async |-> FALSE, unlocked |-> FALSE, manager |-> FALSE, typed |-> FALSE,
          events |-> FALSE]

StartupInit ==
    /\ stage = "args" /\ up = <<>> /\ exit = 0 /\ todo = <<>>
    /\ left = 0 /\ isHardware = FALSE /\ mft = NoMft
    /\ asking = FALSE /\ wrong = FALSE
    /\ pc = "idle" /\ sample = <<>> /\ submitted = 0
    /\ pending = <<>> /\ needInput = 0 /\ drops = 0 /\ times = {}
    /\ running = FALSE /\ callback = FALSE /\ transform = FALSE
    /\ at = [w \in Workers |-> "idle"] /\ au = [w \in Workers |-> <<>>] /\ holder = <<>>
    /\ isAsync = FALSE /\ inside = <<>> /\ ready = <<>> /\ settled = FALSE
    /\ events = <<>> /\ armed = FALSE
    /\ delivered = 0 /\ lastOut = 0 /\ lost = 0 /\ empty = FALSE
    /\ broken = FALSE /\ outlasted = FALSE

-----------------------------------------------------------------------------
(* The starts.                                                             *)

\* From here main only ends what `calls` names, and returns.
Leave(calls, code) == stage' = "leave" /\ todo' = calls /\ exit' = code

\* `goto cleanup` and the label: the destructors of the objects in scope, then
\* MFShutdown, WSACleanup, CoUninitialize.
Cleanup(objects, code) == Leave(objects \o <<"mf", "wsa", "com">>, code)

Started(x, next) ==
    /\ up' = Append(up, x) /\ stage' = next
    /\ UNCHANGED <<exit, todo>>

\* ParseArgs and CoInitializeEx.
StartCom ==
    /\ stage = "args"
    /\ \/ Leave(<<>>, 1) /\ UNCHANGED up
       \/ Started("com", "wsa")
    /\ UNCHANGED <<encoder, choice, asking, wrong>>

\* --list: the outputs are printed, and that is all.
ListOnly ==
    /\ stage = "wsa" /\ Leave(<<"com">>, 0)
    /\ UNCHANGED <<encoder, choice, asking, up, wrong>>

\* Mutant: after a failure of MFStartup, Winsock is forgotten.
StartSubsystemsForgets ==
    /\ \/ stage = "wsa" /\ Started("wsa", "mf")
       \/ stage = "wsa" /\ Leave(<<"com">>, 1) /\ UNCHANGED up
       \/ stage = "mf" /\ Started("mf", "adb")
       \/ stage = "mf" /\ Leave(<<"com">>, 1) /\ UNCHANGED up
    /\ UNCHANGED <<encoder, choice, asking, wrong>>

\* WSAStartup and MFStartup end by hand what came before them.
StartSubsystems ==
    /\ \/ stage = "wsa" /\ Started("wsa", "mf")
       \/ stage = "wsa" /\ Leave(<<"com">>, 1) /\ UNCHANGED up
       \/ stage = "mf" /\ Started("mf", "adb")
       \/ stage = "mf" /\ Leave(<<"wsa", "com">>, 1) /\ UNCHANGED up
    /\ UNCHANGED <<encoder, choice, asking, wrong>>

\* adb forward, unless --skip-adb; no object exists yet.
SetupAdbForward ==
    /\ stage = "adb"
    /\ \/ stage' = "capture" /\ UNCHANGED <<exit, todo>>
       \/ Cleanup(<<>>, 1)
    /\ UNCHANGED <<encoder, choice, asking, up, wrong>>

\* DesktopCapture is constructed and initialised: output, device, duplication,
\* video processor and NV12 pool must succeed, the cursor pipeline need not.
InitCapture ==
    /\ stage = "capture"
    /\ Started("capture", "captured")
    /\ UNCHANGED <<encoder, choice, asking, wrong>>

CaptureInitialized ==
    /\ stage = "captured"
    /\ \/ /\ stage' = "hardware" /\ up' = Append(up, "encoder")
          /\ left' \in 0 .. MaxMfts
          /\ UNCHANGED <<exit, todo>>
       \/ Cleanup(<<"capture">>, 1) /\ UNCHANGED <<up, left>>
    /\ UNCHANGED <<encoder, isHardware, mft, asking, wrong>>

-----------------------------------------------------------------------------
(* Encoder::Initialize.                                                    *)

Fails == Cleanup(<<"encoder", "capture">>, 1) /\ UNCHANGED <<up, wrong>>

Going == UNCHANGED <<life, asking>>

\* The rest of Encoder's state does not change while it is being initialised.
Quiet == UNCHANGED <<main, slot, times, callback, invoke, frames, settled, events,
                     delivered, lastOut, empty, outlasted, lost>>

\* The device manager cannot be made or given the device.
NoDeviceManager ==
    /\ stage = "hardware" /\ Fails
    /\ UNCHANGED <<encoder, choice, asking>>

\* A candidate is passed over: it cannot be activated, is asynchronous and
\* will not be unlocked, or is hardware and does without our device.
SkipTransform ==
    /\ stage \in {"hardware", "software"} /\ left > 0 /\ left' = left - 1
    /\ UNCHANGED <<encoder, stage, life, isHardware, mft, asking>>

\* The candidate is taken: unlocked if asynchronous, with the device manager
\* set if it is hardware.
TakeTransform ==
    /\ stage \in {"hardware", "software"} /\ left > 0
    /\ \E async \in BOOLEAN :
          /\ isAsync' = async
          /\ mft' = [NoMft EXCEPT !.async = async, !.unlocked = async,
                                  !.manager = (stage = "hardware")]
    /\ transform' = TRUE /\ isHardware' = (stage = "hardware")
    /\ left' = 0 /\ stage' = "types"
    /\ Going /\ Quiet /\ UNCHANGED <<running, armed, broken>>

\* No hardware transform is left, so software is enumerated; or none at all.
NoneLeft ==
    /\ left = 0
    /\ \/ /\ stage = "hardware" /\ stage' = "software" /\ left' \in 0 .. MaxMfts
          /\ Going
       \/ stage = "software" /\ Fails /\ UNCHANGED <<left, asking>>
    /\ UNCHANGED <<encoder, isHardware, mft>>

\* ConfigureTypes accepts one of the two profiles and the input type; then
\* the object counts as running.
TypesAccepted ==
    /\ stage \in {"types", "retypes"} /\ stage' = "events"
    /\ mft' = [mft EXCEPT !.typed = TRUE] /\ running' = TRUE
    /\ Going /\ Quiet /\ UNCHANGED <<transform, left, isHardware, isAsync, armed, broken>>

TypesRefused ==
    /\ \/ /\ stage = "types" /\ isHardware
          /\ stage' = "fallback" /\ transform' = FALSE /\ mft' = NoMft
          /\ isHardware' = FALSE
          /\ Going
       \/ /\ (stage = "types" /\ ~isHardware) \/ stage = "retypes"
          /\ Fails /\ UNCHANGED <<transform, mft, isHardware, asking>>
    /\ Quiet /\ UNCHANGED <<running, left, isAsync, armed, broken>>

\* Mutant: isAsync_ keeps the value of the hardware transform.
FallBackAsBefore ==
    /\ stage = "fallback"
    /\ \/ stage' = "retypes" /\ transform' = TRUE /\ Going
       \/ Fails /\ UNCHANGED <<transform, asking>>
    /\ Quiet /\ UNCHANGED <<running, left, isAsync, mft, isHardware, armed, broken>>

\* Lines 387-422: the first synchronous software transform, or none.
FallBack ==
    /\ stage = "fallback"
    /\ \/ /\ stage' = "retypes" /\ transform' = TRUE /\ isAsync' = FALSE
          /\ Going
       \/ Fails /\ UNCHANGED <<transform, isAsync, asking>>
    /\ Quiet /\ UNCHANGED <<running, left, mft, isHardware, armed, broken>>

\* An asynchronous transform must have an event generator; streaming begins
\* and the first event is asked for (nobody looks at the result).  A failure
\* leaves running_ set.
BeginStreaming ==
    /\ stage = "events"
    /\ \/ /\ stage' = "sender"
          /\ \/ armed' = isAsync /\ UNCHANGED broken
             \/ isAsync /\ armed' = FALSE /\ broken' = TRUE
          /\ mft' = [mft EXCEPT !.events = isAsync]
          /\ Going
       \/ isAsync /\ Fails /\ UNCHANGED <<armed, broken, mft, asking>>
    /\ Quiet /\ UNCHANGED <<running, transform, left, isHardware, isAsync>>

Initialize ==
    \/ NoDeviceManager \/ SkipTransform \/ TakeTransform \/ NoneLeft \/ TypesAccepted
    \/ TypesRefused \/ FallBack \/ BeginStreaming

-----------------------------------------------------------------------------
(* The loop and its end.                                                   *)

\* SetFrameCallback and Sender::Start.
StartSender ==
    /\ stage = "sender" /\ Started("sender", "loop") /\ callback' = TRUE
    /\ UNCHANGED <<main, slot, times, running, transform, invoke, isAsync, frames,
                   settled, queue, history, lost, choice, asking, wrong>>

\* Ctrl-C or --duration; Capture has the loop itself.
EndLoop ==
    /\ stage = "loop" /\ pc = "idle" /\ stage' = "stop"
    /\ UNCHANGED <<encoder, life, choice, asking>>

\* Mutant: the sender's thread is not waited for.
StopSenderUnjoined ==
    /\ stage = "stop" /\ stage' = "shutdown"
    /\ UNCHANGED <<encoder, life, choice, asking>>

\* Sender::Stop returns when its thread has ended.
StopSender ==
    /\ stage = "stop" /\ ~asking /\ stage' = "shutdown"
    /\ UNCHANGED <<encoder, life, choice, asking>>

\* encoder.Shutdown has returned; the scope ends.
ShutdownReturns ==
    /\ stage = "shutdown" /\ ~running /\ pc = "down"
    /\ Cleanup(<<"sender", "encoder", "capture">>, 0)
    /\ UNCHANGED <<encoder, choice, asking, up, wrong>>

\* The sender's thread calls ForceKeyFrame after each handshake, and returns.
\* The one call it may begin while Stop waits for it is taken to have begun
\* just before.
AskForKeyFrame ==
    /\ stage = "loop" /\ ~asking /\ asking' = TRUE
    /\ UNCHANGED <<encoder, stage, life, choice>>

KeyFrameAsked ==
    /\ asking /\ asking' = FALSE
    /\ UNCHANGED <<encoder, stage, life, choice>>

-----------------------------------------------------------------------------
(* Leaving.                                                                *)

\* What is ended next.
Victim == Head(todo)

\* The next call or destructor.  The encoder's destructor calls Shutdown: if
\* it runs, all of it, otherwise the transform is let go.
End ==
    /\ stage = "leave" /\ todo # <<>>
    /\ Victim = "encoder" => pc \in {"idle", "down"} /\ ~running
    /\ todo' = Tail(todo)
    /\ wrong' = (wrong \/ up = <<>> \/ Last(up) # Victim)
    /\ up' = Front(up)
    /\ transform' = (transform /\ Victim # "encoder")
    /\ UNCHANGED <<main, slot, times, running, callback, invoke, isAsync, frames, settled,
                   queue, history, lost, stage, exit, choice, asking>>

Return ==
    /\ stage = "leave" /\ todo = <<>> /\ stage' = "exit"
    /\ UNCHANGED <<encoder, life, choice, asking>>

-----------------------------------------------------------------------------
(* Encoder's steps, when there is one.                                     *)

\* Where main may be inside SubmitFrame or Shutdown.
Submits == stage = "loop" /\ Submit

ShutsDown ==
    /\ \/ stage = "shutdown"
       \/ stage = "leave" /\ todo # <<>> /\ Victim = "encoder"
    /\ Shutdown

\* Streaming has begun and the encoder is not yet gone.
Transforms == "encoder" \in Range(up) /\ mft.events /\ Transform

Encodes ==
    /\ Submits \/ ShutsDown \/ Transforms \/ \E w \in Workers : WorkQueue(w)
    /\ UNCHANGED mainVars

Main ==
    \/ StartCom \/ ListOnly \/ StartSubsystems \/ SetupAdbForward \/ InitCapture
    \/ CaptureInitialized \/ Initialize \/ StartSender \/ EndLoop \/ StopSender
    \/ ShutdownReturns \/ End \/ Return

StartupNext == Main \/ AskForKeyFrame \/ KeyFrameAsked \/ Encodes

StartupSpec == StartupInit /\ [][StartupNext]_allVars

Only(A) == A /\ UNCHANGED mainVars

\* As in Encoder; main goes on unless it is in the loop, and a call of
\* ForceKeyFrame returns.
StartupFairSpec ==
    /\ StartupSpec
    /\ WF_allVars(Main /\ stage # "loop")
    /\ WF_allVars(KeyFrameAsked)
    /\ WF_allVars(Only(SubmitAsync \/ SubmitSync)) /\ WF_allVars(Only(ShutsDown))
    /\ WF_allVars(Only(Transforms /\ AskForInput)) /\ WF_allVars(Only(Transforms /\ Encode))
    /\ WF_allVars(Only(\E w \in Workers : Invoke(w)))
    /\ \A w \in Workers : WF_allVars(Only(at[w] # "idle" /\ WorkQueue(w)))

-----------------------------------------------------------------------------
(* Properties.                                                             *)

\* Whichever start fails, what was started is ended, each once, the newest
\* first (main.cpp:269-459), and the program does not return before.
Unwound ==
    /\ ~wrong
    /\ stage = "exit" => up = <<>> /\ ~transform /\ ~running

\* Nobody calls what has ended: no Invoke the destroyed sender, no ForceKeyFrame
\* an encoder without transform (main.cpp:432-433 and the order of the
\* declarations), no transform outlives Media Foundation, and an Invoke runs
\* without transform or encoder only if it outlasted Shutdown's Sleep(50).
Alive ==
    /\ \A w \in Workers :
          at[w] # "idle" => outlasted \/ (transform /\ "encoder" \in Range(up))
    /\ \A w \in Workers : at[w] = "call" /\ callback => "sender" \in Range(up)
    /\ asking => transform
    /\ transform => "mf" \in Range(up)

\* However the transform was found, refused or replaced, the one that streams
\* has been set up for what it is (encoder.cpp:158-183, 387-444).
Usable ==
    "sender" \in Range(up) /\ transform =>
        /\ mft.typed
        /\ isHardware <=> mft.manager
        /\ isAsync <=> mft.async
        /\ mft.async => mft.unlocked /\ mft.events
=============================================================================
