----------------------------- MODULE MacDriver ------------------------------
(***************************************************************************)
(* platform/macos/DeNoiseAudioDriver.cpp: what coreaudiod sees of the      *)
(* plug-in, from the factory to the end of the process.  One thread of the *)
(* host explores the objects the plug-in publishes by asking for           *)
(* properties; another starts and stops the IO for its clients, which      *)
(* creates and joins the worker thread.                                    *)
(*                                                                         *)
(* Nothing pushes into captureRing_ (DeNoiseAudioDriver.h:85-95), so the   *)
(* worker's pop() always returns 0, the rest of its loop is not reached,   *)
(* and DoIOOperation fills its buffer with silence.  StartIO and StopIO    *)
(* come from one thread at a time, and name the device: for another object *)
(* id they return kAudioHardwareBadObjectError and change nothing.         *)
(***************************************************************************)
EXTENDS Integers, FiniteSets

CONSTANTS Objects,      \* the object ids the host may ask for
          Selectors,    \* the property selectors it may ask for
          BufferSizes,  \* the sizes of the buffers it may offer
          PlugIn, Device, StreamInput, Unknown,
          Clients,      \* the clients the host starts and stops the IO for
          MaxRefs,      \* bound on the references the host takes
          MaxFacts      \* bound on the answers the host keeps

ASSUME DriverAssumption ==
  /\ {PlugIn, Device, StreamInput} \subseteq Objects
  /\ PlugIn # Device /\ PlugIn # StreamInput /\ Device # StreamInput
  /\ Unknown \notin {PlugIn, Device, StreamInput}
  /\ BufferSizes \subseteq Nat
  /\ MaxRefs \in Nat /\ MaxFacts \in Nat

VARIABLES plugIn,       \* the bundle: "unloaded", "loaded", "exiting" or "gone"
          refCount,     \* gInstance.refCount
          running,      \* running_
          joinable,     \* worker_.joinable()
          worker,       \* the worker thread: where it is in workerLoop()
          control,      \* the thread in StartIO or StopIO: where it is
          failed,       \* whether the StartIO that set running_ left no worker
          clients,      \* the clients StartIO was called for, and StopIO not since
          terminated,   \* whether std::terminate was called
          query,        \* the property the exploring thread asks for, and what it was told
          learned       \* what Owner, OwnedObjects and Streams named, as the host read them

bundleVars == <<plugIn, refCount>>
ioVars == <<running, joinable, worker, control, failed, clients, terminated>>
hostVars == <<query, learned>>
vars == <<bundleVars, ioVars, hostVars>>

NoQuery == [pc |-> "idle"]

Init ==
  /\ plugIn = "unloaded"
  /\ refCount = 1
  /\ running = FALSE
  /\ joinable = FALSE
  /\ worker = "none"
  /\ control = "idle"
  /\ failed = FALSE
  /\ clients = {}
  /\ terminated = FALSE
  /\ query = NoQuery
  /\ learned = {}
-----------------------------------------------------------------------------
(* DeNoiseAudioDriverFactory, once: the vtable is filled, and the host has the *)
(* reference that refCount starts with.                                        *)
Factory ==
  /\ plugIn = "unloaded"
  /\ plugIn' = "loaded"
  /\ UNCHANGED <<refCount, ioVars, hostVars>>

(* The host calls through the interface while it has a reference to it. *)
Usable == plugIn = "loaded" /\ refCount > 0

(* QueryInterface for a known UUID, and AddRef. *)
AddRef ==
  /\ Usable
  /\ refCount < MaxRefs
  /\ refCount' = refCount + 1
  /\ UNCHANGED <<plugIn, ioVars, hostVars>>

(* The instance is static: nothing is freed at 0. *)
Release ==
  /\ Usable
  /\ refCount' = refCount - 1
  /\ UNCHANGED <<plugIn, ioVars, hostVars>>
-----------------------------------------------------------------------------
(***************************************************************************)
(* The properties.  A value is the objects it names; all others are the    *)
(* same to the host.                                                       *)
(***************************************************************************)
objectExists(object) == object \in {PlugIn, Device, StreamInput}

CommonSelectors ==
  {"BaseClass", "Class", "Owner", "Name", "Manufacturer", "OwnedObjects"}

(* Fault: a property of the device that GetPropertyData does not have. *)
HasPropertyTransport(object, selector) ==
  /\ objectExists(object)
  /\ \/ selector \in CommonSelectors
     \/ object = Device
          /\ selector \in {"DeviceUID", "Streams", "NominalSampleRate", "IsHidden", "TransportType"}
     \/ object = StreamInput
          /\ selector \in {"Direction", "VirtualFormat", "PhysicalFormat"}

HasProperty(object, selector) ==
  /\ objectExists(object)
  /\ \/ selector \in CommonSelectors
     \/ object = Device
          /\ selector \in {"DeviceUID", "Streams", "NominalSampleRate", "IsHidden"}
     \/ object = StreamInput
          /\ selector \in {"Direction", "VirtualFormat", "PhysicalFormat"}

(* Fault: the device's class id in the place of its object id. *)
OwnerByClass(object) ==
  CASE object = PlugIn -> Unknown
    [] object = Device -> PlugIn
    [] OTHER -> "AudioDevice"

Owner(object) ==
  CASE object = PlugIn -> Unknown
    [] object = Device -> PlugIn
    [] OTHER -> Device

(* Fault: the stream is listed under the plug-in. *)
OwnedObjectsFlat(object) ==
  CASE object = PlugIn -> {Device, StreamInput}
    [] object = Device -> {StreamInput}
    [] OTHER -> {}

OwnedObjects(object) ==
  CASE object = PlugIn -> {Device}
    [] object = Device -> {StreamInput}
    [] OTHER -> {}

(* Sizes of an AudioObjectID and other 32-bit values, of a CFStringRef or a    *)
(* Float64, and of an AudioStreamBasicDescription.                             *)
Word == 4
Double == 8
Format == 40
Scratch == 256

Error(status) == [status |-> status, size |-> 0, objects |-> {}]

(* The lambda put(): *outDataSize is set on success only. *)
Put(bufferSize, size, objects) ==
  IF bufferSize < size THEN Error("bad size")
  ELSE [status |-> "ok", size |-> size, objects |-> objects]

GetPropertyData(object, selector, bufferSize) ==
  LET put(size, objects) == Put(bufferSize, size, objects)
  IN  IF ~objectExists(object) THEN Error("bad object")
      ELSE CASE selector \in {"BaseClass", "Class"} -> put(Word, {})
             [] selector = "Owner" -> put(Word, {Owner(object)})
             [] selector \in {"Name", "Manufacturer"} -> put(Double, {})
             [] selector = "OwnedObjects" ->
                  put(IF OwnedObjects(object) = {} THEN 0 ELSE Word, OwnedObjects(object))
             [] object = Device /\ selector = "Streams" -> put(Word, {StreamInput})
             [] object = Device /\ selector \in {"DeviceUID", "NominalSampleRate"} ->
                  put(Double, {})
             [] object = Device /\ selector = "IsHidden" -> put(Word, {})
             [] object = StreamInput /\ selector = "Direction" -> put(Word, {})
             [] object = StreamInput /\ selector \in {"VirtualFormat", "PhysicalFormat"} ->
                  put(Format, {})
             [] OTHER -> Error("unknown property")

GetPropertyDataSize(object, selector) == GetPropertyData(object, selector, Scratch)

IsPropertySettable(object) ==
  [status |-> IF objectExists(object) THEN "ok" ELSE "bad object", value |-> FALSE]

SetPropertyData == "unsupported"
-----------------------------------------------------------------------------
(***************************************************************************)
(* The exploring thread: does the object have the property, can it be set, *)
(* how large is it, and what is it.  The host may ask about ids that do    *)
(* not exist, and offer a buffer of any size.                              *)
(***************************************************************************)
AskHasProperty(object, selector) ==
  /\ Usable
  /\ query.pc = "idle"
  /\ query' = [pc |-> "has", object |-> object, selector |-> selector,
               has |-> HasProperty(object, selector)]
  /\ UNCHANGED <<bundleVars, ioVars, learned>>

AskSettable ==
  /\ Usable
  /\ query.pc = "has"
  /\ query' = [pc |-> "settable", object |-> query.object, selector |-> query.selector,
               has |-> query.has, settable |-> IsPropertySettable(query.object),
               set |-> SetPropertyData]
  /\ UNCHANGED <<bundleVars, ioVars, learned>>

AskSize ==
  /\ Usable
  /\ query.pc = "settable"
  /\ query' = [pc |-> "size", object |-> query.object, selector |-> query.selector,
               has |-> query.has, settable |-> query.settable, set |-> query.set,
               told |-> GetPropertyDataSize(query.object, query.selector)]
  /\ UNCHANGED <<bundleVars, ioVars, learned>>

(* The answers that name objects are kept to be pieced together. *)
Fact(answer) ==
  IF /\ answer.status = "ok"
     /\ query.selector \in {"Owner", "OwnedObjects", "Streams"}
     /\ Cardinality(learned) < MaxFacts
  THEN {[selector |-> query.selector, object |-> query.object, objects |-> answer.objects]}
  ELSE {}

AskData(bufferSize) ==
  /\ Usable
  /\ query.pc = "size"
  /\ LET answer == GetPropertyData(query.object, query.selector, bufferSize)
     IN  /\ query' = [pc |-> "data", object |-> query.object, selector |-> query.selector,
                      has |-> query.has, settable |-> query.settable, set |-> query.set,
                      told |-> query.told, buffer |-> bufferSize, answer |-> answer]
         /\ learned' = learned \union Fact(answer)
  /\ UNCHANGED <<bundleVars, ioVars>>

NextQuery ==
  /\ query.pc = "data"
  /\ query' = NoQuery
  /\ UNCHANGED <<bundleVars, ioVars, learned>>
-----------------------------------------------------------------------------
(***************************************************************************)
(* StartIO and StopIO of a client: the driver looks at the device only and *)
(* keeps no count, so the first client to stop ends the worker of all.     *)
(***************************************************************************)
(* running_.exchange(true) finds false. *)
StartIO(c) ==
  /\ Usable
  /\ control = "idle"
  /\ ~running
  /\ running' = TRUE
  /\ control' = "create"
  /\ clients' = clients \union {c}
  /\ UNCHANGED <<bundleVars, joinable, worker, failed, terminated, hostVars>>

(* It finds true: somebody has started the worker. *)
StartIOAgain(c) ==
  /\ Usable
  /\ control = "idle"
  /\ running
  /\ clients' = clients \union {c}
  /\ UNCHANGED <<bundleVars, running, joinable, worker, control, failed, terminated, hostVars>>

(* worker_ = std::thread(...) terminates the process if worker_ is joinable. *)
CreateWorker ==
  /\ control = "create"
  /\ IF joinable
     THEN terminated' = TRUE /\ UNCHANGED <<joinable, worker>>
     ELSE joinable' = TRUE /\ worker' = "check" /\ UNCHANGED terminated
  /\ control' = "idle"
  /\ UNCHANGED <<bundleVars, running, failed, clients, hostVars>>

(* The thread cannot be created: std::thread throws out of StartIO, and where  *)
(* the host outlives that, running_ is set with no worker until a StopIO.      *)
CreateFails ==
  /\ control = "create"
  /\ failed' = TRUE
  /\ control' = "idle"
  /\ UNCHANGED <<bundleVars, running, joinable, worker, clients, terminated, hostVars>>

(* Fault: the worker ends by itself, nobody joins it. *)
StopIOWithoutJoin(c) ==
  /\ Usable
  /\ control = "idle"
  /\ running
  /\ running' = FALSE
  /\ failed' = FALSE
  /\ clients' = clients \ {c}
  /\ UNCHANGED <<bundleVars, joinable, worker, control, terminated, hostVars>>

(* running_.exchange(false) finds true. *)
StopIO(c) ==
  /\ Usable
  /\ control = "idle"
  /\ running
  /\ running' = FALSE
  /\ failed' = FALSE
  /\ control' = "join"
  /\ clients' = clients \ {c}
  /\ UNCHANGED <<bundleVars, joinable, worker, terminated, hostVars>>

(* It finds false: somebody has stopped the worker. *)
StopIOAgain(c) ==
  /\ Usable
  /\ control = "idle"
  /\ ~running
  /\ clients' = clients \ {c}
  /\ UNCHANGED <<bundleVars, running, joinable, worker, control, failed, terminated, hostVars>>

(* join() returns when the worker has ended; without a worker there is no join. *)
JoinWorker ==
  /\ control = "join"
  /\ joinable => worker = "done"
  /\ joinable' = FALSE
  /\ worker' = "none"
  /\ control' = "idle"
  /\ UNCHANGED <<bundleVars, running, failed, clients, terminated, hostVars>>

(* Fault: running_ is looked at only when there was something to do. *)
CheckRunningOnce ==
  /\ worker = "check"
  /\ worker' = "pop"
  /\ UNCHANGED <<bundleVars, running, joinable, control, failed, clients, terminated, hostVars>>

CheckRunning ==
  /\ worker = "check"
  /\ worker' = IF running THEN "pop" ELSE "done"
  /\ UNCHANGED <<bundleVars, running, joinable, control, failed, clients, terminated, hostVars>>

(* captureRing_.pop() finds nothing: sleep, and look again. *)
PopNothing ==
  /\ worker = "pop"
  /\ worker' = "check"
  /\ UNCHANGED <<bundleVars, running, joinable, control, failed, clients, terminated, hostVars>>

(* The process exits: the static Driver is destroyed, with stopIO() first and  *)
(* then the members, of which worker_ must not be joinable.                    *)
DestroyDriver ==
  /\ plugIn = "loaded"
  /\ control = "idle"
  /\ plugIn' = "exiting"
  /\ running' = FALSE
  /\ failed' = FALSE
  /\ control' = IF running THEN "join" ELSE "idle"
  /\ UNCHANGED <<refCount, joinable, worker, clients, terminated, hostVars>>

DestroyMembers ==
  /\ plugIn = "exiting"
  /\ control = "idle"
  /\ plugIn' = "gone"
  /\ terminated' = joinable
  /\ UNCHANGED <<refCount, running, joinable, worker, control, failed, clients, hostVars>>

Worker == CheckRunning \/ PopNothing

Bundle == Factory \/ AddRef \/ Release

Explore ==
  \/ \E object \in Objects, selector \in Selectors : AskHasProperty(object, selector)
  \/ AskSettable
  \/ AskSize
  \/ \E bufferSize \in BufferSizes : AskData(bufferSize)
  \/ NextQuery

Lifecycle ==
  \/ \E c \in Clients : StartIO(c)
  \/ \E c \in Clients : StartIOAgain(c)
  \/ CreateWorker
  \/ CreateFails
  \/ \E c \in Clients : StopIO(c)
  \/ \E c \in Clients : StopIOAgain(c)
  \/ JoinWorker
  \/ DestroyDriver
  \/ DestroyMembers
  \/ Worker

Next == Bundle \/ Explore \/ Lifecycle

(* The worker never blocks, and join() returns once the thread has ended. *)
Spec == Init /\ [][Next]_vars /\ WF_vars(Worker) /\ WF_vars(JoinWorker)
-----------------------------------------------------------------------------
TypeOK ==
  /\ plugIn \in {"unloaded", "loaded", "exiting", "gone"}
  /\ refCount \in Nat
  /\ running \in BOOLEAN /\ joinable \in BOOLEAN
  /\ failed \in BOOLEAN /\ terminated \in BOOLEAN
  /\ worker \in {"none", "check", "pop", "done"}
  /\ control \in {"idle", "create", "join"}
  /\ clients \subseteq Clients
  /\ query.pc \in {"idle", "has", "settable", "size", "data"}
  /\ query.pc # "idle" => query.object \in Objects /\ query.selector \in Selectors
  /\ learned \subseteq
       [selector : Selectors, object : Objects, objects : SUBSET (Objects \union {Unknown})]

(* HasProperty, IsPropertySettable, GetPropertyDataSize and GetPropertyData are   *)
(* tables that must stay one (DeNoiseAudioDriver.cpp:113-279): a property an      *)
(* object claims to have can be measured, a buffer as large as measured is always *)
(* enough and filled to that size, and one it does not claim is never answered;   *)
(* all calls agree on which objects there are, and what is said to be settable    *)
(* can be set.                                                                    *)
AnswersAgree ==
  query.pc = "data" =>
    /\ query.has <=> query.told.status = "ok"
    /\ query.answer.status = "ok" <=> query.has /\ query.buffer >= query.told.size
    /\ query.answer.status = "ok" => query.answer.size = query.told.size
    /\ query.settable.status = "bad object" <=> query.told.status = "bad object"
    /\ query.settable.value <=> query.set = "ok"

(* What the host has pieced together from several answers is a tree: an object    *)
(* has exactly the owner that lists it, the streams of a device are among what it *)
(* owns, and every object heard of can be asked (DeNoiseAudioDriver.cpp:198-235). *)
ObjectsFormTree ==
  /\ \A a \in learned : \A object \in a.objects : object = Unknown \/ objectExists(object)
  /\ \A a \in learned, b \in learned :
       /\ a.selector = "Owner" /\ b.selector = "OwnedObjects" =>
            (a.objects = {b.object} <=> a.object \in b.objects)
       /\ a.selector = "Streams" /\ b.selector = "OwnedObjects" /\ a.object = b.object =>
            a.objects \subseteq b.objects

(* However the clients' StartIO and StopIO follow each other, between the calls   *)
(* there is a worker exactly when the IO runs, unless the thread could not be     *)
(* created, and IO and worker are gone once no client needs them: none is left    *)
(* over that a second one could meet at the rings, a failed start included, and   *)
(* no std::thread is assigned to or destroyed while it is joinable                *)
(* (DeNoiseAudioDriver.cpp:344 and 358-368).                                      *)
OneWorkerWhileRunning ==
  /\ ~terminated
  /\ control = "idle" =>
       /\ worker # "none" <=> running /\ ~failed
       /\ worker # "none" <=> joinable
       /\ clients = {} \/ plugIn # "loaded" => ~running

(* StopIO and the destructor return: the worker comes round to look at running_.  *)
StopIOReturns == control = "join" ~> control = "idle"
=============================================================================
