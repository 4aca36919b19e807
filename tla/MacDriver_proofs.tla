-------------------------- MODULE MacDriver_proofs --------------------------
(***************************************************************************)
(* The macOS driver: its property calls agree with each other, the objects *)
(* form a tree, there is one worker while the IO runs, and stopping it     *)
(* takes two steps, for any objects, selectors and sizes of buffers.       *)
(***************************************************************************)
EXTENDS MacDriver, TLAPS

(* What GetPropertyData answers, in two pieces: how large the property is and *)
(* which objects it names.                                                    *)
Size(object, selector) ==
  CASE selector = "OwnedObjects" -> IF OwnedObjects(object) = {} THEN 0 ELSE Word
    [] selector \in {"VirtualFormat", "PhysicalFormat"} -> Format
    [] selector \in {"Name", "Manufacturer", "DeviceUID", "NominalSampleRate"} -> Double
    [] OTHER -> Word

Named(object, selector) ==
  CASE selector = "Owner" -> {Owner(object)}
    [] selector = "OwnedObjects" -> OwnedObjects(object)
    [] selector = "Streams" -> {StreamInput}
    [] OTHER -> {}

LEMMA SizeFitsScratch ==
  ASSUME NEW object, NEW selector
  PROVE  Size(object, selector) \in Nat /\ Size(object, selector) =< Scratch
BY DEF Size, Word, Double, Format, Scratch

(* The two tables are one: GetPropertyData has exactly what HasProperty claims. *)
LEMMA OneTable ==
  ASSUME NEW object, NEW selector, NEW bufferSize
  PROVE  /\ HasProperty(object, selector) =>
              GetPropertyData(object, selector, bufferSize)
                = Put(bufferSize, Size(object, selector), Named(object, selector))
         /\ ~HasProperty(object, selector) =>
              GetPropertyData(object, selector, bufferSize)
                \in {Error("bad object"), Error("unknown property")}
<1> DEFINE get == GetPropertyData(object, selector, bufferSize)
           put(size, objects) == Put(bufferSize, size, objects)
<1>1. CASE ~objectExists(object)
  BY <1>1 DEF HasProperty, GetPropertyData
<1>2. CASE objectExists(object) /\ selector \in CommonSelectors
  <2>1. HasProperty(object, selector)
    BY <1>2 DEF HasProperty
  <2>2. CASE selector \in {"BaseClass", "Class"}
    BY <1>2, <2>1, <2>2 DEF GetPropertyData, Size, Named
  <2>3. CASE selector = "Owner"
    BY <1>2, <2>1, <2>3 DEF GetPropertyData, Size, Named
  <2>4. CASE selector \in {"Name", "Manufacturer"}
    BY <1>2, <2>1, <2>4 DEF GetPropertyData, Size, Named
  <2>5. CASE selector = "OwnedObjects"
    BY <1>2, <2>1, <2>5 DEF GetPropertyData, Size, Named
  <2> QED
    BY <1>2, <2>2, <2>3, <2>4, <2>5 DEF CommonSelectors
<1>3. CASE objectExists(object) /\ selector \notin CommonSelectors
  BY <1>3, DriverAssumption DEF HasProperty, GetPropertyData, Size, Named, CommonSelectors
<1> QED
  BY <1>1, <1>2, <1>3

LEMMA ErrorAnswer ==
  ASSUME NEW answer \in {Error("bad size"), Error("bad object"), Error("unknown property")}
  PROVE  answer.status # "ok" /\ answer.objects = {}
<1>1. ASSUME NEW status PROVE Error(status).status = status /\ Error(status).objects = {}
  BY DEF Error
<1>2. PICK status \in {"bad size", "bad object", "unknown property"} : answer = Error(status)
  OBVIOUS
<1>3. status # "ok"
  OBVIOUS
<1> QED
  BY <1>1, <1>2, <1>3, Zenon

(* put() succeeds in a buffer that is large enough, and only then. *)
LEMMA PutAnswer ==
  ASSUME NEW bufferSize \in Nat, NEW size \in Nat, NEW objects
  PROVE  /\ Put(bufferSize, size, objects).status = "ok" <=> bufferSize >= size
         /\ bufferSize >= size => /\ Put(bufferSize, size, objects).size = size
                                 /\ Put(bufferSize, size, objects).objects = objects
         /\ ~(bufferSize >= size) => Put(bufferSize, size, objects).objects = {}
<1>1. CASE bufferSize >= size
  <2>0. ~(bufferSize < size)
    BY <1>1
  <2>1. Put(bufferSize, size, objects) = [status |-> "ok", size |-> size, objects |-> objects]
    BY <2>0, Zenon DEF Put
  <2> QED
    BY <1>1, <2>1
<1>2. CASE ~(bufferSize >= size)
  <2>0. bufferSize < size
    BY <1>2
  <2>1. Put(bufferSize, size, objects) = Error("bad size")
    BY <2>0, Zenon DEF Put
  <2> QED
    BY <1>2, <2>1, ErrorAnswer
<1> QED
  BY <1>1, <1>2

(* What the three calls say of one property, for a buffer of any size. *)
LEMMA CallsAgree ==
  ASSUME NEW object, NEW selector, NEW bufferSize \in Nat
  PROVE  LET told == GetPropertyDataSize(object, selector)
             answer == GetPropertyData(object, selector, bufferSize)
         IN  /\ HasProperty(object, selector) <=> told.status = "ok"
             /\ answer.status = "ok" <=> HasProperty(object, selector) /\ bufferSize >= told.size
             /\ answer.status = "ok" => /\ answer.size = told.size
                                        /\ answer.objects = Named(object, selector)
             /\ answer.status # "ok" => answer.objects = {}
<1> DEFINE size == Size(object, selector)
           named == Named(object, selector)
           told == GetPropertyDataSize(object, selector)
           answer == GetPropertyData(object, selector, bufferSize)
<1>1. size \in Nat /\ size =< Scratch /\ Scratch \in Nat
  BY SizeFitsScratch DEF Scratch
<1>2. CASE HasProperty(object, selector)
  <2>1. told = Put(Scratch, size, named) /\ answer = Put(bufferSize, size, named)
    BY <1>2, OneTable DEF GetPropertyDataSize
  <2>2. told.status = "ok" /\ told.size = size
    <3> HIDE DEF size, named, told
    <3>1. Scratch >= size
      BY <1>1
    <3>2. Put(Scratch, size, named).status = "ok" /\ Put(Scratch, size, named).size = size
      BY <1>1, <3>1, PutAnswer
    <3> QED
      BY <2>1, <3>2
  <2>3. /\ answer.status = "ok" <=> bufferSize >= size
        /\ answer.status = "ok" => answer.size = size /\ answer.objects = named
        /\ answer.status # "ok" => answer.objects = {}
    BY <1>1, <2>1, PutAnswer
  <2> HIDE DEF size, told, answer
  <2> QED
    BY <1>2, <2>2, <2>3 DEF told, answer
<1>3. CASE ~HasProperty(object, selector)
  <2>1. /\ told \in {Error("bad object"), Error("unknown property")}
        /\ answer \in {Error("bad object"), Error("unknown property")}
    BY <1>3, OneTable DEF GetPropertyDataSize
  <2>2. told.status # "ok" /\ answer.status # "ok" /\ answer.objects = {}
    BY <2>1, ErrorAnswer
  <2> QED
    BY <1>3, <2>2 DEF told, answer
<1> QED
  BY <1>2, <1>3
-----------------------------------------------------------------------------
(* The exploring thread's variables are its own.                              *)
LEMMA OthersLeaveHostAlone == Bundle \/ Lifecycle => UNCHANGED hostVars
BY DEF Bundle, Factory, AddRef, Release, Lifecycle, StartIO, StartIOAgain, CreateWorker,
       CreateFails, StopIO, StopIOAgain, JoinWorker, DestroyDriver, DestroyMembers, Worker,
       CheckRunning, PopNothing, hostVars

(* What the exploring thread has been told so far is what the calls answer.   *)
QueryInv ==
  /\ query.pc \in {"idle", "has", "settable", "size", "data"}
  /\ query.pc # "idle" => query.has = HasProperty(query.object, query.selector)
  /\ query.pc \in {"settable", "size", "data"} =>
       query.settable = IsPropertySettable(query.object) /\ query.set = SetPropertyData
  /\ query.pc \in {"size", "data"} =>
       query.told = GetPropertyDataSize(query.object, query.selector)
  /\ query.pc = "data" =>
       /\ query.buffer \in Nat
       /\ query.answer = GetPropertyData(query.object, query.selector, query.buffer)

LEMMA InitQueryInv == Init => QueryInv
BY DEF Init, NoQuery, QueryInv

LEMMA StepQueryInv == QueryInv /\ [Next]_vars => QueryInv'
<1> SUFFICES ASSUME QueryInv, [Next]_vars PROVE QueryInv'
  OBVIOUS
<1>1. ASSUME NEW object \in Objects, NEW selector \in Selectors, AskHasProperty(object, selector)
      PROVE  QueryInv'
  BY <1>1, Zenon DEF AskHasProperty, QueryInv
<1>2. CASE AskSettable
  BY <1>2 DEF AskSettable, QueryInv
<1>6. CASE AskSize
  BY <1>6 DEF AskSize, QueryInv
<1>3. ASSUME NEW bufferSize \in BufferSizes, AskData(bufferSize)
      PROVE  QueryInv'
  BY <1>3, DriverAssumption DEF AskData, QueryInv
<1>4. CASE NextQuery
  BY <1>4 DEF NextQuery, NoQuery, QueryInv
<1>5. CASE UNCHANGED hostVars
  BY <1>5 DEF hostVars, QueryInv
<1> QED
  BY <1>1, <1>2, <1>3, <1>4, <1>5, <1>6, OthersLeaveHostAlone DEF Next, Explore, vars

(* What IsPropertySettable says is as true as what the other calls say.       *)
LEMMA SettableAgrees ==
  ASSUME NEW object, NEW selector
  PROVE  LET settable == IsPropertySettable(object)
             told == GetPropertyDataSize(object, selector)
         IN  /\ settable.status = "bad object" <=> told.status = "bad object"
             /\ settable.value <=> SetPropertyData = "ok"
<1> DEFINE settable == IsPropertySettable(object)
           told == GetPropertyDataSize(object, selector)
<1>1. CASE objectExists(object)
  <2>1. settable.status = "ok" /\ settable.value = FALSE
    BY <1>1 DEF IsPropertySettable
  <2>2. told.status # "bad object"
    <3>1. CASE HasProperty(object, selector)
      BY <3>1, CallsAgree DEF Scratch
    <3>2. CASE ~HasProperty(object, selector)
      BY <1>1, <3>2, OneTable DEF GetPropertyDataSize, GetPropertyData, Error, Put
    <3> QED
      BY <3>1, <3>2
  <2> QED
    BY <2>1, <2>2 DEF SetPropertyData
<1>2. CASE ~objectExists(object)
  <2>1. settable.status = "bad object" /\ settable.value = FALSE
    BY <1>2 DEF IsPropertySettable
  <2>2. told.status = "bad object"
    BY <1>2 DEF GetPropertyDataSize, GetPropertyData, Error
  <2> QED
    BY <2>1, <2>2 DEF SetPropertyData
<1> QED
  BY <1>1, <1>2

(* A property an object claims to have can be measured, a buffer as large as  *)
(* measured is always enough and filled to that size, one it does not claim   *)
(* is never answered, the calls know the same objects, and nothing is said to *)
(* be settable that is not (DeNoiseAudioDriver.cpp:113-279).                  *)
THEOREM OneAnswer == Spec => []AnswersAgree
<1>1. QueryInv => AnswersAgree
  <2> SUFFICES ASSUME QueryInv, query.pc = "data" PROVE AnswersAgree
    BY DEF AnswersAgree
  <2> DEFINE has == HasProperty(query.object, query.selector)
             told == GetPropertyDataSize(query.object, query.selector)
             settable == IsPropertySettable(query.object)
             answer == GetPropertyData(query.object, query.selector, query.buffer)
  <2>1. /\ query.buffer \in Nat
        /\ query.has = has /\ query.told = told /\ query.answer = answer
        /\ query.settable = settable /\ query.set = SetPropertyData
    BY DEF QueryInv
  <2>2. /\ has <=> told.status = "ok"
        /\ answer.status = "ok" <=> has /\ query.buffer >= told.size
        /\ answer.status = "ok" => answer.size = told.size
    BY <2>1, CallsAgree
  <2>3. /\ settable.status = "bad object" <=> told.status = "bad object"
        /\ settable.value <=> SetPropertyData = "ok"
    BY SettableAgrees
  <2> HIDE DEF has, told, settable, answer
  <2> QED
    BY <2>1, <2>2, <2>3, Zenon DEF AnswersAgree
<1> QED
  BY <1>1, InitQueryInv, StepQueryInv, PTL DEF Spec
-----------------------------------------------------------------------------
(* Every answer that was read is still what the call would answer.            *)
ObjectsInv ==
  /\ QueryInv
  /\ \A a \in learned : /\ HasProperty(a.object, a.selector)
                       /\ a.objects = Named(a.object, a.selector)

LEMMA NamedExist ==
  ASSUME NEW object, NEW selector, NEW other \in Named(object, selector)
  PROVE  other = Unknown \/ objectExists(other)
BY DEF Named, Owner, OwnedObjects, objectExists

LEMMA StepObjectsInv == ObjectsInv /\ [Next]_vars => ObjectsInv'
<1> SUFFICES ASSUME ObjectsInv, [Next]_vars PROVE ObjectsInv'
  OBVIOUS
<1>1. QueryInv'
  BY StepQueryInv DEF ObjectsInv
<1>2. ASSUME NEW bufferSize \in BufferSizes, AskData(bufferSize)
      PROVE  ObjectsInv'
  <2> DEFINE answer == GetPropertyData(query.object, query.selector, bufferSize)
             read == [selector |-> query.selector, object |-> query.object,
                      objects |-> answer.objects]
  <2>1. /\ answer.status = "ok" => /\ HasProperty(query.object, query.selector)
                                   /\ answer.objects = Named(query.object, query.selector)
        /\ answer.status # "ok" => answer.objects = {}
    BY DriverAssumption, CallsAgree
  <2>2. learned' = learned \/ (learned' = learned \union {read} /\ answer.status = "ok")
    BY <1>2 DEF AskData, Fact
  <2> HIDE DEF answer
  <2>4. ASSUME NEW a \in learned'
        PROVE  HasProperty(a.object, a.selector) /\ a.objects = Named(a.object, a.selector)
    <3>1. CASE a \in learned
      BY <3>1 DEF ObjectsInv
    <3>2. CASE a \notin learned
      <4>1. a = read /\ answer.status = "ok"
        BY <2>2, <3>2
      <4> QED
        BY <2>1, <4>1
    <3> QED
      BY <3>1, <3>2
  <2> QED
    BY <1>1, <2>4 DEF ObjectsInv
<1>3. CASE UNCHANGED learned
  BY <1>1, <1>3 DEF ObjectsInv
<1> QED
  BY <1>2, <1>3, OthersLeaveHostAlone
     DEF Next, Explore, vars, hostVars, AskHasProperty, AskSettable, AskSize, NextQuery

(* An object has exactly the owner that lists it, the streams of a device are *)
(* among what it owns, and every object heard of can be asked: the values are *)
(* hard-coded one by one (DeNoiseAudioDriver.cpp:198-235).                    *)
THEOREM ObjectTree == Spec => []ObjectsFormTree
<1>1. ObjectsInv => ObjectsFormTree
  <2> SUFFICES ASSUME ObjectsInv PROVE ObjectsFormTree
    OBVIOUS
  <2>1. ASSUME NEW a \in learned, NEW b \in learned,
               a.selector = "Owner", b.selector = "OwnedObjects"
        PROVE  a.objects = {b.object} <=> a.object \in b.objects
    <3>1. /\ a.objects = {Owner(a.object)} /\ b.objects = OwnedObjects(b.object)
          /\ objectExists(a.object) /\ objectExists(b.object)
      BY <2>1 DEF ObjectsInv, Named, HasProperty
    <3>2. Owner(a.object) = b.object <=> a.object \in OwnedObjects(b.object)
      BY <3>1, DriverAssumption DEF objectExists, Owner, OwnedObjects
    <3> QED
      BY <3>1, <3>2
  <2>2. ASSUME NEW a \in learned, NEW b \in learned,
               a.selector = "Streams", b.selector = "OwnedObjects", a.object = b.object
        PROVE  a.objects \subseteq b.objects
    <3>1. /\ a.objects = {StreamInput} /\ b.objects = OwnedObjects(b.object)
          /\ a.object = Device
      BY <2>2 DEF ObjectsInv, Named, HasProperty, CommonSelectors
    <3> QED
      BY <2>2, <3>1, DriverAssumption DEF OwnedObjects
  <2>3. ASSUME NEW a \in learned, NEW object \in a.objects
        PROVE  object = Unknown \/ objectExists(object)
    BY <2>3, NamedExist DEF ObjectsInv
  <2> QED
    BY <2>1, <2>2, <2>3 DEF ObjectsFormTree
<1>2. Init => ObjectsInv
  BY InitQueryInv DEF Init, ObjectsInv
<1> QED
  BY <1>1, <1>2, StepObjectsInv, PTL DEF Spec
-----------------------------------------------------------------------------
(* Where the control thread is decides what the worker can be.                *)
LifecycleInv ==
  /\ OneWorkerWhileRunning
  /\ running \in BOOLEAN /\ joinable \in BOOLEAN /\ failed \in BOOLEAN
  /\ failed => running
  /\ control \in {"idle", "create", "join"}
  /\ control = "create" =>
       /\ running /\ ~failed /\ ~joinable /\ worker = "none"
       /\ clients # {} /\ plugIn = "loaded"
  /\ control = "join" => ~running /\ (joinable <=> worker # "none")

LEMMA StepLifecycleInv == LifecycleInv /\ [Next]_vars => LifecycleInv'
<1> SUFFICES ASSUME LifecycleInv, [Next]_vars PROVE LifecycleInv'
  OBVIOUS
<1> USE DEF LifecycleInv, OneWorkerWhileRunning, bundleVars
<1>1. ASSUME NEW c \in Clients, StartIO(c)
      PROVE  LifecycleInv'
  BY <1>1 DEF StartIO, Usable
<1>2. ASSUME NEW c \in Clients, StartIOAgain(c)
      PROVE  LifecycleInv'
  BY <1>2 DEF StartIOAgain, Usable
<1>3. CASE CreateWorker
  BY <1>3 DEF CreateWorker
<1>4. ASSUME NEW c \in Clients, StopIO(c)
      PROVE  LifecycleInv'
  BY <1>4 DEF StopIO
<1>5. ASSUME NEW c \in Clients, StopIOAgain(c)
      PROVE  LifecycleInv'
  BY <1>5 DEF StopIOAgain
<1>6. CASE JoinWorker
  BY <1>6 DEF JoinWorker
<1>7. CASE DestroyDriver
  BY <1>7 DEF DestroyDriver
<1>8. CASE DestroyMembers
  BY <1>8 DEF DestroyMembers
<1>9. CASE CheckRunning
  BY <1>9 DEF CheckRunning
<1>10. CASE PopNothing
  BY <1>10 DEF PopNothing
<1>13. CASE CreateFails
  BY <1>13 DEF CreateFails
<1>11. CASE Factory \/ AddRef \/ Release
  BY <1>11 DEF Factory, AddRef, Release, ioVars
<1>12. CASE UNCHANGED <<bundleVars, ioVars>>
  BY <1>12 DEF ioVars
<1> QED
  BY <1>1, <1>2, <1>3, <1>4, <1>5, <1>6, <1>7, <1>8, <1>9, <1>10, <1>11, <1>12, <1>13
     DEF Next, vars, Bundle, Explore, Lifecycle, Worker, AskHasProperty, AskSettable, AskSize,
         AskData, NextQuery

(* Whatever the clients call, there is exactly one worker while the IO runs,  *)
(* unless std::thread threw when it started, and none otherwise; the IO does  *)
(* not run when no client needs it, and no joinable std::thread is assigned   *)
(* to or destroyed (DeNoiseAudioDriver.cpp:344 and 358-368).                  *)
THEOREM OneWorker == Spec => []OneWorkerWhileRunning
<1>1. Init => LifecycleInv
  BY DEF Init, LifecycleInv, OneWorkerWhileRunning
<1>2. LifecycleInv => OneWorkerWhileRunning
  BY DEF LifecycleInv
<1> QED
  BY <1>1, <1>2, StepLifecycleInv, PTL DEF Spec
-----------------------------------------------------------------------------
(* What the exploring thread holds is about an object and a selector that the *)
(* host may ask for, and so is every answer it keeps.                         *)
HostInv ==
  /\ QueryInv
  /\ query.pc # "idle" => query.object \in Objects /\ query.selector \in Selectors
  /\ learned \subseteq
       [selector : Selectors, object : Objects, objects : SUBSET (Objects \union {Unknown})]

LEMMA NamedInside ==
  ASSUME NEW object, NEW selector
  PROVE  Named(object, selector) \subseteq Objects \union {Unknown}
BY DriverAssumption DEF Named, Owner, OwnedObjects

LEMMA FactInside ==
  ASSUME HostInv, NEW bufferSize \in BufferSizes, AskData(bufferSize)
  PROVE  learned' \subseteq
           [selector : Selectors, object : Objects, objects : SUBSET (Objects \union {Unknown})]
<1> DEFINE answer == GetPropertyData(query.object, query.selector, bufferSize)
           read == [selector |-> query.selector, object |-> query.object,
                    objects |-> answer.objects]
<1>1. query.object \in Objects /\ query.selector \in Selectors
  BY DEF AskData, HostInv
<1>2. answer.objects \subseteq Objects \union {Unknown}
  <2>1. answer.objects = Named(query.object, query.selector) \/ answer.objects = {}
    BY DriverAssumption, CallsAgree
  <2> QED
    BY <2>1, NamedInside
<1>3. learned' = learned \/ learned' = learned \union {read}
  BY DEF AskData, Fact
<1> HIDE DEF answer
<1>4. read \in [selector : Selectors, object : Objects,
                objects : SUBSET (Objects \union {Unknown})]
  BY <1>1, <1>2
<1> HIDE DEF read
<1> QED
  BY <1>3, <1>4 DEF HostInv

LEMMA StepHostInv == HostInv /\ [Next]_vars => HostInv'
<1> SUFFICES ASSUME HostInv, [Next]_vars PROVE HostInv'
  OBVIOUS
<1>1. QueryInv'
  BY StepQueryInv DEF HostInv
<1>2. ASSUME NEW object \in Objects, NEW selector \in Selectors, AskHasProperty(object, selector)
      PROVE  HostInv'
  BY <1>1, <1>2 DEF AskHasProperty, HostInv
<1>3. CASE AskSettable
  BY <1>1, <1>3 DEF AskSettable, HostInv
<1>4. CASE AskSize
  BY <1>1, <1>4 DEF AskSize, HostInv
<1>5. ASSUME NEW bufferSize \in BufferSizes, AskData(bufferSize)
      PROVE  HostInv'
  <2>1. query'.object = query.object /\ query'.selector = query.selector /\ query.pc = "size"
    BY <1>5 DEF AskData
  <2> QED
    BY <1>1, <1>5, <2>1, FactInside DEF HostInv
<1>6. CASE NextQuery
  BY <1>1, <1>6 DEF NextQuery, NoQuery, HostInv
<1>7. CASE UNCHANGED hostVars
  BY <1>1, <1>7 DEF hostVars, HostInv
<1> QED
  BY <1>2, <1>3, <1>4, <1>5, <1>6, <1>7, OthersLeaveHostAlone DEF Next, Explore, vars

(* The bundle, the worker and the two threads of the host are where they can  *)
(* be, the reference count does not go below 0, and what was learned is about *)
(* objects that were asked for.                                               *)
TypeInv == TypeOK /\ LifecycleInv /\ HostInv

LEMMA StepTypeInv == TypeInv /\ [Next]_vars => TypeInv'
<1> SUFFICES ASSUME TypeInv, [Next]_vars PROVE TypeInv'
  OBVIOUS
<1>1. LifecycleInv' /\ HostInv'
  BY StepLifecycleInv, StepHostInv DEF TypeInv
<1>2. /\ running' \in BOOLEAN /\ joinable' \in BOOLEAN /\ failed' \in BOOLEAN
      /\ control' \in {"idle", "create", "join"}
  BY <1>1 DEF LifecycleInv
<1>3. /\ query'.pc \in {"idle", "has", "settable", "size", "data"}
      /\ query'.pc # "idle" => query'.object \in Objects /\ query'.selector \in Selectors
      /\ learned' \subseteq
           [selector : Selectors, object : Objects, objects : SUBSET (Objects \union {Unknown})]
  BY <1>1 DEF HostInv, QueryInv
<1>4. plugIn' \in {"unloaded", "loaded", "exiting", "gone"} /\ refCount' \in Nat
  <2>1. plugIn \in {"unloaded", "loaded", "exiting", "gone"} /\ refCount \in Nat
    BY DEF TypeInv, TypeOK
  <2> QED
    BY <2>1 DEF Next, vars, bundleVars, Bundle, Factory, AddRef, Release, Usable, Explore,
                AskHasProperty, AskSettable, AskSize, AskData, NextQuery, Lifecycle, StartIO,
                StartIOAgain, CreateWorker, CreateFails, StopIO, StopIOAgain, JoinWorker,
                DestroyDriver, DestroyMembers, Worker, CheckRunning, PopNothing
<1>5. /\ worker' \in {"none", "check", "pop", "done"} /\ terminated' \in BOOLEAN
      /\ clients' \subseteq Clients
  <2>1. /\ worker \in {"none", "check", "pop", "done"} /\ terminated \in BOOLEAN
        /\ clients \subseteq Clients /\ joinable \in BOOLEAN
    BY DEF TypeInv, TypeOK
  <2> QED
    BY <2>1 DEF Next, vars, ioVars, Bundle, Factory, AddRef, Release, Explore,
                AskHasProperty, AskSettable, AskSize, AskData, NextQuery, Lifecycle, StartIO,
                StartIOAgain, CreateWorker, CreateFails, StopIO, StopIOAgain, JoinWorker,
                DestroyDriver, DestroyMembers, Worker, CheckRunning, PopNothing
<1> QED
  BY <1>1, <1>2, <1>3, <1>4, <1>5 DEF TypeInv, TypeOK

LEMMA TypeCorrectAtFirst == Init => TypeInv
<1> SUFFICES ASSUME Init PROVE TypeInv
  OBVIOUS
<1>1. query.pc = "idle" /\ learned = {}
  BY DEF Init, NoQuery
<1>2. HostInv
  BY <1>1, InitQueryInv DEF HostInv
<1>3. LifecycleInv
  BY DEF Init, LifecycleInv, OneWorkerWhileRunning
<1>4. TypeOK
  BY <1>1 DEF Init, TypeOK
<1> QED
  BY <1>2, <1>3, <1>4 DEF TypeInv

(* In every sequence of calls the variables have their types: the bundle, the *)
(* worker and the two threads are where they can be, and what the host asks   *)
(* for and keeps is about ids and selectors it may ask for, the ids it was    *)
(* told of among them (DeNoiseAudioDriver.cpp:198-235).                       *)
THEOREM TypeCorrect == Spec => []TypeOK
<1>1. TypeInv => TypeOK
  BY DEF TypeInv
<1> QED
  BY <1>1, TypeCorrectAtFirst, StepTypeInv, PTL DEF Spec
-----------------------------------------------------------------------------
(* How many steps of the worker the join still waits for.                     *)
StepsToGo ==
  CASE worker = "pop" -> 2
    [] worker = "check" -> 1
    [] OTHER -> 0

(* A joining control thread waits for two steps at most, and for none only    *)
(* when the thread it joins has ended or was never created.                   *)
JoinIsNear ==
  control = "join" =>
    /\ StepsToGo <= 2
    /\ StepsToGo = 0 <=> worker \in {"none", "done"}

(* Every step of the worker brings the join nearer, and no other step of the  *)
(* driver or of the host, as long as it lasts, moves it away.                 *)
JoinComesNearer ==
  control = "join" =>
    /\ Worker => StepsToGo' = StepsToGo - 1
    /\ control' = "join" => StepsToGo' <= StepsToGo

LEMMA WorkerMakesASingleRound ==
  ASSUME LifecycleInv, control = "join", Worker
  PROVE  StepsToGo' = StepsToGo - 1
<1>1. ~running
  BY DEF LifecycleInv
<1>2. CASE CheckRunning
  BY <1>1, <1>2 DEF CheckRunning, StepsToGo
<1>3. CASE PopNothing
  BY <1>3 DEF PopNothing, StepsToGo
<1> QED
  BY <1>2, <1>3 DEF Worker

LEMMA OthersLeaveTheWorker ==
  ASSUME LifecycleInv, [Next]_vars, ~Worker, control = "join", control' = "join"
  PROVE  worker' = worker
<1>1. CASE Bundle \/ Explore \/ UNCHANGED vars
  BY <1>1 DEF Bundle, Factory, AddRef, Release, Explore, AskHasProperty, AskSettable, AskSize,
              AskData, NextQuery, vars, ioVars
<1>2. CASE Lifecycle
  BY <1>2 DEF Lifecycle, StartIO, StartIOAgain, CreateWorker, CreateFails,
              StopIO, StopIOAgain, JoinWorker, DestroyDriver, DestroyMembers
<1> QED
  BY <1>1, <1>2 DEF Next

(* StopIO and the destructor (DeNoiseAudioDriver.cpp:358-368) wait for at     *)
(* most two steps of the worker, whatever the host asks for meanwhile.  That  *)
(* the worker makes them is the fairness of Spec.                             *)
THEOREM StopIOWaitsForTwoSteps == Spec => []JoinIsNear /\ [][JoinComesNearer]_vars
<1>1. TypeInv => JoinIsNear
  BY DEF TypeInv, TypeOK, LifecycleInv, JoinIsNear, StepsToGo
<1>2. TypeInv /\ [Next]_vars => [JoinComesNearer]_vars
  <2> SUFFICES ASSUME TypeInv, [Next]_vars, control = "join"
               PROVE  /\ Worker => StepsToGo' = StepsToGo - 1
                      /\ control' = "join" => StepsToGo' <= StepsToGo
    BY DEF JoinComesNearer
  <2>1. LifecycleInv /\ StepsToGo \in 0..2
    BY DEF TypeInv, StepsToGo
  <2>2. CASE Worker
    BY <2>1, <2>2, WorkerMakesASingleRound
  <2>3. ASSUME ~Worker, control' = "join"
        PROVE  StepsToGo' <= StepsToGo
    BY <2>1, <2>3, OthersLeaveTheWorker DEF StepsToGo
  <2> QED
    BY <2>1, <2>2, <2>3
<1>3. Spec => []TypeInv
  BY TypeCorrectAtFirst, StepTypeInv, PTL DEF Spec
<1>4. Spec => []JoinIsNear
  BY <1>1, <1>3, PTL
<1>5. Spec => [][JoinComesNearer]_vars
  BY <1>2, <1>3, PTL DEF Spec
<1> QED
  BY <1>4, <1>5
=============================================================================
