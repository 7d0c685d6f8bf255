-------------------------- MODULE Singletons_proof --------------------------
(***************************************************************************)
(* Proofs about Singletons, for any set of io threads and any bound on the *)
(* constructors that throw.  MainInv follows main through its start, up to *)
(* which nobody else does anything; OrderInv says that Logger and          *)
(* ConfigManager are complete before anything else and so are destroyed    *)
(* last; ThreadInv and BuildInv tie the statics under construction to the  *)
(* threads that construct them, which end before IOContextPool does.       *)
(* EndInv adds what is left when exit() is through.                        *)
(***************************************************************************)
EXTENDS Singletons, SequenceTheorems, TLAPS

Frame(s, needs) == [static |-> s, needs |-> needs]
LazyNeeds == {<<>>, <<"Logger">>, <<"ConfigManager">>, <<"ConfigManager", "Logger">>}

\* An io thread is in at most one constructor, and does nothing unless it runs.
ThreadInv(t) ==
    /\ \/ ctor[t] = <<>>
       \/ \E s \in Lazy, needs \in LazyNeeds :
             ctor[t] = <<Frame(s, needs)>> /\ life[s] = "building"
    /\ todo[t] \in Seq(Lazy)
    /\ io[t] # "running" => Idle(t)

\* Each lazy static is under construction in one thread at most, the pool in main.
Builds(t, s) == ctor[t] # <<>> /\ ctor[t][1].static = s
BuildInv ==
    /\ \A s \in Lazy : life[s] = "building" => \E t \in Threads : Builds(t, s)
    /\ \A s \in Lazy, t, u \in Threads : Builds(t, s) /\ Builds(u, s) => t = u
    /\ life["IOContextPool"] = "building" =>
          ctor[Main] = <<Frame("IOContextPool", <<>>)>>

OrderInv ==
    /\ \A i \in 1..Len(order) : life[order[i]] = "alive"
    /\ \A s \in Statics : life[s] = "alive" => \E i \in 1..Len(order) : order[i] = s
    /\ \A i, j \in 1..Len(order) : order[i] = order[j] => i = j
    /\ Len(order) >= 1 => order[1] = "Logger"
    /\ Len(order) >= 2 => order[2] = "ConfigManager"

\* main's first line constructs ConfigManager, and that Logger.
BootStage(frames, complete, config, logger) ==
    /\ ctor[Main] = frames
    /\ order = complete
    /\ life["ConfigManager"] = config
    /\ life["Logger"] = logger
Boot == /\ phase = "init"
        /\ todo[Main] = <<"ConfigManager", "IOContextPool">>
        /\ \A s \in Statics \ Foundations : life[s] = "none"
        /\ \A t \in Threads : io[t] = "none"
        /\ LET reading == Frame("ConfigManager", <<"Logger">>)
               read == Frame("ConfigManager", <<>>)
               opening == Frame("Logger", <<>>)
           IN  \/ BootStage(<<>>, <<>>, "none", "none")
               \/ BootStage(<<reading>>, <<>>, "building", "none")
               \/ BootStage(<<reading, opening>>, <<>>, "building", "building")
               \/ BootStage(<<reading>>, <<"Logger">>, "building", "alive")
               \/ BootStage(<<read>>, <<"Logger">>, "building", "alive")
               \/ BootStage(<<>>, <<"Logger", "ConfigManager">>, "alive", "alive")

\* main's next line constructs IOContextPool.
Pooling == /\ phase = "init"
           /\ todo[Main] = <<"IOContextPool">>
           /\ \A f \in Foundations : life[f] = "alive"
           /\ \/ ctor[Main] = <<>>
              \/ /\ ctor[Main] = <<Frame("IOContextPool", <<>>)>>
                 /\ life["IOContextPool"] = "building"

Started == todo[Main] = <<>> /\ ctor[Main] = <<>>

MainInv == Boot \/ Pooling \/ Started

IInv == /\ TypeOK
        /\ FoundationsOutlive
        /\ \A t \in Threads : ThreadInv(t)
        /\ BuildInv
        /\ OrderInv
        /\ MainInv

-----------------------------------------------------------------------------
\* The names of the statics differ, and so do their kinds.
LEMMA Names ==
  /\ Lazy \cap Foundations = {} /\ "IOContextPool" \notin Lazy \cup Foundations
  /\ Lazy \subseteq Statics /\ Foundations \subseteq Statics /\ "IOContextPool" \in Statics
  /\ Statics = Foundations \cup {"IOContextPool"} \cup Lazy
  BY DEF Lazy, Foundations, Statics

LEMMA NeedsOf ==
  /\ \A s \in Lazy : Needs(s) \in LazyNeeds
  /\ Needs("ConfigManager") = <<"Logger">>
  /\ Needs("Logger") = <<>> /\ Needs("IOContextPool") = <<>>
  BY DEF Lazy, Needs, LazyNeeds

LEMMA TailNeeds ==
  ASSUME NEW needs \in LazyNeeds, needs # <<>>
  PROVE  Tail(needs) \in LazyNeeds /\ Head(needs) \in Foundations
<1>1. CASE needs = <<"Logger">>
  BY <1>1 DEF LazyNeeds, Foundations
<1>2. CASE needs = <<"ConfigManager">>
  BY <1>2 DEF LazyNeeds, Foundations
<1>3. CASE needs = <<"ConfigManager", "Logger">>
  <2>1. Tail(needs) = <<"Logger">> /\ Head(needs) = "ConfigManager"
    BY <1>3
  <2>2. QED
    BY <2>1 DEF LazyNeeds, Foundations
<1>4. QED
  BY <1>1, <1>2, <1>3 DEF LazyNeeds

\* In one constructor, and in two.
LEMMA InOne ==
  ASSUME NEW p, NEW f, ctor[p] = <<f>>
  PROVE  Constructing(p) /\ Top(p) = f /\ Pop(ctor[p]) = <<>>
  BY DEF Constructing, Top, Pop

LEMMA InTwo ==
  ASSUME NEW p, NEW f, NEW g, ctor[p] = <<f, g>>
  PROVE  Constructing(p) /\ Top(p) = g /\ Pop(ctor[p]) = <<f>>
<1>1. Len(<<f, g>>) = 2 /\ <<f, g>>[2] = g /\ <<f, g>> # <<>>
  OBVIOUS
<1>2. SubSeq(<<f, g>>, 1, 1) = <<f>>
  <2> DEFINE both == <<f, g>>
             first == SubSeq(both, 1, 1)
             one == <<f>>
             S == {f, g}
  <2>1. both \in Seq(S) /\ \A i \in 1 .. 1 : both[i] = f
    OBVIOUS
  <2>2. one \in Seq(S) /\ Len(one) = 1 /\ one[1] = f
    OBVIOUS
  <2> HIDE DEF both
  <2>3. first \in Seq(S) /\ Len(first) = 1 /\ first[1] = f
    BY <2>1, SubSeqProperties
  <2> HIDE DEF first, one, S
  <2>4. Len(first) = Len(one) /\ \A i \in 1 .. Len(first) : first[i] = one[i]
    BY <2>2, <2>3
  <2>5. first = one
    BY <2>2, <2>3, <2>4, SeqEqual
  <2>6. QED
    BY <2>5 DEF first, both, one
<1>3. QED
  BY <1>1, <1>2 DEF Constructing, Top, Pop

LEMMA AppendTwo ==
  ASSUME NEW f, NEW g
  PROVE  Append(<<f>>, g) = <<f, g>>
<1> DEFINE S == {f, g}
           more == Append(<<f>>, g)
           both == <<f, g>>
<1>1. more \in Seq(S) /\ Len(more) = 2 /\ more[1] = f /\ more[2] = g
  OBVIOUS
<1>2. both \in Seq(S) /\ Len(both) = 2 /\ both[1] = f /\ both[2] = g
  OBVIOUS
<1> HIDE DEF S, more, both
<1>3. \A i \in 1 .. Len(more) : more[i] = both[i]
  BY <1>1, <1>2
<1>4. more = both
  BY <1>1, <1>2, <1>3, SeqEqual
<1>5. QED
  BY <1>4 DEF more, both

LEMMA FrameRest ==
  ASSUME NEW s, NEW needs
  PROVE  [Frame(s, needs) EXCEPT !.needs = Tail(@)] = Frame(s, Tail(needs))
<1>1. Frame(s, needs).needs = needs
  BY DEF Frame
<1>2. ASSUME NEW rest PROVE [Frame(s, needs) EXCEPT !.needs = rest] = Frame(s, rest)
  BY DEF Frame
<1>3. QED
  BY <1>1, <1>2

\* A thread's frame is of a lazy static under construction.
LEMMA FrameBuilding ==
  ASSUME NEW t \in Threads, ThreadInv(t), NEW s, NEW needs, ctor[t] = <<Frame(s, needs)>>
  PROVE  s \in Lazy /\ life[s] = "building"
<1>1. ctor[t] # <<>> /\ ctor[t][1] = Frame(s, needs)
  OBVIOUS
<1>2. PICK r \in Lazy, rest \in LazyNeeds : ctor[t] = <<Frame(r, rest)>> /\ life[r] = "building"
  BY <1>1 DEF ThreadInv
<1>3. ctor[t][1] = Frame(r, rest)
  BY <1>2
<1>4. Frame(s, needs).static = s /\ Frame(r, rest).static = r
  BY DEF Frame
<1>5. r = s
  BY <1>1, <1>3, <1>4
<1>6. QED
  BY <1>2, <1>5

LEMMA BuildsBuilding ==
  ASSUME NEW t \in Threads, ThreadInv(t), NEW s, Builds(t, s)
  PROVE  life[s] = "building"
<1>1. PICK r \in Lazy, rest \in LazyNeeds : ctor[t] = <<Frame(r, rest)>> /\ life[r] = "building"
  BY DEF ThreadInv, Builds
<1>2. ctor[t][1] = Frame(r, rest) /\ Frame(r, rest).static = r
  BY <1>1 DEF Frame
<1>3. r = s
  BY <1>2 DEF Builds
<1>4. QED
  BY <1>1, <1>3

\* What one step of GetInstance and the constructors does in an io thread.
ThreadConstructs(t, s) ==
    /\ ctor[t] = <<>> /\ life[s] = "none"
    /\ life' = [life EXCEPT ![s] = "building"]
    /\ ctor' = [ctor EXCEPT ![t] = <<Frame(s, Needs(s))>>]
    /\ UNCHANGED <<order, todo, inside, io, stopped, phase, bad>>
ThreadObtains(t, s, needs) ==
    /\ ctor[t] = <<Frame(s, needs)>> /\ needs # <<>>
    /\ ctor' = [ctor EXCEPT ![t] = <<Frame(s, Tail(needs))>>]
    /\ UNCHANGED <<life, order, todo, inside, io, stopped, phase, bad>>
ThreadEnters(t, s) ==
    /\ ctor[t] = <<>> /\ todo[t] # <<>>
    /\ todo' = [todo EXCEPT ![t] = Tail(@)]
    /\ inside' = [inside EXCEPT ![t] = @ \cup {s}]
    /\ UNCHANGED <<life, order, ctor, io, stopped, phase, bad>>
ThreadCompletes(t, s) ==
    /\ ctor[t] = <<Frame(s, <<>>)>>
    /\ life' = [life EXCEPT ![s] = "alive"]
    /\ order' = Append(order, s)
    /\ ctor' = [ctor EXCEPT ![t] = <<>>]
    /\ UNCHANGED <<todo, inside, io, stopped, phase, bad>>
ThreadThrows(t, s, needs) ==
    /\ ctor[t] = <<Frame(s, needs)>>
    /\ life' = [life EXCEPT ![s] = "none"]
    /\ ctor' = [ctor EXCEPT ![t] = <<>>]
    /\ todo' = [todo EXCEPT ![t] = <<>>]
    /\ inside' = [inside EXCEPT ![t] = {}]
    /\ UNCHANGED <<order, io, stopped, phase, bad>>

LEMMA ThreadInitialises ==
  ASSUME IInv, NEW t \in Threads, Initialise(t)
  PROVE  /\ io[t] = "running"
         /\ \E s \in Lazy :
               \/ ThreadConstructs(t, s)
               \/ ThreadEnters(t, s)
               \/ ThreadCompletes(t, s)
               \/ \E needs \in LazyNeeds : ThreadObtains(t, s, needs) \/ ThreadThrows(t, s, needs)
<1>1. /\ TypeOK /\ ThreadInv(t) /\ t # Main /\ Procs = Threads \cup {Main}
      /\ ctor \in [Procs -> Seq(Frames)] /\ inside \in [Threads -> SUBSET Lazy]
      /\ todo[t] \in Seq(Lazy)
  BY ConstantsAssumption DEF IInv, TypeOK, Procs, ThreadInv
<1>2. CASE ctor[t] = <<>>
  <2>1. ~Constructing(t) /\ ~Throws(t)
    BY <1>2 DEF Constructing, Throws
  <2>2. PICK s \in Statics : Construct(t, s) \/ Obtain(t, s)
    BY <2>1 DEF Initialise, Complete, Throw
  <2>3. Code(t) # <<>> /\ Head(Code(t)) = s
    BY <2>2 DEF Construct, Obtain, Wants
  <2>4. todo[t] # <<>> /\ Head(todo[t]) = s
    BY <1>1, <2>1, <2>3 DEF Code
  <2>5. s \in Lazy
    BY <1>1, <2>4
  <2>6. io[t] = "running"
    BY <1>1, <2>4 DEF ThreadInv, Idle
  <2>7. Append(<<>>, [static |-> s, needs |-> Needs(s)]) = <<Frame(s, Needs(s))>>
    BY DEF Frame
  <2>8. CASE Construct(t, s)
    <3>1. ThreadConstructs(t, s)
      BY <1>1, <1>2, <2>7, <2>8 DEF Construct, ThreadConstructs
    <3>2. QED
      BY <2>5, <2>6, <3>1
  <2>9. CASE Obtain(t, s)
    <3>1. ThreadEnters(t, s)
      BY <1>1, <1>2, <2>1, <2>4, <2>9 DEF Obtain, ThreadEnters
    <3>2. QED
      BY <2>5, <2>6, <3>1
  <2>10. QED
    BY <2>2, <2>8, <2>9
<1>3. ASSUME NEW s \in Lazy, NEW needs \in LazyNeeds,
             ctor[t] = <<Frame(s, needs)>>, life[s] = "building"
      PROVE  /\ io[t] = "running"
             /\ \/ ThreadCompletes(t, s)
                \/ ThreadObtains(t, s, needs)
                \/ ThreadThrows(t, s, needs)
  <2>1. /\ Constructing(t) /\ Top(t) = Frame(s, needs) /\ Pop(ctor[t]) = <<>>
        /\ Top(t).static = s /\ Top(t).needs = needs /\ Code(t) = needs
    BY <1>3, InOne DEF Frame, Code
  <2>2. io[t] = "running"
    BY <1>1, <2>1 DEF ThreadInv, Idle
  <2>3. CASE Throw(t)
    <3>1. phase' = phase
      BY <1>1, <2>1, <2>3, Names DEF Throw, Foundations
    <3>2. ThreadThrows(t, s, needs)
      BY <1>1, <1>3, <2>1, <2>3, <3>1 DEF Throw, ThreadThrows
    <3>3. QED
      BY <2>2, <3>2
  <2>4. CASE Complete(t)
    <3>1. needs = <<>> /\ s # "IOContextPool"
      BY <2>1, <2>4, Names DEF Complete
    <3>2. ThreadCompletes(t, s)
      BY <1>3, <2>1, <2>4, <3>1 DEF Complete, ThreadCompletes
    <3>3. QED
      BY <2>2, <3>2
  <2>5. ASSUME NEW r \in Statics, Wants(t, r) PROVE needs # <<>> /\ r = Head(needs)
    BY <2>1, <2>5 DEF Wants
  <2>6. ASSUME NEW r \in Statics, Construct(t, r) PROVE FALSE
    <3>1. r \in Foundations /\ life[r] = "none"
      BY <2>5, <2>6, TailNeeds DEF Construct
    <3>2. QED
      BY <2>2, <3>1 DEF IInv, FoundationsOutlive, Available
  <2>7. ASSUME NEW r \in Statics, Obtain(t, r) PROVE ThreadObtains(t, s, needs)
    <3>1. needs # <<>>
      BY <2>5, <2>7 DEF Obtain
    <3>2. ctor' = [ctor EXCEPT ![t] = Append(Pop(@), [Top(t) EXCEPT !.needs = Tail(@)])]
          /\ UNCHANGED <<life, order, todo, inside, io, stopped, phase, bad>>
      BY <2>1, <2>7 DEF Obtain
    <3>3. [Top(t) EXCEPT !.needs = Tail(@)] = Frame(s, Tail(needs))
      BY <2>1, FrameRest
    <3>4. Append(Pop(ctor[t]), [Top(t) EXCEPT !.needs = Tail(@)])
             = Append(<<>>, Frame(s, Tail(needs)))
      BY <2>1, <3>3
    <3>5. Append(<<>>, Frame(s, Tail(needs))) = <<Frame(s, Tail(needs))>>
      OBVIOUS
    <3>6. QED
      BY <1>1, <1>3, <3>1, <3>2, <3>3, <3>4, <3>5 DEF ThreadObtains
  <2>8. QED
    BY <2>2, <2>3, <2>4, <2>6, <2>7 DEF Initialise
<1>4. QED
  BY <1>1, <1>2, <1>3 DEF ThreadInv

-----------------------------------------------------------------------------
\* The frames that occur have their type.
LEMMA FrameTypes ==
  /\ \A s \in Statics, needs \in LazyNeeds : <<Frame(s, needs)>> \in Seq(Frames)
  /\ <<Frame("ConfigManager", <<"Logger">>), Frame("Logger", <<>>)>> \in Seq(Frames)
<1>1. /\ Needs("Logger") = <<>> /\ Needs("ConfigManager") = <<"Logger">>
      /\ Needs("StatusGrpcClient") = <<"ConfigManager">>
      /\ Needs("RedisMgr") = <<"ConfigManager", "Logger">>
  BY DEF Needs
<1>2. LazyNeeds \subseteq {Needs(s) : s \in Statics} \cup {<<"Logger">>, <<>>}
  BY <1>1 DEF LazyNeeds, Statics, Lazy, Foundations
<1>3. \A s \in Statics, needs \in LazyNeeds : Frame(s, needs) \in Frames
  BY <1>2 DEF Frame, Frames
<1>4. <<"Logger">> \in LazyNeeds /\ <<>> \in LazyNeeds
      /\ "Logger" \in Statics /\ "ConfigManager" \in Statics
  BY DEF LazyNeeds, Statics, Foundations
<1>5. \A s \in Statics, needs \in LazyNeeds : <<Frame(s, needs)>> \in Seq(Frames)
  BY <1>3
<1>6. ASSUME NEW f \in Frames, NEW g \in Frames PROVE <<f, g>> \in Seq(Frames)
  OBVIOUS
<1>7. QED
  BY <1>3, <1>4, <1>5, <1>6

\* How the order follows a static that is not complete before or after the step, one that
\* is completed, and one that exit() destroys.
LEMMA OrderKept ==
  ASSUME TypeOK, OrderInv, NEW s \in Statics, NEW v, life[s] # "alive", v # "alive",
         life' = [life EXCEPT ![s] = v], order' = order
  PROVE  OrderInv'
<1>1. \A r \in Statics : life'[r] = IF r = s THEN v ELSE life[r]
  BY DEF TypeOK
<1>2. \A i \in 1..Len(order) : order[i] \in Statics /\ order[i] # s
  BY DEF TypeOK, OrderInv
<1>3. QED
  BY <1>1, <1>2 DEF OrderInv

LEMMA OrderGrows ==
  ASSUME TypeOK, OrderInv, NEW s \in Statics, life[s] # "alive",
         life' = [life EXCEPT ![s] = "alive"], order' = Append(order, s),
         Len(order) = 0 => s = "Logger", Len(order) = 1 => s = "ConfigManager"
  PROVE  OrderInv'
<1>1. /\ Len(order) \in Nat /\ Len(order') = Len(order) + 1
      /\ \A i \in 1..Len(order) : order'[i] = order[i] /\ order[i] \in Statics
      /\ order'[Len(order) + 1] = s
  BY DEF TypeOK
<1>2. \A r \in Statics : life'[r] = IF r = s THEN "alive" ELSE life[r]
  BY DEF TypeOK
<1>3. \A i \in 1..Len(order) : order[i] # s
  BY DEF OrderInv
<1>4. \A i \in 1..Len(order') : i \in 1..Len(order) \/ i = Len(order) + 1
  BY <1>1
<1>5. \A i \in 1..Len(order') : life'[order'[i]] = "alive"
  BY <1>1, <1>2, <1>4 DEF OrderInv
<1>6. ASSUME NEW r \in Statics, life'[r] = "alive"
      PROVE  \E i \in 1..Len(order') : order'[i] = r
  <2>1. CASE r = s
    BY <1>1, <2>1
  <2>2. CASE r # s
    <3>1. PICK i \in 1..Len(order) : order[i] = r
      BY <1>2, <1>6, <2>2 DEF OrderInv
    <3>2. QED
      BY <1>1, <3>1
  <2>3. QED
    BY <2>1, <2>2
<1>7. \A i, j \in 1..Len(order') : order'[i] = order'[j] => i = j
  BY <1>1, <1>3, <1>4 DEF OrderInv
<1>8. /\ Len(order') >= 1 => order'[1] = "Logger"
      /\ Len(order') >= 2 => order'[2] = "ConfigManager"
  <2>1. Len(order) = 0 => order'[1] = s
    BY <1>1
  <2>2. Len(order) = 1 => order'[2] = s
    BY <1>1
  <2>3. Len(order) >= 1 => order'[1] = order[1]
    BY <1>1
  <2>4. Len(order) >= 2 => order'[2] = order[2]
    BY <1>1
  <2>5. /\ Len(order) \in Nat /\ Len(order') = Len(order) + 1
        /\ Len(order) = 0 => order'[1] = "Logger"
        /\ Len(order) = 1 => order'[2] = "ConfigManager"
        /\ Len(order) >= 1 => order[1] = "Logger"
        /\ Len(order) >= 2 => order[2] = "ConfigManager"
    BY <1>1, <2>1, <2>2 DEF OrderInv
  <2>6. order'[1] = "Logger"
    BY ONLY <2>3, <2>5
  <2>7. CASE Len(order) = 0
    BY ONLY <2>5, <2>6, <2>7
  <2>8. CASE Len(order) >= 1
    <3>1. order'[2] = "ConfigManager"
      BY ONLY SMTT(30), <2>4, <2>5, <2>8
    <3>2. QED
      BY ONLY <2>6, <3>1
  <2>9. QED
    BY ONLY <2>5, <2>7, <2>8
<1>9. QED
  BY <1>5, <1>6, <1>7, <1>8 DEF OrderInv

LEMMA OrderShrinks ==
  ASSUME TypeOK, OrderInv, Destroy
  PROVE  /\ order[Len(order)] \in Statics /\ life[order[Len(order)]] = "alive"
         /\ order' \in Seq(Statics) /\ OrderInv'
<1> DEFINE n == Len(order)
           last == order[n]
<1>1. order # <<>> /\ life' = [life EXCEPT ![last] = "destroying"] /\ order' = Pop(order)
  BY DEF Destroy
<1>2. n \in Nat /\ n >= 1 /\ last \in Statics /\ life[last] = "alive"
  BY <1>1 DEF TypeOK, OrderInv
<1>3. \A i \in 1 .. n - 1 : order[i] \in Statics
  BY <1>2 DEF TypeOK
<1>4. /\ order' \in Seq(Statics) /\ Len(order') = n - 1
      /\ \A i \in 1 .. n - 1 : order'[i] = order[i]
  <2> DEFINE front == SubSeq(order, 1, n - 1)
  <2>1. order' = front
    BY <1>1 DEF Pop
  <2>2. n - 1 \in Int /\ 1 \in Int
    BY <1>2
  <2> HIDE DEF n
  <2>3. /\ front \in Seq(Statics)
        /\ Len(front) = IF 1 <= n - 1 THEN n - 1 - 1 + 1 ELSE 0
        /\ \A i \in 1 .. n - 1 - 1 + 1 : front[i] = order[1 + i - 1]
    BY <1>3, <2>2, SubSeqProperties
  <2> HIDE DEF front
  <2>4. Len(front) = n - 1 /\ \A i \in 1 .. n - 1 : front[i] = order[i]
    BY <1>2, <2>3
  <2>5. QED
    BY <2>1, <2>3, <2>4
<1>5. \A r \in Statics : life'[r] = IF r = last THEN "destroying" ELSE life[r]
  BY <1>1, <1>2 DEF TypeOK
<1>6. \A i \in 1 .. n - 1 : order[i] # last /\ life[order[i]] = "alive"
  BY <1>2 DEF OrderInv
<1>7. \A i \in 1 .. Len(order') : life'[order'[i]] = "alive"
  BY <1>3, <1>4, <1>5, <1>6
<1>8. ASSUME NEW r \in Statics, life'[r] = "alive"
      PROVE  \E i \in 1 .. Len(order') : order'[i] = r
  <2>1. r # last /\ life[r] = "alive"
    BY <1>5, <1>8
  <2>2. PICK i \in 1 .. n : order[i] = r
    BY <2>1 DEF OrderInv
  <2>3. i \in 1 .. n - 1
    BY <1>2, <2>1, <2>2
  <2>4. QED
    BY <1>4, <2>2, <2>3
<1>9. QED
  BY <1>2, <1>4, <1>7, <1>8 DEF OrderInv

\* Logger and ConfigManager are the first two.
LEMMA FirstTwo ==
  ASSUME TypeOK, OrderInv, \A f \in Foundations : life[f] = "alive"
  PROVE  Len(order) >= 2 /\ Len(order) # 0 /\ Len(order) # 1
<1>1. PICK i \in 1..Len(order) : order[i] = "Logger"
  BY DEF OrderInv, Foundations, Statics
<1>2. PICK j \in 1..Len(order) : order[j] = "ConfigManager"
  BY DEF OrderInv, Foundations, Statics
<1>3. QED
  BY <1>1, <1>2 DEF TypeOK

-----------------------------------------------------------------------------
\* What one step of main's start does.
BootAdvances ==
    /\ \E s \in Foundations, v \in {"building", "alive"} : life' = [life EXCEPT ![s] = v]
    /\ \E frames \in Seq(Frames) : ctor' = [ctor EXCEPT ![Main] = frames]
    /\ order' \in Seq(Statics)
    /\ UNCHANGED <<todo, inside, io, stopped, phase, bad>>
    /\ Boot'
BootEnds ==
    /\ ctor[Main] = <<>>
    /\ \A f \in Foundations : life[f] = "alive"
    /\ todo' = [todo EXCEPT ![Main] = <<"IOContextPool">>]
    /\ UNCHANGED <<life, order, ctor, inside, io, stopped, phase, bad>>
BootAborts ==
    /\ order = <<"Logger">> /\ life["Logger"] = "alive" /\ life["ConfigManager"] = "building"
    /\ life' = [life EXCEPT !["ConfigManager"] = "none"]
    /\ ctor' = [ctor EXCEPT ![Main] = <<>>]
    /\ todo' = [todo EXCEPT ![Main] = <<>>]
    /\ phase' = "aborted"
    /\ UNCHANGED <<order, inside, io, stopped, bad>>

LEMMA BootStep ==
  ASSUME IInv, Boot, Initialise(Main)
  PROVE  BootAdvances \/ BootEnds \/ BootAborts
<1> DEFINE reading == Frame("ConfigManager", <<"Logger">>)
           read == Frame("ConfigManager", <<>>)
           opening == Frame("Logger", <<>>)
<1>1. /\ TypeOK /\ Main \in Procs /\ Main \notin Threads /\ ctor[Main] \in Seq(Frames)
      /\ ctor \in [Procs -> Seq(Frames)] /\ todo \in [Procs -> Seq(Statics)]
      /\ life \in [Statics -> {"none", "building", "alive", "destroying", "destroyed"}]
      /\ "Logger" \in Statics /\ "ConfigManager" \in Statics
      /\ "Logger" \in Foundations /\ "ConfigManager" \in Foundations
  BY ConstantsAssumption DEF IInv, TypeOK, Procs, Statics, Foundations
<1>2. <<reading>> \in Seq(Frames) /\ <<read>> \in Seq(Frames) /\ <<reading, opening>> \in Seq(Frames)
  BY <1>1, FrameTypes DEF LazyNeeds
<1>3. /\ reading.static = "ConfigManager" /\ reading.needs = <<"Logger">>
      /\ read.static = "ConfigManager" /\ read.needs = <<>>
      /\ opening.static = "Logger" /\ opening.needs = <<>>
  BY DEF Frame
<1>4. /\ phase = "init" /\ todo[Main] = <<"ConfigManager", "IOContextPool">>
      /\ \A s \in Statics \ Foundations : life[s] = "none"
      /\ \A t \in Threads : io[t] = "none"
  BY DEF Boot
<1>5. /\ Head(todo[Main]) = "ConfigManager" /\ todo[Main] # <<>>
      /\ Tail(todo[Main]) = <<"IOContextPool">>
  BY <1>4
<1>6. <<"Logger">> # <<>> /\ Head(<<"Logger">>) = "Logger" /\ Tail(<<"Logger">>) = <<>>
  OBVIOUS
<1>7. \A s \in Foundations : \A v :
         \A r \in Statics \ Foundations : [life EXCEPT ![s] = v][r] = "none"
  BY <1>1, <1>4
<1>8. ASSUME BootStage(<<>>, <<>>, "none", "none") PROVE BootAdvances
  <2>1. ~Constructing(Main) /\ ~Throws(Main) /\ Code(Main) = todo[Main]
    BY <1>1, <1>8 DEF BootStage, Constructing, Throws, Code
  <2>2. PICK s \in Statics : Construct(Main, s) \/ Obtain(Main, s)
    BY <2>1 DEF Initialise, Complete, Throw
  <2>3. s = "ConfigManager"
    BY <1>5, <2>1, <2>2 DEF Construct, Obtain, Wants
  <2>4. Construct(Main, "ConfigManager")
    BY <1>8, <2>2, <2>3 DEF BootStage, Obtain
  <2>5. Append(<<>>, [static |-> "ConfigManager", needs |-> Needs("ConfigManager")]) = <<reading>>
    BY NeedsOf DEF Frame
  <2>6. /\ life' = [life EXCEPT !["ConfigManager"] = "building"]
        /\ ctor' = [ctor EXCEPT ![Main] = <<reading>>]
        /\ UNCHANGED <<order, todo, inside, io, stopped, phase, bad>>
    BY <1>1, <1>8, <2>4, <2>5 DEF Construct, BootStage
  <2>7. BootStage(<<reading>>, <<>>, "building", "none")'
    BY <1>1, <1>8, <2>6 DEF BootStage
  <2>8. Boot'
    BY <1>1, <1>4, <1>7, <2>6, <2>7 DEF Boot
  <2>9. QED
    BY <1>1, <1>2, <1>8, <2>6, <2>8 DEF BootAdvances, BootStage, TypeOK
<1>9. ASSUME BootStage(<<reading>>, <<>>, "building", "none") PROVE BootAdvances
  <2>1. Constructing(Main) /\ Top(Main) = reading /\ Pop(ctor[Main]) = <<>>
    BY <1>9, InOne DEF BootStage
  <2>2. ~Throws(Main) /\ Code(Main) = <<"Logger">>
    BY <1>3, <1>6, <2>1 DEF Throws, LeftAtThrow, Lazy, Code
  <2>3. PICK s \in Statics : Construct(Main, s) \/ Obtain(Main, s)
    BY <1>3, <1>6, <2>1, <2>2 DEF Initialise, Complete, Throw
  <2>4. s = "Logger"
    BY <1>6, <2>2, <2>3 DEF Construct, Obtain, Wants
  <2>5. Construct(Main, "Logger")
    BY <1>9, <2>3, <2>4 DEF BootStage, Obtain
  <2>6. Append(<<reading>>, [static |-> "Logger", needs |-> Needs("Logger")]) = <<reading, opening>>
    <3>1. [static |-> "Logger", needs |-> Needs("Logger")] = opening
      BY NeedsOf DEF Frame
    <3>2. QED
      BY <3>1, AppendTwo
  <2>7. /\ life' = [life EXCEPT !["Logger"] = "building"]
        /\ ctor' = [ctor EXCEPT ![Main] = <<reading, opening>>]
        /\ UNCHANGED <<order, todo, inside, io, stopped, phase, bad>>
    BY <1>1, <1>9, <2>5, <2>6 DEF Construct, BootStage
  <2>8. BootStage(<<reading, opening>>, <<>>, "building", "building")'
    BY <1>1, <1>9, <2>7 DEF BootStage
  <2>9. Boot'
    BY <1>1, <1>4, <1>7, <2>7, <2>8 DEF Boot
  <2>10. QED
    BY <1>1, <1>2, <1>9, <2>7, <2>9 DEF BootAdvances, BootStage, TypeOK
<1>10. ASSUME BootStage(<<reading, opening>>, <<>>, "building", "building") PROVE BootAdvances
  <2>1. Constructing(Main) /\ Top(Main) = opening /\ Pop(ctor[Main]) = <<reading>>
    BY <1>10, InTwo DEF BootStage
  <2>2. ~Throws(Main) /\ Code(Main) = <<>>
    BY <1>1, <1>3, <2>1 DEF Throws, Code, TypeOK, Throwing
  <2>3. Complete(Main)
    BY <2>2 DEF Initialise, Construct, Obtain, Wants, Throw
  <2>4. Append(<<>>, "Logger") = <<"Logger">>
    OBVIOUS
  <2>5. /\ life' = [life EXCEPT !["Logger"] = "alive"]
        /\ order' = <<"Logger">>
        /\ ctor' = [ctor EXCEPT ![Main] = <<reading>>]
        /\ UNCHANGED <<todo, inside, io, stopped, phase, bad>>
    BY <1>3, <1>10, <2>1, <2>3, <2>4 DEF Complete, BootStage
  <2>6. BootStage(<<reading>>, <<"Logger">>, "building", "alive")'
    BY <1>1, <1>10, <2>5 DEF BootStage
  <2>7. Boot'
    BY <1>1, <1>4, <1>7, <2>5, <2>6 DEF Boot
  <2>8. <<"Logger">> \in Seq(Statics)
    BY <1>1
  <2>9. QED
    BY <1>1, <1>2, <2>5, <2>7, <2>8 DEF BootAdvances
<1>11. ASSUME BootStage(<<reading>>, <<"Logger">>, "building", "alive") PROVE BootAdvances
  <2>1. Constructing(Main) /\ Top(Main) = reading /\ Pop(ctor[Main]) = <<>>
    BY <1>11, InOne DEF BootStage
  <2>2. ~Throws(Main) /\ Code(Main) = <<"Logger">>
    BY <1>3, <1>6, <2>1 DEF Throws, LeftAtThrow, Lazy, Code
  <2>3. PICK s \in Statics : Construct(Main, s) \/ Obtain(Main, s)
    BY <1>3, <1>6, <2>1, <2>2 DEF Initialise, Complete, Throw
  <2>4. s = "Logger"
    BY <1>6, <2>2, <2>3 DEF Construct, Obtain, Wants
  <2>5. Obtain(Main, "Logger")
    BY <1>11, <2>3, <2>4 DEF BootStage, Construct
  <2>6. [Top(Main) EXCEPT !.needs = Tail(@)] = read
    <3>1. Tail(Top(Main).needs) = <<>>
      BY <1>3, <1>6, <2>1
    <3>2. [Top(Main) EXCEPT !.needs = <<>>] = read
      BY <2>1 DEF Frame
    <3>3. QED
      BY <3>1, <3>2
  <2>7. Append(<<>>, read) = <<read>>
    OBVIOUS
  <2>8. /\ ctor' = [ctor EXCEPT ![Main] = Append(Pop(@), [Top(Main) EXCEPT !.needs = Tail(@)])]
        /\ UNCHANGED <<life, order, todo, inside, io, stopped, phase, bad>>
    BY <2>1, <2>5 DEF Obtain
  <2>9. ctor' = [ctor EXCEPT ![Main] = <<read>>]
    BY <1>1, <2>1, <2>6, <2>7, <2>8
  <2>10. BootStage(<<read>>, <<"Logger">>, "building", "alive")'
    BY <1>1, <1>11, <2>8, <2>9 DEF BootStage
  <2>11. Boot'
    BY <1>1, <1>4, <2>8, <2>10 DEF Boot
  <2>12. life' = [life EXCEPT !["Logger"] = "alive"]
    BY <1>1, <1>11, <2>8 DEF BootStage
  <2>13. QED
    BY <1>1, <1>2, <2>8, <2>9, <2>11, <2>12 DEF BootAdvances, TypeOK
<1>12. ASSUME BootStage(<<read>>, <<"Logger">>, "building", "alive")
       PROVE  BootAdvances \/ BootAborts
  <2>1. Constructing(Main) /\ Top(Main) = read /\ Pop(ctor[Main]) = <<>>
    BY <1>12, InOne DEF BootStage
  <2>2. Code(Main) = <<>>
    BY <1>3, <2>1 DEF Code
  <2>3. Complete(Main) \/ Throw(Main)
    BY <2>2 DEF Initialise, Construct, Obtain, Wants
  <2>4. CASE Complete(Main)
    <3>1. Append(<<"Logger">>, "ConfigManager") = <<"Logger", "ConfigManager">>
      BY AppendTwo
    <3>2. /\ life' = [life EXCEPT !["ConfigManager"] = "alive"]
          /\ order' = <<"Logger", "ConfigManager">>
          /\ ctor' = [ctor EXCEPT ![Main] = <<>>]
          /\ UNCHANGED <<todo, inside, io, stopped, phase, bad>>
      BY <1>3, <1>12, <2>1, <2>4, <3>1 DEF Complete, BootStage
    <3>3. BootStage(<<>>, <<"Logger", "ConfigManager">>, "alive", "alive")'
      BY <1>1, <1>12, <3>2 DEF BootStage
    <3>4. Boot'
      BY <1>1, <1>4, <1>7, <3>2, <3>3 DEF Boot
    <3>5. <<"Logger", "ConfigManager">> \in Seq(Statics) /\ <<>> \in Seq(Frames)
      BY <1>1
    <3>6. QED
      BY <1>1, <3>2, <3>4, <3>5 DEF BootAdvances
  <2>5. CASE Throw(Main)
    BY <1>3, <1>12, <2>1, <2>5 DEF Throw, BootStage, BootAborts
  <2>6. QED
    BY <2>3, <2>4, <2>5
<1>13. ASSUME BootStage(<<>>, <<"Logger", "ConfigManager">>, "alive", "alive") PROVE BootEnds
  <2>1. ~Constructing(Main) /\ ~Throws(Main) /\ Code(Main) = todo[Main]
    BY <1>1, <1>13 DEF BootStage, Constructing, Throws, Code
  <2>2. PICK s \in Statics : Construct(Main, s) \/ Obtain(Main, s)
    BY <2>1 DEF Initialise, Complete, Throw
  <2>3. s = "ConfigManager"
    BY <1>5, <2>1, <2>2 DEF Construct, Obtain, Wants
  <2>4. Obtain(Main, "ConfigManager")
    BY <1>13, <2>2, <2>3 DEF BootStage, Construct
  <2>5. QED
    BY <1>1, <1>5, <1>13, <2>1, <2>4 DEF Obtain, BootStage, BootEnds, Foundations
<1>14. QED
  BY <1>8, <1>9, <1>10, <1>11, <1>12, <1>13 DEF Boot

\* What one step of main in GetInstance of IOContextPool does.
PoolBuilds ==
    /\ ctor[Main] = <<>> /\ life["IOContextPool"] = "none"
    /\ life' = [life EXCEPT !["IOContextPool"] = "building"]
    /\ ctor' = [ctor EXCEPT ![Main] = <<Frame("IOContextPool", <<>>)>>]
    /\ UNCHANGED <<order, todo, inside, io, stopped, phase, bad>>
PoolObtained ==
    /\ ctor[Main] = <<>>
    /\ todo' = [todo EXCEPT ![Main] = <<>>]
    /\ UNCHANGED <<life, order, ctor, inside, io, stopped, phase, bad>>
PoolCompletes ==
    /\ life["IOContextPool"] = "building"
    /\ life' = [life EXCEPT !["IOContextPool"] = "alive"]
    /\ order' = Append(order, "IOContextPool")
    /\ ctor' = [ctor EXCEPT ![Main] = <<>>]
    /\ io' = [t \in Threads |-> "running"]
    /\ UNCHANGED <<todo, inside, stopped, phase, bad>>
PoolThrows ==
    /\ life["IOContextPool"] = "building"
    /\ life' = [life EXCEPT !["IOContextPool"] = "none"]
    /\ ctor' = [ctor EXCEPT ![Main] = <<>>]
    /\ todo' = [todo EXCEPT ![Main] = <<>>]
    /\ phase' = "exit"
    /\ UNCHANGED <<order, inside, io, stopped, bad>>

LEMMA PoolStep ==
  ASSUME IInv, Pooling, Initialise(Main)
  PROVE  PoolBuilds \/ PoolObtained \/ PoolCompletes \/ PoolThrows
<1>1. /\ TypeOK /\ Main \in Procs /\ Main \notin Threads /\ ctor \in [Procs -> Seq(Frames)]
      /\ todo[Main] = <<"IOContextPool">>
  BY ConstantsAssumption DEF IInv, TypeOK, Procs, Pooling
<1>2. /\ todo[Main] # <<>> /\ Head(todo[Main]) = "IOContextPool" /\ Tail(todo[Main]) = <<>>
  BY <1>1
<1>3. CASE ctor[Main] = <<>>
  <2>1. ~Constructing(Main) /\ ~Throws(Main) /\ Code(Main) = todo[Main]
    BY <1>1, <1>3 DEF Constructing, Throws, Code
  <2>2. PICK s \in Statics : Construct(Main, s) \/ Obtain(Main, s)
    BY <2>1 DEF Initialise, Complete, Throw
  <2>3. s = "IOContextPool"
    BY <1>2, <2>1, <2>2 DEF Construct, Obtain, Wants
  <2>4. CASE Construct(Main, "IOContextPool")
    <3>1. Append(<<>>, [static |-> "IOContextPool", needs |-> Needs("IOContextPool")])
             = <<Frame("IOContextPool", <<>>)>>
      BY NeedsOf DEF Frame
    <3>2. PoolBuilds
      BY <1>1, <1>3, <2>4, <3>1 DEF Construct, PoolBuilds
    <3>3. QED
      BY <3>2
  <2>5. CASE Obtain(Main, "IOContextPool")
    <3>1. PoolObtained
      BY <1>1, <1>2, <1>3, <2>1, <2>5 DEF Obtain, PoolObtained
    <3>2. QED
      BY <3>1
  <2>6. QED
    BY <2>2, <2>3, <2>4, <2>5
<1>4. CASE ctor[Main] = <<Frame("IOContextPool", <<>>)>> /\ life["IOContextPool"] = "building"
  <2>1. /\ Constructing(Main) /\ Top(Main) = Frame("IOContextPool", <<>>)
        /\ Pop(ctor[Main]) = <<>>
    BY <1>4, InOne
  <2>2. Top(Main).static = "IOContextPool" /\ Top(Main).needs = <<>>
    BY <2>1 DEF Frame
  <2>3. Complete(Main) \/ Throw(Main)
    BY <2>1, <2>2 DEF Initialise, Construct, Obtain, Wants, Code
  <2>4. CASE Complete(Main)
    BY <1>4, <2>1, <2>2, <2>4 DEF Complete, PoolCompletes
  <2>5. CASE Throw(Main)
    BY <1>4, <2>2, <2>5 DEF Throw, PoolThrows
  <2>6. QED
    BY <2>3, <2>4, <2>5
<1>5. QED
  BY <1>3, <1>4 DEF Pooling

\* Once main has all the statics it uses, it is in no constructor.
LEMMA StartedStep ==
  ASSUME IInv, Started, Initialise(Main)
  PROVE  FALSE
<1>1. ~Constructing(Main) /\ ~Throws(Main) /\ Code(Main) = <<>>
  BY ConstantsAssumption DEF Started, Constructing, Throws, Code
<1>2. QED
  BY <1>1 DEF Initialise, Construct, Obtain, Complete, Throw, Wants
-----------------------------------------------------------------------------
\* Initially and after each step of Boot nothing but the foundations has begun.
LEMMA BootSuffices ==
  ASSUME TypeOK', Boot', \A t \in Threads : Idle(t)'
  PROVE  IInv'
<1>1. /\ \A s \in Statics \ Foundations : life'[s] = "none"
      /\ \A t \in Threads : io'[t] = "none" /\ ctor'[t] = <<>> /\ todo'[t] = <<>>
  BY DEF Boot, Idle, Constructing
<1>2. /\ life'["Logger"] \in {"none", "building", "alive"}
      /\ life'["ConfigManager"] \in {"none", "building", "alive"}
      /\ life'["ConfigManager"] = "alive" => life'["Logger"] = "alive"
  BY DEF Boot, BootStage
<1>3. FoundationsOutlive'
  BY <1>1, <1>2 DEF FoundationsOutlive, InUse, Available
<1>4. \A t \in Threads : ThreadInv(t)'
  <2>1. <<>> \in Seq(Lazy)
    OBVIOUS
  <2>2. QED
    BY <1>1, <2>1 DEF ThreadInv
<1>5. BuildInv'
  BY <1>1, Names DEF BuildInv, Builds
<1>6. OrderInv'
  <2>1. \A s \in Statics : life'[s] = "alive" => s \in Foundations
    BY <1>1
  <2>2. CASE order' = <<>> /\ life'["Logger"] # "alive" /\ life'["ConfigManager"] # "alive"
    BY <2>1, <2>2 DEF OrderInv, Foundations
  <2>3. CASE order' = <<"Logger">> /\ life'["Logger"] = "alive" /\ life'["ConfigManager"] # "alive"
    BY <2>1, <2>3 DEF OrderInv, Foundations
  <2>4. CASE /\ order' = <<"Logger", "ConfigManager">>
             /\ life'["Logger"] = "alive" /\ life'["ConfigManager"] = "alive"
    <3>1. /\ Len(order') = 2 /\ order'[1] = "Logger" /\ order'[2] = "ConfigManager"
          /\ \A i \in 1..2 : i = 1 \/ i = 2
      BY <2>4
    <3>2. QED
      BY <2>1, <2>4, <3>1 DEF OrderInv, Foundations
  <2>5. QED
    BY <2>2, <2>3, <2>4 DEF Boot, BootStage
<1>7. QED
  BY <1>3, <1>4, <1>5, <1>6 DEF IInv, MainInv

LEMMA InitIInv == Init => IInv
<1> SUFFICES ASSUME Init PROVE IInv
  OBVIOUS
<1>1. /\ Main \in Procs /\ Main \notin Threads /\ Threads \subseteq Procs
      /\ \A t \in Threads : todo[t] = <<>> /\ ctor[t] = <<>> /\ inside[t] = {} /\ io[t] = "none"
      /\ todo[Main] = <<"ConfigManager", "IOContextPool">> /\ ctor[Main] = <<>>
      /\ \A s \in Statics : life[s] = "none"
      /\ order = <<>> /\ phase = "init"
  BY ConstantsAssumption DEF Init, Procs
<1>2. TypeOK
  <2>1. <<>> \in Seq(Statics) /\ <<>> \in Seq(Frames)
        /\ <<"ConfigManager", "IOContextPool">> \in Seq(Statics)
    BY DEF Statics, Foundations
  <2>2. QED
    BY <2>1 DEF Init, TypeOK
<1>3. FoundationsOutlive
  BY <1>1, Names DEF FoundationsOutlive, InUse, Foundations
<1>4. \A t \in Threads : ThreadInv(t)
  <2>1. <<>> \in Seq(Lazy)
    OBVIOUS
  <2>2. QED
    BY <1>1, <2>1 DEF ThreadInv, Idle, Constructing
<1>5. BuildInv
  BY <1>1, Names DEF BuildInv, Builds
<1>6. OrderInv
  BY <1>1 DEF OrderInv
<1>7. MainInv
  BY <1>1, Names DEF MainInv, Boot, BootStage, Foundations
<1>8. QED
  BY <1>2, <1>3, <1>4, <1>5, <1>6, <1>7 DEF IInv

\* io threads that do nothing yet.
LEMMA BootIdle ==
  ASSUME IInv, Boot
  PROVE  /\ Main \notin Threads /\ Main \in Procs /\ Threads \subseteq Procs
         /\ \A t \in Threads : ctor[t] = <<>> /\ todo[t] = <<>> /\ inside[t] = {} /\ io[t] = "none"
  BY ConstantsAssumption DEF IInv, ThreadInv, Boot, Idle, Constructing, Procs

LEMMA BootPreserves ==
  ASSUME IInv, Boot, Initialise(Main)
  PROVE  IInv'
<1>1. /\ Main \notin Threads /\ Main \in Procs /\ Threads \subseteq Procs
      /\ \A t \in Threads : ctor[t] = <<>> /\ todo[t] = <<>> /\ inside[t] = {} /\ io[t] = "none"
      /\ TypeOK /\ OrderInv
  BY BootIdle DEF IInv
<1>2. CASE BootAdvances
  <2>1. TypeOK'
    BY <1>1, <1>2, Names DEF BootAdvances, TypeOK
  <2>2. \A t \in Threads : Idle(t)'
    BY <1>1, <1>2 DEF BootAdvances, Idle, Constructing, TypeOK
  <2>3. QED
    BY <1>2, <2>1, <2>2, BootSuffices DEF BootAdvances
<1>3. CASE BootEnds
  <2>1. TypeOK'
    <3>1. <<"IOContextPool">> \in Seq(Statics)
      BY Names
    <3>2. QED
      BY <1>1, <1>3, <3>1 DEF BootEnds, TypeOK
  <2>2. \A t \in Threads : todo'[t] = todo[t]
    BY <1>1, <1>3 DEF BootEnds, TypeOK
  <2>3. \A t \in Threads : ThreadInv(t)'
    BY <1>3, <2>2 DEF BootEnds, IInv, ThreadInv, Idle, Constructing
  <2>4. FoundationsOutlive' /\ BuildInv' /\ OrderInv'
    BY <1>3 DEF BootEnds, IInv, FoundationsOutlive, InUse, Available, BuildInv, Builds, OrderInv
  <2>5. Pooling'
    BY <1>1, <1>3 DEF BootEnds, Pooling, Boot, TypeOK
  <2>6. QED
    BY <2>1, <2>3, <2>4, <2>5 DEF IInv, MainInv
<1>4. CASE BootAborts
  <2>1. TypeOK'
    <3>1. <<>> \in Seq(Statics) /\ <<>> \in Seq(Frames)
      OBVIOUS
    <3>2. QED
      BY <1>1, <1>4, <3>1 DEF BootAborts, TypeOK
  <2>2. /\ \A t \in Threads : ctor'[t] = <<>> /\ todo'[t] = <<>> /\ inside'[t] = {} /\ io'[t] = "none"
        /\ ctor'[Main] = <<>> /\ todo'[Main] = <<>>
        /\ \A s \in Statics : life'[s] = IF s = "ConfigManager" THEN "none" ELSE life[s]
    BY <1>1, <1>4 DEF BootAborts, TypeOK
  <2>3. \A s \in Statics \ Foundations : life'[s] = "none"
    BY <2>2 DEF Boot, Foundations
  <2>4. FoundationsOutlive'
    BY <2>2, <2>3 DEF FoundationsOutlive, InUse, Available, Statics, Foundations
  <2>5. \A t \in Threads : ThreadInv(t)'
    <3>1. <<>> \in Seq(Lazy)
      OBVIOUS
    <3>2. QED
      BY <2>2, <3>1 DEF ThreadInv, Idle, Constructing
  <2>6. BuildInv'
    BY <2>2, <2>3, Names DEF BuildInv, Builds
  <2>7. OrderInv'
    BY <1>1, <1>4, OrderKept DEF BootAborts, Statics, Foundations
  <2>8. QED
    BY <2>1, <2>2, <2>4, <2>5, <2>6, <2>7 DEF IInv, MainInv, Started
<1>5. QED
  BY <1>2, <1>3, <1>4, BootStep

LEMMA PoolPreserves ==
  ASSUME IInv, Pooling, Initialise(Main)
  PROVE  IInv'
<1>1. /\ Main \notin Threads /\ Main \in Procs /\ Threads \subseteq Procs
      /\ TypeOK /\ OrderInv /\ BuildInv /\ FoundationsOutlive
      /\ \A t \in Threads : ThreadInv(t)
      /\ phase = "init" /\ todo[Main] = <<"IOContextPool">>
      /\ \A f \in Foundations : life[f] = "alive"
      /\ "IOContextPool" \in Statics /\ "IOContextPool" \notin Foundations \cup Lazy
  BY ConstantsAssumption, Names DEF IInv, Pooling, Procs
<1>2. <<>> \in Seq(Statics) /\ <<>> \in Seq(Frames) /\ <<Frame("IOContextPool", <<>>)>> \in Seq(Frames)
  BY Names, FrameTypes DEF LazyNeeds
<1>3. ASSUME NEW v \in {"none", "building", "alive"},
             life' = [life EXCEPT !["IOContextPool"] = v],
             NEW frames \in Seq(Frames), ctor' = [ctor EXCEPT ![Main] = frames],
             life["IOContextPool"] \in {"none", "building"},
             UNCHANGED inside,
             \A t \in Threads : todo'[t] = todo[t] /\ io'[t] \in {io[t], "running"},
             v = "building" => frames = <<Frame("IOContextPool", <<>>)>>,
             v # "alive" => io' = io
      PROVE  /\ FoundationsOutlive' /\ BuildInv' /\ \A t \in Threads : ThreadInv(t)'
             /\ \A f \in Foundations : life'[f] = "alive"
  <2>1. /\ \A s \in Statics : life'[s] = IF s = "IOContextPool" THEN v ELSE life[s]
        /\ \A t \in Threads : ctor'[t] = ctor[t]
        /\ ctor'[Main] = frames
    BY <1>1, <1>3 DEF TypeOK
  <2>2. \A f \in Foundations : life'[f] = "alive"
    BY <1>1, <2>1, Names
  <2>3. \A t \in Threads : io[t] # "running"
    BY <1>1, <1>3 DEF FoundationsOutlive
  <2>4. FoundationsOutlive'
    BY <1>1, <1>3, <2>1, <2>2, <2>3 DEF FoundationsOutlive, Available, Foundations
  <2>5. \A t \in Threads : ThreadInv(t)'
    BY <1>1, <1>3, <2>1, <2>3, Names DEF ThreadInv, Idle, Constructing
  <2>6. BuildInv'
    BY <1>1, <1>3, <2>1, Names DEF BuildInv, Builds
  <2>7. QED
    BY <2>2, <2>4, <2>5, <2>6
<1>4. CASE PoolBuilds
  <2>1. TypeOK'
    BY <1>1, <1>2, <1>4 DEF PoolBuilds, TypeOK
  <2>2. /\ FoundationsOutlive' /\ BuildInv' /\ \A t \in Threads : ThreadInv(t)'
        /\ \A f \in Foundations : life'[f] = "alive"
    BY <1>2, <1>3, <1>4 DEF PoolBuilds
  <2>3. OrderInv'
    BY <1>1, <1>4, OrderKept DEF PoolBuilds
  <2>4. Pooling'
    BY <1>1, <1>4, <2>2 DEF Pooling, PoolBuilds, TypeOK
  <2>5. QED
    BY <2>1, <2>2, <2>3, <2>4 DEF IInv, MainInv
<1>5. CASE PoolObtained
  <2>1. TypeOK'
    BY <1>1, <1>2, <1>5 DEF PoolObtained, TypeOK
  <2>2. \A t \in Threads : todo'[t] = todo[t]
    BY <1>1, <1>5 DEF PoolObtained, TypeOK
  <2>3. \A t \in Threads : ThreadInv(t)'
    BY <1>1, <1>5, <2>2 DEF PoolObtained, ThreadInv, Idle, Constructing
  <2>4. FoundationsOutlive' /\ BuildInv' /\ OrderInv'
    BY <1>1, <1>5 DEF PoolObtained, FoundationsOutlive, InUse, Available, BuildInv, Builds, OrderInv
  <2>5. Started'
    BY <1>1, <1>5 DEF PoolObtained, Started, TypeOK
  <2>6. QED
    BY <2>1, <2>3, <2>4, <2>5 DEF IInv, MainInv
<1>6. CASE PoolCompletes
  <2>1. TypeOK'
    BY <1>1, <1>2, <1>6 DEF PoolCompletes, TypeOK
  <2>2. /\ FoundationsOutlive' /\ BuildInv' /\ \A t \in Threads : ThreadInv(t)'
        /\ \A f \in Foundations : life'[f] = "alive"
    BY <1>2, <1>3, <1>6 DEF PoolCompletes
  <2>3. OrderInv'
    <3>1. Len(order) # 0 /\ Len(order) # 1
      BY <1>1, FirstTwo
    <3>2. QED
      BY <1>1, <1>6, <3>1, OrderGrows DEF PoolCompletes
  <2>4. Pooling'
    BY <1>1, <1>6, <2>2 DEF Pooling, PoolCompletes, TypeOK
  <2>5. QED
    BY <2>1, <2>2, <2>3, <2>4 DEF IInv, MainInv
<1>7. CASE PoolThrows
  <2>1. TypeOK'
    BY <1>1, <1>2, <1>7 DEF PoolThrows, TypeOK
  <2>2. \A t \in Threads : todo'[t] = todo[t]
    BY <1>1, <1>7 DEF PoolThrows, TypeOK
  <2>3. FoundationsOutlive' /\ BuildInv' /\ \A t \in Threads : ThreadInv(t)'
    BY <1>2, <1>3, <1>7, <2>2 DEF PoolThrows
  <2>4. OrderInv'
    BY <1>1, <1>7, OrderKept DEF PoolThrows
  <2>5. Started'
    BY <1>1, <1>7 DEF Started, PoolThrows, TypeOK
  <2>6. QED
    BY <2>1, <2>3, <2>4, <2>5 DEF IInv, MainInv
<1>8. QED
  BY <1>4, <1>5, <1>6, <1>7, PoolStep
-----------------------------------------------------------------------------
\* A step of an io thread in GetInstance or a constructor.
LEMMA ThreadPreserves ==
  ASSUME IInv, NEW t \in Threads, Initialise(t)
  PROVE  IInv'
<1>1. /\ Main \notin Threads /\ Main \in Procs /\ Threads \subseteq Procs
      /\ TypeOK /\ OrderInv /\ BuildInv /\ FoundationsOutlive /\ MainInv
      /\ \A u \in Threads : ThreadInv(u)
      /\ Lazy \cap Foundations = {} /\ Lazy \subseteq Statics
      /\ Lazy \cap {"IOContextPool"} = {}
      /\ "IOContextPool" \in Statics /\ Foundations \subseteq Statics
  BY ConstantsAssumption, Names DEF IInv, Procs
<1>2. io[t] = "running" /\ \A f \in Foundations : life[f] = "alive"
  BY <1>1, ThreadInitialises DEF FoundationsOutlive, Available
<1>3. ~Boot
  BY <1>2 DEF Boot
<1>4. <<>> \in Seq(Lazy) /\ <<>> \in Seq(Statics) /\ <<>> \in Seq(Frames)
  OBVIOUS
<1>5. ASSUME ctor'[Main] = ctor[Main], todo'[Main] = todo[Main],
             phase' = phase,
             \A f \in Statics \ Lazy : life'[f] = life[f]
      PROVE  MainInv'
  BY <1>1, <1>3, <1>5 DEF MainInv, Pooling, Started
<1>6. ASSUME NEW s \in Lazy, NEW v \in {"none", "building", "alive"},
             life' = [life EXCEPT ![s] = v], io' = io
      PROVE  /\ \A r \in Statics : life'[r] = IF r = s THEN v ELSE life[r]
             /\ \A r \in Statics \ Lazy : life'[r] = life[r]
             /\ FoundationsOutlive'
  <2>1. \A r \in Statics : life'[r] = IF r = s THEN v ELSE life[r]
    BY <1>1, <1>6 DEF TypeOK
  <2>2. \A r \in Statics \ Lazy : life'[r] = life[r]
    BY <2>1
  <2>3. \A f \in Foundations : life'[f] = "alive"
    BY <1>1, <1>2, <2>2
  <2>4. FoundationsOutlive'
    BY <1>1, <1>6, <2>2, <2>3 DEF FoundationsOutlive, Available, Foundations
  <2>5. QED
    BY <2>1, <2>2, <2>4
<1>7. ASSUME NEW s \in Lazy, ThreadConstructs(t, s) PROVE IInv'
  <2>1. Frame(s, Needs(s)).static = s /\ Needs(s) \in LazyNeeds
    BY NeedsOf DEF Frame
  <2>2. TypeOK'
    BY <1>1, <1>7, <2>1, FrameTypes DEF ThreadConstructs, TypeOK
  <2>3. /\ \A r \in Statics : life'[r] = IF r = s THEN "building" ELSE life[r]
        /\ FoundationsOutlive' /\ MainInv'
        /\ \A u \in Procs : ctor'[u] = IF u = t THEN <<Frame(s, Needs(s))>> ELSE ctor[u]
    BY <1>1, <1>5, <1>6, <1>7 DEF ThreadConstructs, TypeOK
  <2>4. ASSUME NEW u \in Threads PROVE ThreadInv(u)'
    <3>1. CASE u = t
      <4>1. ctor'[t] = <<Frame(s, Needs(s))>> /\ life'[s] = "building"
        BY <1>1, <2>3
      <4>2. io'[t] = "running" /\ todo'[t] \in Seq(Lazy)
        BY <1>1, <1>2, <1>7 DEF ThreadInv, ThreadConstructs
      <4>3. QED
        BY <2>1, <3>1, <4>1, <4>2 DEF ThreadInv
    <3>2. CASE u # t
      BY <1>1, <1>7, <2>3, <3>2 DEF ThreadInv, ThreadConstructs, Idle, Constructing
    <3>3. QED
      BY <3>1, <3>2
  <2>5. \A u \in Threads : ~Builds(u, s)
    BY <1>1, <1>7, BuildsBuilding DEF ThreadConstructs
  <2>6. BuildInv'
    <3>1. <<Frame(s, Needs(s))>> # <<>> /\ <<Frame(s, Needs(s))>>[1] = Frame(s, Needs(s))
      OBVIOUS
    <3>2. \A u \in Threads, r \in Lazy :
             Builds(u, r)' <=> IF u = t THEN r = s ELSE Builds(u, r)
      BY <1>1, <2>1, <2>3, <3>1 DEF Builds
    <3>3. \A r \in Lazy : Builds(t, r) => FALSE
      BY <1>7 DEF Builds, ThreadConstructs
    <3>4. ctor'[Main] = ctor[Main] /\ life'["IOContextPool"] = life["IOContextPool"]
      BY <1>1, <2>3
    <3>5. ASSUME NEW r \in Lazy, life'[r] = "building" PROVE \E u \in Threads : Builds(u, r)'
      BY <1>1, <2>3, <3>2, <3>3, <3>5 DEF BuildInv
    <3>6. ASSUME NEW r \in Lazy, NEW u \in Threads, NEW w \in Threads, Builds(u, r)', Builds(w, r)'
          PROVE  u = w
      BY <1>1, <2>5, <3>2, <3>6 DEF BuildInv
    <3>7. QED
      BY <1>1, <3>4, <3>5, <3>6 DEF BuildInv
  <2>7. OrderInv'
    BY <1>1, <1>7, OrderKept DEF ThreadConstructs
  <2>8. QED
    BY <2>2, <2>3, <2>4, <2>6, <2>7 DEF IInv
<1>8. ASSUME NEW s \in Lazy, NEW needs \in LazyNeeds, ThreadObtains(t, s, needs) PROVE IInv'
  <2>1. Tail(needs) \in LazyNeeds
    BY <1>8, TailNeeds DEF ThreadObtains
  <2>2. \A u \in Procs : ctor'[u] = IF u = t THEN <<Frame(s, Tail(needs))>> ELSE ctor[u]
    BY <1>1, <1>8 DEF ThreadObtains, TypeOK
  <2>3. TypeOK'
    BY <1>1, <1>8, <2>1, FrameTypes DEF ThreadObtains, TypeOK
  <2>4. FoundationsOutlive' /\ OrderInv' /\ MainInv'
    BY <1>1, <1>5, <1>8, <2>2
    DEF ThreadObtains, FoundationsOutlive, InUse, Available, OrderInv
  <2>5. /\ Frame(s, needs).static = s /\ Frame(s, Tail(needs)).static = s
        /\ <<Frame(s, needs)>>[1] = Frame(s, needs)
        /\ <<Frame(s, Tail(needs))>>[1] = Frame(s, Tail(needs))
        /\ <<Frame(s, needs)>> # <<>> /\ <<Frame(s, Tail(needs))>> # <<>>
    BY DEF Frame
  <2>6. life[s] = "building"
    BY <1>1, <1>8, FrameBuilding DEF ThreadObtains
  <2>7. ASSUME NEW u \in Threads PROVE ThreadInv(u)'
    <3>1. CASE u = t
      <4>1. ctor'[t] = <<Frame(s, Tail(needs))>> /\ life'[s] = "building"
        BY <1>1, <1>8, <2>2, <2>6 DEF ThreadObtains
      <4>2. io'[t] = "running" /\ todo'[t] \in Seq(Lazy)
        BY <1>1, <1>2, <1>8 DEF ThreadInv, ThreadObtains
      <4>3. QED
        BY <2>1, <3>1, <4>1, <4>2 DEF ThreadInv
    <3>2. CASE u # t
      BY <1>1, <1>8, <2>2, <3>2 DEF ThreadInv, ThreadObtains, Idle, Constructing
    <3>3. QED
      BY <3>1, <3>2
  <2>8. \A u \in Threads, r \in Lazy : Builds(u, r)' <=> Builds(u, r)
    BY <1>1, <1>8, <2>2, <2>5 DEF Builds, ThreadObtains
  <2>9. BuildInv'
    BY <1>1, <1>8, <2>2, <2>8 DEF BuildInv, ThreadObtains
  <2>10. QED
    BY <2>3, <2>4, <2>7, <2>9 DEF IInv
<1>9. ASSUME NEW s \in Lazy, ThreadEnters(t, s) PROVE IInv'
  <2>1. /\ todo[t] \in Seq(Lazy) /\ todo[t] \in Seq(Statics) /\ todo[t] # <<>>
    BY <1>1, <1>9 DEF ThreadInv, ThreadEnters, TypeOK
  <2>2. Tail(todo[t]) \in Seq(Lazy) /\ Tail(todo[t]) \in Seq(Statics)
    BY <2>1
  <2>3. TypeOK'
    BY <1>1, <1>9, <2>2 DEF ThreadEnters, TypeOK
  <2>4. \A u \in Procs : todo'[u] = IF u = t THEN Tail(todo[t]) ELSE todo[u]
    BY <1>1, <1>9 DEF ThreadEnters, TypeOK
  <2>5. \A u \in Threads : u # t => inside'[u] = inside[u]
    BY <1>1, <1>9 DEF ThreadEnters, TypeOK
  <2>6. FoundationsOutlive' /\ BuildInv' /\ OrderInv' /\ MainInv'
    BY <1>1, <1>5, <1>9, <2>4
    DEF ThreadEnters, FoundationsOutlive, InUse, Available, BuildInv, Builds, OrderInv
  <2>7. ASSUME NEW u \in Threads PROVE ThreadInv(u)'
    <3>1. CASE u = t
      BY <1>1, <1>2, <1>9, <2>2, <2>4, <3>1 DEF ThreadInv, ThreadEnters
    <3>2. CASE u # t
      BY <1>1, <1>9, <2>4, <2>5, <3>2 DEF ThreadInv, ThreadEnters, Idle, Constructing
    <3>3. QED
      BY <3>1, <3>2
  <2>8. QED
    BY <2>3, <2>6, <2>7 DEF IInv
<1>10. ASSUME NEW s \in Lazy, NEW needs \in LazyNeeds, ctor[t] = <<Frame(s, needs)>>,
              ctor' = [ctor EXCEPT ![t] = <<>>],
              NEW v \in {"none", "alive"}, life' = [life EXCEPT ![s] = v],
              UNCHANGED <<io, stopped, phase, bad>>,
              todo' \in [Procs -> Seq(Statics)], inside' \in [Threads -> SUBSET Lazy],
              \A u \in Procs : u # t => todo'[u] = todo[u],
              \A u \in Threads : u # t => inside'[u] = inside[u],
              todo'[t] \in Seq(Lazy), order' \in Seq(Statics), OrderInv'
       PROVE  IInv'
  <2>1. /\ <<Frame(s, needs)>> # <<>> /\ <<Frame(s, needs)>>[1] = Frame(s, needs)
        /\ Frame(s, needs).static = s
    BY DEF Frame
  <2>2. Builds(t, s)
    BY <1>10, <2>1 DEF Builds
  <2>3. \A u \in Procs : ctor'[u] = IF u = t THEN <<>> ELSE ctor[u]
    BY <1>1, <1>10 DEF TypeOK
  <2>4. /\ \A r \in Statics : life'[r] = IF r = s THEN v ELSE life[r]
        /\ FoundationsOutlive' /\ MainInv'
    <3>1. /\ \A r \in Statics : life'[r] = IF r = s THEN v ELSE life[r]
          /\ \A r \in Statics \ Lazy : life'[r] = life[r]
          /\ FoundationsOutlive'
      <4>1. v \in {"none", "building", "alive"} /\ io' = io /\ life' = [life EXCEPT ![s] = v]
        BY <1>10
      <4>2. QED
        BY <1>6, <4>1
    <3>2. MainInv'
      BY <1>1, <1>5, <1>10, <2>3, <3>1
    <3>3. QED
      BY <3>1, <3>2
  <2>5. TypeOK'
    BY <1>1, <1>4, <1>10 DEF TypeOK
  <2>6. \A u \in Threads : u # t => ~Builds(u, s)
    BY <1>1, <2>2 DEF BuildInv
  <2>7. ASSUME NEW u \in Threads PROVE ThreadInv(u)'
    <3>1. CASE u = t
      BY <1>1, <1>2, <1>10, <2>3, <3>1 DEF ThreadInv
    <3>2. CASE u # t
      <4>1. ctor'[u] = ctor[u] /\ todo'[u] = todo[u] /\ inside'[u] = inside[u] /\ io'[u] = io[u]
        BY <1>1, <1>10, <2>3, <3>2
      <4>2. CASE ctor[u] = <<>>
        BY <1>1, <4>1, <4>2 DEF ThreadInv, Idle, Constructing
      <4>3. ASSUME NEW r \in Lazy, NEW rest \in LazyNeeds,
                   ctor[u] = <<Frame(r, rest)>>, life[r] = "building"
            PROVE  ThreadInv(u)'
        <5>1. Builds(u, r)
          BY <4>3 DEF Builds, Frame
        <5>2. life'[r] = "building"
          BY <1>1, <2>4, <2>6, <3>2, <4>3, <5>1
        <5>3. QED
          BY <1>1, <4>1, <4>3, <5>2 DEF ThreadInv, Idle, Constructing
      <4>4. QED
        BY <1>1, <4>2, <4>3 DEF ThreadInv
    <3>3. QED
      BY <3>1, <3>2
  <2>8. BuildInv'
    <3>1. \A u \in Threads, r \in Lazy : Builds(u, r)' <=> u # t /\ Builds(u, r)
      BY <1>1, <2>3 DEF Builds
    <3>2. \A r \in Lazy : Builds(t, r) => r = s
      BY <1>10, <2>1 DEF Builds
    <3>3. ASSUME NEW r \in Lazy, life'[r] = "building" PROVE \E u \in Threads : Builds(u, r)'
      <4>1. r # s /\ life[r] = "building"
        BY <1>1, <1>10, <2>4, <3>3
      <4>2. PICK u \in Threads : Builds(u, r)
        BY <1>1, <4>1 DEF BuildInv
      <4>3. QED
        BY <3>1, <3>2, <4>1, <4>2
    <3>4. ctor'[Main] = ctor[Main] /\ life'["IOContextPool"] = life["IOContextPool"]
      BY <1>1, <2>3, <2>4
    <3>5. QED
      BY <1>1, <3>1, <3>3, <3>4 DEF BuildInv
  <2>9. QED
    BY <1>10, <2>4, <2>5, <2>7, <2>8 DEF IInv
<1>11. ASSUME NEW s \in Lazy, NEW needs \in LazyNeeds, ctor[t] = <<Frame(s, needs)>>
       PROVE  life[s] = "building"
  BY <1>1, <1>11, FrameBuilding
<1>12. ASSUME NEW s \in Lazy, ThreadCompletes(t, s) PROVE IInv'
  <2>1. <<>> \in LazyNeeds /\ life[s] = "building"
    BY <1>11, <1>12 DEF LazyNeeds, ThreadCompletes
  <2>2. OrderInv'
    <3>1. Len(order) # 0 /\ Len(order) # 1
      BY <1>1, <1>2, FirstTwo
    <3>2. QED
      BY <1>1, <1>12, <2>1, <3>1, OrderGrows DEF ThreadCompletes
  <2>3. order' \in Seq(Statics) /\ todo[t] \in Seq(Lazy)
    BY <1>1, <1>12 DEF ThreadCompletes, TypeOK, ThreadInv
  <2>4. QED
    BY <1>1, <1>10, <1>12, <2>1, <2>2, <2>3 DEF ThreadCompletes, TypeOK
<1>13. ASSUME NEW s \in Lazy, NEW needs \in LazyNeeds, ThreadThrows(t, s, needs) PROVE IInv'
  <2>1. life[s] = "building"
    BY <1>11, <1>13 DEF ThreadThrows
  <2>2. OrderInv'
    BY <1>1, <1>13, <2>1, OrderKept DEF ThreadThrows
  <2>3. /\ todo' \in [Procs -> Seq(Statics)] /\ inside' \in [Threads -> SUBSET Lazy]
        /\ \A u \in Procs : u # t => todo'[u] = todo[u]
        /\ \A u \in Threads : u # t => inside'[u] = inside[u]
        /\ todo'[t] \in Seq(Lazy)
    BY <1>1, <1>4, <1>13 DEF ThreadThrows, TypeOK
  <2>4. QED
    BY <1>1, <1>10, <1>13, <2>2, <2>3 DEF ThreadThrows, TypeOK
<1>14. QED
  BY <1>7, <1>8, <1>9, <1>12, <1>13, ThreadInitialises

\* What an io thread does outside GetInstance.
LEMMA ServePreserves ==
  ASSUME IInv, NEW t \in Threads, Serve(t)
  PROVE  IInv'
<1>1. /\ Main \notin Threads /\ Main \in Procs /\ Threads \subseteq Procs
      /\ TypeOK /\ OrderInv /\ BuildInv /\ FoundationsOutlive /\ MainInv
      /\ \A u \in Threads : ThreadInv(u)
      /\ Lazy \subseteq Statics
  BY ConstantsAssumption, Names DEF IInv, Procs
<1>2. io[t] = "running"
  BY <1>1 DEF Serve, Receive, Leave, Return, EndThread, ThreadInv, Idle
<1>3. UNCHANGED <<life, order, ctor, stopped, phase, bad>>
  BY DEF Serve, Receive, Leave, Return, EndThread
<1>4. /\ todo' \in [Procs -> Seq(Statics)] /\ todo'[t] \in Seq(Lazy)
      /\ \A u \in Procs : u # t => todo'[u] = todo[u]
  <2>1. CASE UNCHANGED todo
    BY <1>1, <2>1 DEF TypeOK, ThreadInv
  <2>2. CASE todo' = [todo EXCEPT ![t] = <<>>]
    BY <1>1, <2>2 DEF TypeOK
  <2>3. CASE Receive(t)
    <3>1. PICK r \in Routes : todo' = [todo EXCEPT ![t] = <<"LogicSystem">> \o r]
      BY <2>3 DEF Receive
    <3>2. /\ \A s \in Lazy : <<s>> \in Seq(Lazy)
          /\ \A s, u \in Lazy : <<s, u>> \in Seq(Lazy)
          /\ <<>> \in Seq(Lazy)
      OBVIOUS
    <3>3. r \in Seq(Lazy) /\ <<"LogicSystem">> \in Seq(Lazy)
      BY <3>2 DEF Routes, Lazy
    <3> DEFINE calls == <<"LogicSystem">> \o r
    <3>4. calls \in Seq(Lazy)
      BY <3>3
    <3>5. calls \in Seq(Statics)
      BY <1>1, <3>4
    <3>6. todo' = [todo EXCEPT ![t] = calls]
      BY <3>1
    <3> HIDE DEF calls
    <3>7. QED
      BY <1>1, <3>4, <3>5, <3>6 DEF TypeOK
  <2>4. QED
    BY <2>1, <2>2, <2>3 DEF Serve, Leave, Return, EndThread
<1>5. /\ inside' \in [Threads -> SUBSET Lazy]
      /\ \A u \in Threads : u # t => inside'[u] = inside[u]
  <2>1. PICK now \in SUBSET Lazy : inside' = inside \/ inside' = [inside EXCEPT ![t] = now]
    BY DEF Serve, Receive, Leave, Return, EndThread, Lazy
  <2>2. QED
    BY <1>1, <2>1 DEF TypeOK
<1>6. /\ io' \in [Threads -> {"none", "running", "ended"}]
      /\ \A u \in Threads : u # t => io'[u] = io[u]
      /\ io'[t] # "running" => Idle(t)'
      /\ \A u \in Threads : io'[u] = "running" => io[u] = "running"
  <2>1. CASE UNCHANGED io
    BY <1>1, <1>2, <2>1 DEF TypeOK
  <2>2. CASE EndThread(t)
    BY <1>1, <2>2 DEF EndThread, TypeOK, Idle, Constructing
  <2>3. QED
    BY <2>1, <2>2 DEF Serve, Receive, Leave, Return
<1>7. TypeOK'
  BY <1>1, <1>3, <1>4, <1>5, <1>6 DEF TypeOK
<1>8. FoundationsOutlive' /\ BuildInv' /\ OrderInv'
  BY <1>1, <1>3, <1>6 DEF FoundationsOutlive, InUse, Available, BuildInv, Builds, OrderInv
<1>9. MainInv'
  <2>1. ~Boot
    BY <1>2 DEF Boot
  <2>2. QED
    BY <1>1, <1>3, <1>4, <2>1 DEF MainInv, Pooling, Started
<1>10. ASSUME NEW u \in Threads PROVE ThreadInv(u)'
  <2>1. CASE u = t
    BY <1>1, <1>3, <1>4, <1>6, <2>1 DEF ThreadInv
  <2>2. CASE u # t
    <3>1. /\ ctor'[u] = ctor[u] /\ life' = life /\ todo'[u] = todo[u] /\ inside'[u] = inside[u]
          /\ io'[u] = io[u]
      BY <1>1, <1>3, <1>4, <1>5, <1>6, <2>2
    <3>2. QED
      BY <1>1, <3>1 DEF ThreadInv, Idle, Constructing
  <2>3. QED
    BY <2>1, <2>2
<1>11. QED
  BY <1>7, <1>8, <1>9, <1>10 DEF IInv

\* main between its start and exit().
LEMMA MainPreserves ==
  ASSUME IInv, StartFails \/ Run \/ Signal \/ Exit
  PROVE  IInv'
<1>1. /\ Main \notin Threads /\ Main \in Procs /\ Threads \subseteq Procs
      /\ TypeOK /\ OrderInv /\ BuildInv /\ FoundationsOutlive /\ MainInv
      /\ \A u \in Threads : ThreadInv(u)
  BY ConstantsAssumption DEF IInv, Procs
<1>2. UNCHANGED <<life, order, ctor, inside, io, stopped, bad>>
  BY DEF StartFails, Run, Signal, Exit
<1>3. /\ todo' \in [Procs -> Seq(Statics)] /\ \A t \in Threads : todo'[t] = todo[t]
      /\ phase' \in {"init", "run", "exit", "gone", "aborted"}
  <2>1. todo' = todo \/ todo' = [todo EXCEPT ![Main] = <<>>]
    BY DEF StartFails, Run, Signal, Exit
  <2>2. phase' \in {"init", "run", "exit", "gone", "aborted"}
    BY DEF StartFails, Run, Signal, Exit
  <2>3. <<>> \in Seq(Statics) /\ todo \in [Procs -> Seq(Statics)]
    BY <1>1 DEF TypeOK
  <2>4. CASE todo' = [todo EXCEPT ![Main] = <<>>]
    BY <1>1, <2>2, <2>3, <2>4
  <2>5. QED
    BY <2>1, <2>2, <2>3, <2>4
<1>4. Started'
  <2>1. /\ <<"IOContextPool">> # <<"ConfigManager", "IOContextPool">>
        /\ <<"IOContextPool">> # <<>> /\ <<"ConfigManager", "IOContextPool">> # <<>>
    <3>1. Len(<<"IOContextPool">>) = 1 /\ Len(<<"ConfigManager", "IOContextPool">>) = 2
      OBVIOUS
    <3>2. QED
      BY <3>1
  <2>2. CASE StartFails
    BY <1>1, <2>2 DEF StartFails, Started, Constructing, TypeOK
  <2>3. CASE Run \/ Signal \/ Exit
    <3>1. Started
      BY <1>1, <2>1, <2>3 DEF Run, Signal, Exit, MainInv, Boot, Pooling
    <3>2. QED
      BY <1>2, <2>3, <3>1 DEF Started, Run, Signal, Exit
  <2>4. QED
    BY <2>2, <2>3
<1>5. TypeOK'
  BY <1>1, <1>2, <1>3 DEF TypeOK
<1>6. FoundationsOutlive' /\ BuildInv' /\ OrderInv'
  BY <1>1, <1>2 DEF FoundationsOutlive, InUse, Available, BuildInv, Builds, OrderInv
<1>7. \A t \in Threads : ThreadInv(t)'
  BY <1>1, <1>2, <1>3 DEF ThreadInv, Idle, Constructing
<1>8. QED
  BY <1>4, <1>5, <1>6, <1>7 DEF IInv, MainInv
-----------------------------------------------------------------------------
\* exit() begins a destructor.  Before it gets to ConfigManager the threads are joined, so
\* that nothing is under construction, and every other static is destroyed.
LEMMA DestroyPreserves ==
  ASSUME IInv, Destroy
  PROVE  IInv'
<1> DEFINE last == order[Len(order)]
<1>1. /\ TypeOK /\ OrderInv /\ BuildInv /\ FoundationsOutlive /\ MainInv
      /\ \A u \in Threads : ThreadInv(u)
  BY DEF IInv
<1>2. /\ last \in Statics /\ life[last] = "alive"
      /\ order' \in Seq(Statics) /\ OrderInv'
  BY <1>1, OrderShrinks
<1>3. /\ phase = "exit" /\ order # <<>> /\ \A s \in Statics : life[s] # "destroying"
      /\ life' = [life EXCEPT ![last] = "destroying"]
      /\ UNCHANGED <<ctor, todo, inside, io, phase, bad>>
  BY DEF Destroy, Destroying
<1>4. \A r \in Statics : life'[r] = IF r = last THEN "destroying" ELSE life[r]
  BY <1>1, <1>3 DEF TypeOK
<1>5. Started
  BY <1>1, <1>3 DEF MainInv, Boot, Pooling
<1>6. TypeOK'
  BY <1>1, <1>2, <1>3 DEF TypeOK, Destroy
<1>7. ASSUME NEW t \in Threads PROVE ThreadInv(t)'
  <2>1. \A s \in Lazy : life[s] = "building" => life'[s] = "building"
    BY <1>2, <1>4, Names
  <2>2. QED
    BY <1>1, <1>3, <2>1 DEF ThreadInv, Idle, Constructing
<1>8. BuildInv'
  <2>1. \A s \in Statics : life'[s] = "building" => life[s] = "building"
    BY <1>4
  <2>2. QED
    BY <1>1, <1>3, <2>1, Names DEF BuildInv, Builds
<1>9. Started'
  BY <1>3, <1>5 DEF Started
<1>10. FoundationsOutlive'
  <2>1. CASE last \notin Foundations
    <3>1. \A f \in Foundations : life'[f] = life[f]
      BY <1>4, <2>1, Names
    <3>2. \A s \in Statics : InUse(s)' => InUse(s)
      BY <1>2, <1>4 DEF InUse
    <3>3. life["IOContextPool"] \in {"alive", "destroying"}
             => life'["IOContextPool"] \in {"alive", "destroying"}
      BY <1>4, Names
    <3>4. QED
      BY <1>1, <1>3, <3>1, <3>2, <3>3 DEF FoundationsOutlive, InUse, Available, Foundations
  <2>2. CASE last \in Foundations
    <3>1. Len(order) \in Nat /\ Len(order) >= 1
      BY <1>1, <1>3 DEF TypeOK
    <3>2. Len(order) \in {1, 2}
      <4>1. CASE Len(order) >= 3
        <5>1. /\ order[1] = "Logger" /\ order[2] = "ConfigManager"
              /\ 1 \in 1..Len(order) /\ 2 \in 1..Len(order) /\ Len(order) \in 1..Len(order)
          BY <1>1, <3>1, <4>1 DEF OrderInv
        <5>2. last # "Logger" /\ last # "ConfigManager"
          BY <1>1, <3>1, <4>1, <5>1 DEF OrderInv
        <5>3. QED
          BY <2>2, <5>2 DEF Foundations
      <4>2. \A n \in Nat : n >= 1 => n \in {1, 2} \/ n >= 3
        OBVIOUS
      <4>3. QED
        BY <3>1, <4>1, <4>2
    <3>3. \A i \in 1..Len(order) : order[i] \in Foundations
      BY <1>1, <3>2 DEF OrderInv, Foundations
    <3>4. \A s \in Statics \ Foundations : life[s] # "alive"
      BY <1>1, <3>3 DEF OrderInv
    <3>5. \A t \in Threads : io[t] # "running"
      BY <1>1, <1>3, <3>4, Names DEF FoundationsOutlive
    <3>6. \A t \in Threads, s \in Lazy : ~Builds(t, s)
      BY <1>1, <3>5 DEF ThreadInv, Idle, Constructing, Builds
    <3>7. \A s \in Statics \ Foundations : life[s] # "building"
      <4>1. \A s \in Lazy : life[s] # "building"
        BY <1>1, <3>6 DEF BuildInv
      <4>2. life["IOContextPool"] # "building"
        <5>1. <<Frame("IOContextPool", <<>>)>> # <<>>
          OBVIOUS
        <5>2. QED
          BY <1>1, <1>5, <5>1 DEF BuildInv, Started
      <4>3. QED
        BY <4>1, <4>2, Names
    <3>8. \A s \in Statics \ Foundations : ~InUse(s)'
      BY <1>3, <1>4, <2>2, <3>4, <3>7 DEF InUse
    <3>9. life'["ConfigManager"] # "building" /\ InUse("ConfigManager")' => Available("Logger")'
      <4>1. CASE last = "ConfigManager"
        <5>1. Len(order) = 2 /\ order[1] = "Logger"
          BY <1>1, <3>1, <3>2, <4>1 DEF OrderInv
        <5>2. life["Logger"] = "alive"
          BY <1>1, <5>1 DEF OrderInv
        <5>3. QED
          BY <1>4, <4>1, <5>2, Names DEF Available, Foundations
      <4>2. CASE last = "Logger"
        <5>1. Len(order) = 1
          <6>1. CASE Len(order) = 2
            BY <1>1, <4>2, <6>1 DEF OrderInv
          <6>2. QED
            BY <3>2, <6>1
        <5>2. life["ConfigManager"] # "alive"
          BY <1>1, <4>2, <5>1, Names DEF OrderInv, Foundations
        <5>3. QED
          BY <1>3, <1>4, <4>2, <5>2, Names DEF InUse, Foundations
      <4>3. QED
        BY <2>2, <4>1, <4>2 DEF Foundations
    <3>10. QED
      BY <1>3, <3>5, <3>8, <3>9 DEF FoundationsOutlive
  <2>3. QED
    BY <2>1, <2>2
<1>11. QED
  BY <1>2, <1>6, <1>7, <1>8, <1>9, <1>10 DEF IInv, MainInv

\* A destructor ends.
LEMMA DestroyedPreserves ==
  ASSUME IInv, NEW s \in Statics, Destroyed(s)
  PROVE  IInv'
<1>1. /\ TypeOK /\ OrderInv /\ BuildInv /\ FoundationsOutlive /\ MainInv
      /\ \A u \in Threads : ThreadInv(u)
      /\ life[s] = "destroying" /\ life' = [life EXCEPT ![s] = "destroyed"]
      /\ s = "IOContextPool" => \A t \in Threads : io[t] # "running"
      /\ UNCHANGED <<order, ctor, todo, inside, io, stopped, phase, bad>>
  BY DEF IInv, Destroyed
<1>2. \A r \in Statics : life'[r] = IF r = s THEN "destroyed" ELSE life[r]
  BY <1>1 DEF TypeOK
<1>3. TypeOK'
  BY <1>1 DEF TypeOK
<1>4. OrderInv'
  BY <1>1, OrderKept
<1>5. \A t \in Threads : ThreadInv(t)'
  BY <1>1, <1>2, Names DEF ThreadInv, Idle, Constructing
<1>6. BuildInv'
  BY <1>1, <1>2, Names DEF BuildInv, Builds
<1>7. FoundationsOutlive'
  <2>1. \A r \in Statics : life[r] = "alive" => life'[r] = "alive"
    BY <1>1, <1>2
  <2>2. \A r \in Statics : InUse(r)' => InUse(r)
    BY <1>2 DEF InUse
  <2>3. s # "IOContextPool" => life'["IOContextPool"] = life["IOContextPool"]
    BY <1>2, Names
  <2>4. life'["ConfigManager"] # "building" => life["ConfigManager"] # "building"
    BY <1>1, <1>2, Names DEF Foundations
  <2>5. QED
    BY <1>1, <2>1, <2>2, <2>3, <2>4, Names DEF FoundationsOutlive, Available, Foundations, InUse
<1>8. MainInv'
  <2>1. ~Boot
    <3>1. Boot => \A r \in Statics : life[r] # "destroying"
      BY Names DEF Boot, BootStage, Foundations
    <3>2. QED
      BY <1>1, <3>1
  <2>2. CASE Pooling
    <3>1. s \notin Foundations
      BY <1>1, <2>2 DEF Pooling
    <3>2. QED
      BY <1>1, <1>2, <2>2, <3>1, Names DEF Pooling, MainInv
  <2>3. CASE Started
    BY <1>1, <2>3 DEF Started, MainInv
  <2>4. QED
    BY <1>1, <2>1, <2>2, <2>3 DEF MainInv
<1>9. QED
  BY <1>3, <1>4, <1>5, <1>6, <1>7, <1>8 DEF IInv

LEMMA Preserved == IInv /\ [Next]_vars => IInv'
<1> SUFFICES ASSUME IInv, [Next]_vars PROVE IInv'
  OBVIOUS
<1>1. CASE UNCHANGED vars
  BY <1>1 DEF vars, IInv, TypeOK, FoundationsOutlive, InUse, Available, ThreadInv, Idle,
              Constructing, BuildInv, Builds, OrderInv, MainInv, Boot, BootStage, Pooling, Started
<1>2. ASSUME NEW p \in Procs, Initialise(p) PROVE IInv'
  <2>1. CASE p \in Threads
    BY <1>2, <2>1, ThreadPreserves
  <2>2. CASE p = Main
    BY <1>2, <2>2, BootPreserves, PoolPreserves, StartedStep DEF IInv, MainInv
  <2>3. QED
    BY <2>1, <2>2 DEF Procs
<1>3. ASSUME NEW t \in Threads, Serve(t) PROVE IInv'
  BY <1>3, ServePreserves
<1>4. CASE StartFails \/ Run \/ Signal \/ Exit
  BY <1>4, MainPreserves
<1>5. CASE Destroy
  BY <1>5, DestroyPreserves
<1>6. ASSUME NEW s \in Statics, Destroyed(s) PROVE IInv'
  BY <1>6, DestroyedPreserves
<1>7. QED
  BY <1>1, <1>2, <1>3, <1>4, <1>5, <1>6 DEF Next, ExitStep, Terminating
-----------------------------------------------------------------------------
\* The inductive invariant holds of every behaviour of the statics.
THEOREM Inductive == Spec => []IInv
<1>1. QED
  BY InitIInv, Preserved, PTL DEF Spec

\* The statics, the constructors under way and the threads keep their types.
THEOREM TypeCorrect == Spec => []TypeOK
<1>1. IInv => TypeOK
  BY DEF IInv
<1>2. QED
  BY Inductive, <1>1, PTL

\* Whatever an io thread, a constructor or a destructor other than their own does, Logger
\* and ConfigManager are there, although only the first line of main sees to it
\* (EveryOne.cc:13); and io threads run only while IOContextPool is there.
THEOREM FoundationsKept == Spec => []FoundationsOutlive
<1>1. IInv => FoundationsOutlive
  BY DEF IInv
<1>2. QED
  BY Inductive, <1>1, PTL
-----------------------------------------------------------------------------
\* A constructor in an io thread asks for Logger and ConfigManager only, which are complete.
LEMMA ThreadConstructorsGoOn ==
  ASSUME IInv, NEW t \in Threads, ctor[t] # <<>>, NEW s \in Statics
  PROVE  ~Awaits(t, s)
<1> SUFFICES ASSUME Awaits(t, s) PROVE FALSE
  OBVIOUS
<1>1. PICK r \in Lazy, needs \in LazyNeeds : ctor[t] = <<Frame(r, needs)>> /\ life[r] = "building"
  BY DEF IInv, ThreadInv
<1>2. Constructing(t) /\ Top(t).needs = needs
  BY <1>1, InOne DEF Frame
<1>3. needs # <<>> /\ Head(needs) = s
  BY <1>2 DEF Awaits, Wants, Code
<1>4. s \in Foundations /\ life[s] = "building"
  BY <1>3, TailNeeds DEF Awaits
<1>5. InUse(r) /\ r \in Statics \ Foundations
  BY <1>1, Names DEF InUse
<1>6. Available(s)
  BY <1>4, <1>5 DEF IInv, FoundationsOutlive
<1>7. QED
  BY <1>4, <1>6 DEF Available

\* Main waits for nobody: what its code asks for next, no other thread constructs.
LEMMA MainGoesOn ==
  ASSUME IInv, NEW s \in Statics
  PROVE  ~Awaits(Main, s)
<1> SUFFICES ASSUME Awaits(Main, s) PROVE FALSE
  OBVIOUS
<1>1. /\ Code(Main) # <<>> /\ Head(Code(Main)) = s /\ life[s] = "building"
      /\ Main \notin Threads /\ BuildInv /\ MainInv
  BY ConstantsAssumption DEF Awaits, Wants, IInv
<1>2. ctor[Main] = <<>> => Code(Main) = todo[Main]
  BY <1>1 DEF Code, Constructing
<1>3. ASSUME NEW r, NEW needs, ctor[Main] = <<Frame(r, needs)>> PROVE Code(Main) = needs
  <2>1. Constructing(Main) /\ Top(Main).needs = needs
    BY <1>3, InOne DEF Frame
  <2>2. QED
    BY <2>1 DEF Code
<1>4. ~Started
  BY <1>1, <1>2 DEF Started
<1>5. CASE Pooling
  <2>1. CASE ctor[Main] = <<>>
    <3>1. s = "IOContextPool"
      BY <1>1, <1>2, <1>5, <2>1 DEF Pooling
    <3>2. ctor[Main] = <<Frame("IOContextPool", <<>>)>>
      BY <1>1, <3>1 DEF BuildInv
    <3>3. <<Frame("IOContextPool", <<>>)>> # <<>>
      OBVIOUS
    <3>4. QED
      BY <2>1, <3>2, <3>3
  <2>2. CASE ctor[Main] = <<Frame("IOContextPool", <<>>)>>
    BY <1>1, <1>3, <2>2
  <2>3. QED
    BY <1>5, <2>1, <2>2 DEF Pooling
<1>6. CASE Boot
  <2> DEFINE reading == Frame("ConfigManager", <<"Logger">>)
             read == Frame("ConfigManager", <<>>)
             opening == Frame("Logger", <<>>)
  <2>1. ctor[Main] = <<>> => s = "ConfigManager"
    <3>1. Head(<<"ConfigManager", "IOContextPool">>) = "ConfigManager"
      OBVIOUS
    <3>2. todo[Main] = <<"ConfigManager", "IOContextPool">>
      BY <1>6 DEF Boot
    <3>3. QED
      BY <1>1, <1>2, <3>1, <3>2, Zenon
  <2>2. ctor[Main] = <<reading>> => s = "Logger"
    <3>1. Head(<<"Logger">>) = "Logger"
      OBVIOUS
    <3>2. QED
      BY <1>1, <1>3, <3>1, Zenon
  <2>3. ctor[Main] # <<read>>
    BY <1>1, <1>3, Zenon
  <2>4. ctor[Main] # <<reading, opening>>
    <3>1. SUFFICES ASSUME ctor[Main] = <<reading, opening>> PROVE FALSE
      OBVIOUS
    <3>2. Constructing(Main) /\ Top(Main) = opening
      BY <3>1, InTwo
    <3>3. Code(Main) = <<>>
      BY <3>2 DEF Code, Frame
    <3>4. QED
      BY <1>1, <3>3
  <2> HIDE DEF reading, read, opening
  <2>5. CASE BootStage(<<>>, <<>>, "none", "none")
    BY <1>1, <2>1, <2>5 DEF BootStage
  <2>6. CASE BootStage(<<reading>>, <<>>, "building", "none")
    BY <1>1, <2>2, <2>6 DEF BootStage
  <2>7. CASE BootStage(<<reading, opening>>, <<>>, "building", "building")
    BY <2>4, <2>7 DEF BootStage
  <2>8. CASE BootStage(<<reading>>, <<"Logger">>, "building", "alive")
    BY <1>1, <2>2, <2>8 DEF BootStage
  <2>9. CASE BootStage(<<read>>, <<"Logger">>, "building", "alive")
    BY <2>3, <2>9 DEF BootStage
  <2>10. CASE BootStage(<<>>, <<"Logger", "ConfigManager">>, "alive", "alive")
    BY <1>1, <2>1, <2>10 DEF BootStage
  <2>11. QED
    BY <1>6, <2>5, <2>6, <2>7, <2>8, <2>9, <2>10 DEF Boot, reading, read, opening
<1>7. QED
  BY <1>1, <1>4, <1>5, <1>6 DEF MainInv

\* Only the code of a request waits in GetInstance, and the thread whose constructor it
\* waits for does not wait: no chain and no cycle of GetInstance calls (singleton.h:19).
THEOREM NoCycle == Spec => []WaitsAreShort
<1>1. ASSUME IInv PROVE WaitsAreShort
  <2> SUFFICES ASSUME NEW p \in Procs, NEW s \in Statics, Awaits(p, s)
               PROVE  \E q \in Procs \ {p} : Within(q, s) /\ ~\E r \in Statics : Awaits(q, r)
    BY DEF WaitsAreShort
  <2>1. p \in Threads /\ ctor[p] = <<>>
    BY <1>1, ThreadConstructorsGoOn, MainGoesOn DEF Procs
  <2>2. todo[p] \in Seq(Lazy) /\ todo[p] # <<>> /\ s = Head(todo[p]) /\ life[s] = "building"
    BY <1>1, <2>1 DEF Awaits, Wants, Code, Constructing, IInv, ThreadInv
  <2>3. s \in Lazy
    BY <2>2
  <2>4. PICK q \in Threads : Builds(q, s)
    BY <1>1, <2>2, <2>3 DEF IInv, BuildInv
  <2>5. ctor[q] # <<>> /\ ctor[q][1].static = s /\ q # p
    BY <2>1, <2>4 DEF Builds
  <2>6. Within(q, s)
    <3>1. ctor[q] \in Seq(Frames)
      BY <1>1 DEF IInv, TypeOK, Procs
    <3>2. 1 \in DOMAIN ctor[q]
      BY <2>5, <3>1
    <3>3. QED
      BY <2>5, <3>2 DEF Within
  <2>7. ~\E r \in Statics : Awaits(q, r)
    BY <1>1, <2>5, ThreadConstructorsGoOn
  <2>8. QED
    BY <2>5, <2>6, <2>7 DEF Procs
<1>2. QED
  BY Inductive, <1>1, PTL
-----------------------------------------------------------------------------
(* The end of the process.                                                 *)

\* Once main is through with its start, nobody constructs a foundation any more.
FoundedInv == Started => \A f \in Foundations : life[f] # "building"

\* When exit() has gone through the list, nothing was added to it behind its back.
GoneInv == phase = "gone" => order = <<>> /\ ~Destroying

EndInv == FoundedInv /\ GoneInv

\* main is started as soon as its phase says that it is.
LEMMA LeftInit == ASSUME IInv, phase # "init" PROVE Started
BY DEF IInv, MainInv, Boot, Pooling

\* With the list empty and no destructor under way, no thread runs: IOContextPool, which
\* every io thread needs, is in the list or being destroyed.  And without threads nothing is
\* under construction.
LEMMA AtRest ==
  ASSUME IInv, FoundedInv, phase # "init", order = <<>>, ~Destroying
  PROVE  /\ \A t \in Threads : io[t] # "running" /\ Idle(t)
         /\ \A s \in Statics : life[s] \in {"none", "destroyed"}
<1>1. \A s \in Statics : life[s] # "alive" /\ life[s] # "destroying"
  BY DEF IInv, OrderInv, Destroying
<1>2. \A t \in Threads : io[t] # "running" /\ Idle(t)
  BY <1>1, Names DEF IInv, FoundationsOutlive, ThreadInv
<1>3. Started
  BY LeftInit
<1>4. ASSUME NEW s \in Statics PROVE life[s] # "building"
  <2>1. CASE s \in Lazy
    BY <1>2, <2>1 DEF IInv, BuildInv, Builds, Idle, Constructing
  <2>2. CASE s = "IOContextPool"
    <3>1. <<Frame("IOContextPool", <<>>)>> # <<>>
      OBVIOUS
    <3>2. QED
      BY <1>3, <2>2, <3>1 DEF IInv, BuildInv, Started
  <2>3. CASE s \in Foundations
    BY <1>3, <2>3 DEF FoundedInv
  <2>4. QED
    BY <2>1, <2>2, <2>3 DEF Statics
<1>5. QED
  BY <1>1, <1>2, <1>4 DEF IInv, TypeOK

\* Nothing moves in a process that has ended.
LEMMA GoneStays ==
  ASSUME IInv, EndInv, phase = "gone", [Next]_vars
  PROVE  UNCHANGED vars
<1>1. /\ Started /\ order = <<>> /\ ~Destroying
      /\ \A t \in Threads : io[t] # "running" /\ Idle(t)
  BY LeftInit, AtRest DEF EndInv, GoneInv
<1>2. ASSUME NEW p \in Procs, Initialise(p) PROVE FALSE
  <2>1. CASE p \in Threads
    BY <1>1, <1>2, <2>1, ThreadInitialises
  <2>2. CASE p = Main
    BY <1>1, <1>2, <2>2, StartedStep
  <2>3. QED
    BY <2>1, <2>2 DEF Procs
<1>3. ASSUME NEW t \in Threads, Serve(t) PROVE FALSE
  BY <1>1, <1>3 DEF Serve, Receive, Leave, Return, EndThread, Idle
<1>4. ASSUME StartFails \/ Run \/ Signal \/ Destroy \/ Exit PROVE FALSE
  BY <1>4 DEF StartFails, Run, Signal, Destroy, Exit
<1>5. ASSUME NEW s \in Statics, Destroyed(s) PROVE FALSE
  BY <1>1, <1>5 DEF Destroyed, Destroying
<1>6. QED
  BY <1>2, <1>3, <1>4, <1>5 DEF Next, ExitStep, Terminating

\* Threads and destructors leave the foundations as they are, or destroy them.
LEMMA FoundedStep ==
  ASSUME IInv, FoundedInv, [Next]_vars
  PROVE  FoundedInv'
<1>1. /\ Main \notin Threads /\ Main \in Procs /\ Threads \subseteq Procs /\ TypeOK
      /\ Foundations \subseteq Statics /\ Lazy \cap Foundations = {}
      /\ "IOContextPool" \notin Foundations
  BY ConstantsAssumption, Names DEF IInv, Procs
<1>2. ASSUME \A f \in Foundations : life'[f] = "building" => life[f] = "building",
             Started \/ \A f \in Foundations : life[f] # "building"
      PROVE  FoundedInv'
  BY <1>2 DEF FoundedInv
<1>3. ASSUME NEW t \in Threads, Initialise(t) PROVE FoundedInv'
  <2>1. \A f \in Foundations : life[f] = "alive"
    BY <1>3, ThreadInitialises DEF IInv, FoundationsOutlive, Available
  <2>2. PICK s \in Lazy :
           \/ ThreadConstructs(t, s)
           \/ ThreadEnters(t, s)
           \/ ThreadCompletes(t, s)
           \/ \E needs \in LazyNeeds : ThreadObtains(t, s, needs) \/ ThreadThrows(t, s, needs)
    BY <1>3, ThreadInitialises
  <2>3. \/ life' = life
        \/ \E v \in {"none", "building", "alive"} : life' = [life EXCEPT ![s] = v]
    BY <2>2 DEF ThreadConstructs, ThreadEnters, ThreadCompletes, ThreadObtains, ThreadThrows
  <2>4. \A f \in Foundations : life'[f] = life[f]
    BY <1>1, <2>3 DEF TypeOK
  <2>5. QED
    BY <1>2, <2>1, <2>4
<1>4. ASSUME Initialise(Main) PROVE FoundedInv'
  <2>1. CASE Boot
    <3>1. CASE BootAdvances \/ BootEnds
      <4>1. todo' = todo \/ todo' = [todo EXCEPT ![Main] = <<"IOContextPool">>]
        BY <3>1 DEF BootAdvances, BootEnds
      <4>2. <<"IOContextPool">> # <<>> /\ <<"ConfigManager", "IOContextPool">> # <<>>
        OBVIOUS
      <4>3. todo'[Main] # <<>>
        BY <1>1, <2>1, <4>1, <4>2 DEF Boot, TypeOK
      <4>4. QED
        BY <4>3 DEF FoundedInv, Started
    <3>2. CASE BootAborts
      BY <1>1, <3>2 DEF BootAborts, TypeOK, FoundedInv, Foundations
    <3>3. QED
      BY <1>4, <2>1, <3>1, <3>2, BootStep
  <2>2. CASE Pooling
    <3>1. life' = life \/ \E v \in {"none", "building", "alive"} :
                             life' = [life EXCEPT !["IOContextPool"] = v]
      BY <1>4, <2>2, PoolStep DEF PoolBuilds, PoolObtained, PoolCompletes, PoolThrows
    <3>2. \A f \in Foundations : life'[f] = life[f]
      BY <1>1, <3>1 DEF TypeOK
    <3>3. QED
      BY <1>2, <2>2, <3>2 DEF Pooling
  <2>3. QED
    BY <1>4, <2>1, <2>2, StartedStep DEF IInv, MainInv
<1>5. ASSUME NEW t \in Threads, Serve(t) PROVE FoundedInv'
  <2>1. UNCHANGED <<life, ctor>> /\ todo'[Main] = todo[Main]
    BY <1>1, <1>5 DEF Serve, Receive, Leave, Return, EndThread, TypeOK
  <2>2. QED
    BY <2>1 DEF FoundedInv, Started
<1>6. CASE StartFails
  <2>1. Pooling
    <3>1. <<"IOContextPool">> # <<"ConfigManager", "IOContextPool">> /\ <<"IOContextPool">> # <<>>
      <4>1. Len(<<"IOContextPool">>) = 1 /\ Len(<<"ConfigManager", "IOContextPool">>) = 2
        OBVIOUS
      <4>2. QED
        BY <4>1
    <3>2. QED
      BY <1>6, <3>1 DEF StartFails, IInv, MainInv, Boot, Started
  <2>2. QED
    BY <1>2, <1>6, <2>1 DEF StartFails, Pooling
<1>7. CASE Run \/ Signal \/ Exit \/ UNCHANGED vars
  BY <1>7 DEF Run, Signal, Exit, vars, FoundedInv, Started
<1>8. ASSUME Destroy \/ \E s \in Statics : Destroyed(s) PROVE FoundedInv'
  <2>1. UNCHANGED <<todo, ctor>>
    BY <1>8 DEF Destroy, Destroyed
  <2>2. \E s, v : v # "building" /\ life' = [life EXCEPT ![s] = v]
    BY <1>8 DEF Destroy, Destroyed
  <2>3. \A f \in Foundations : life'[f] = "building" => life[f] = "building"
    BY <1>1, <2>2 DEF TypeOK
  <2>4. QED
    BY <2>1, <2>3 DEF FoundedInv, Started
<1>9. QED
  BY <1>3, <1>4, <1>5, <1>6, <1>7, <1>8 DEF Next, ExitStep, Procs, Terminating

\* Only Exit ends the process, with the list empty and no destructor under way.
LEMMA GoneStep ==
  ASSUME IInv, EndInv, [Next]_vars
  PROVE  GoneInv'
<1>1. CASE phase = "gone"
  BY <1>1, GoneStays DEF EndInv, GoneInv, Destroying, vars
<1>2. CASE phase # "gone"
  <2>1. CASE Exit
    BY <2>1 DEF Exit, GoneInv, Destroying
  <2>2. ASSUME NEW p \in Procs, Initialise(p) PROVE phase' # "gone"
    <3>1. phase' \in {phase, "aborted", "exit"}
      BY <2>2 DEF Initialise, Construct, Obtain, Complete, Throw
    <3>2. QED
      BY <1>2, <3>1
  <2>3. ASSUME NEW t \in Threads, Serve(t) PROVE phase' # "gone"
    BY <1>2, <2>3 DEF Serve, Receive, Leave, Return, EndThread
  <2>4. ASSUME StartFails \/ Run \/ Signal \/ Destroy \/ UNCHANGED vars PROVE phase' # "gone"
    BY <1>2, <2>4 DEF StartFails, Run, Signal, Destroy, vars
  <2>5. ASSUME NEW s \in Statics, Destroyed(s) PROVE phase' # "gone"
    BY <1>2, <2>5 DEF Destroyed
  <2>6. QED
    BY <2>1, <2>2, <2>3, <2>4, <2>5 DEF Next, ExitStep, Terminating, GoneInv
<1>3. QED
  BY <1>1, <1>2

LEMMA EndInvariance == Spec => [](IInv /\ EndInv)
<1>1. Init => EndInv
  <2>1. ASSUME Init PROVE phase = "init" /\ todo[Main] = <<"ConfigManager", "IOContextPool">>
    BY <2>1 DEF Init, Procs
  <2>2. <<"ConfigManager", "IOContextPool">> # <<>>
    OBVIOUS
  <2>3. QED
    BY <2>1, <2>2 DEF EndInv, FoundedInv, GoneInv, Started
<1>2. IInv /\ EndInv /\ [Next]_vars => EndInv'
  BY FoundedStep, GoneStep DEF EndInv
<1>3. QED
  BY <1>1, <1>2, Inductive, PTL DEF Spec

\* Whatever io threads construct while exit() is under way, a process that ends by it
\* (EveryOne.cc: main returns) has joined its threads and destroyed every static that was
\* complete; it leaves none half constructed.
THEOREM EndsClean == Spec => [](phase = "gone" => CleanEnd)
<1>1. IInv /\ EndInv => (phase = "gone" => CleanEnd)
  BY AtRest DEF EndInv, GoneInv, CleanEnd
<1>2. QED
  BY <1>1, EndInvariance, PTL
=============================================================================
