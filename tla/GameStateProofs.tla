----------------------------- MODULE GameStateProofs ----------------------------
(***************************************************************************)
(* Proofs about GameState, for any players and staff, any states asked     *)
(* for from outside, and any number of tasks waiting.                      *)
(***************************************************************************)
EXTENDS GameState, FiniteSetTheorems, SequenceTheorems, TLAPS

(* What is said of a queue of tasks.                                       *)
Holds(q, t) == \E i \in DOMAIN q : q[i] = t
Sole(q, t) == \A i, j \in DOMAIN q : q[i] = t /\ q[j] = t => i = j
NoneBehind(q, t, u) == \A i, j \in DOMAIN q : q[i] = t /\ j > i => q[j] # u

SaveStep == Plain("prepareGlobalSave")
Over == {"flush", "exited", "stuck"}
Stopping == {"saveAndStop", "savedAndStop", "stop"}

\* Nothing has come in before the game is open.
Starting ==
  pc \in {"otserv", "open"} =>
    /\ queue = <<>> /\ ~event /\ threadState = "RUNNING" /\ online = {}
    /\ gameState # "SHUTDOWN" /\ \A p \in Players : net[p] = "out"

\* The scheduler is stopped together with the dispatcher.
ThreadsFit ==
  /\ scheduling => threadState = "RUNNING"
  /\ pc \in Over => threadState # "RUNNING"

\* Once the players are kicked nobody but the staff is in a closed game.
Closed == (gameState = "CLOSED" /\ pc \notin {"kick", "kickAll"}) => online \subseteq Staff

\* A login is posted once, for a player who is out, and what he does comes before it.
LoginsFit ==
  \A p \in Players :
    /\ Sole(queue, Login(p)) /\ NoneBehind(queue, Login(p), Play(p))
    /\ pc \notin Over =>
         /\ net[p] # "out" => p \notin online
         /\ net[p] # "posted" => ~Holds(queue, Login(p))

\* A game that is shut down is empty until its threads stop; after that some may still come
\* in, but nothing they could have done is in the queue.
Final ==
  gameState = "SHUTDOWN" =>
    \/ pc = "kickAll"
    \/ pc \in Stopping /\ online = {}
    \/ /\ pc \in {"idle", "save", "saved", "reopen"} \union Over
       /\ threadState # "RUNNING" /\ dirty = {}
       /\ \A p \in online : ~Holds(queue, Play(p))

\* While the scheduler runs there is one next step of the global save, or the shutdown.
Chain ==
  (scheduling /\ pc \notin {"otserv", "open"}) =>
    /\ Sole(queue, SaveStep) /\ ~(event /\ Holds(queue, SaveStep))
    /\ \/ event \/ Holds(queue, SaveStep) \/ Holds(queue, Set("SHUTDOWN"))
       \/ pc \in Stopping \union {"kickAll"}

GameInv == TypeOK /\ Starting /\ ThreadsFit /\ Closed /\ LoginsFit /\ Final /\ Chain

--------------------------------------------------------------------------------
(* Queues of tasks.                                                        *)

LEMMA TaskForms ==
  /\ \A x \in States : Set(x) \in Tasks
  /\ \A x \in Players : Login(x) \in Tasks /\ Play(x) \in Tasks /\ Logout(x) \in Tasks
  /\ \A k \in {"saveGameState", "prepareGlobalSave", "shutdown"} : Plain(k) \in Tasks
  /\ \A x, y : (Set(x) = Set(y) \/ Login(x) = Login(y) \/ Play(x) = Play(y)) => x = y
  /\ \A x, y : /\ Login(x) # Play(y) /\ Login(x) # Logout(y) /\ Login(x) # Set(y)
               /\ Play(x) # Logout(y) /\ Play(x) # Set(y) /\ Set(x) # Logout(y)
  /\ \A x : \A k \in {"saveGameState", "prepareGlobalSave", "shutdown"} :
       /\ Login(x) # Plain(k) /\ Play(x) # Plain(k) /\ Logout(x) # Plain(k) /\ Set(x) # Plain(k)
  /\ SaveStep = Plain("prepareGlobalSave")
  /\ Plain("saveGameState") # SaveStep /\ Plain("shutdown") # SaveStep
<1>1. /\ \A x : /\ Set(x).what = "setGameState" /\ Set(x).arg = x
                /\ Login(x).what = "login" /\ Login(x).arg = x
                /\ Play(x).what = "play" /\ Play(x).arg = x
                /\ Logout(x).what = "logout"
      /\ \A k : Plain(k).what = k
  BY DEF Set, Login, Play, Logout, Plain
<1>2. \A x \in States : Set(x) \in Tasks
  BY DEF Set, Tasks
<1>3. \A x \in Players : Login(x) \in Tasks /\ Play(x) \in Tasks /\ Logout(x) \in Tasks
  BY DEF Login, Play, Logout, Tasks
<1>4. \A k \in {"saveGameState", "prepareGlobalSave", "shutdown"} : Plain(k) \in Tasks
  BY DEF Tasks
<1>5. \A x, y : (Set(x) = Set(y) \/ Login(x) = Login(y) \/ Play(x) = Play(y)) => x = y
  <2> SUFFICES ASSUME NEW x, NEW y, Set(x) = Set(y) \/ Login(x) = Login(y) \/ Play(x) = Play(y)
               PROVE  x = y
    OBVIOUS
  <2>1. Set(x).arg = Set(y).arg \/ Login(x).arg = Login(y).arg \/ Play(x).arg = Play(y).arg
    OBVIOUS
  <2> QED BY <1>1, <2>1
<1>6. \A x, y : /\ Login(x) # Play(y) /\ Login(x) # Logout(y) /\ Login(x) # Set(y)
                /\ Play(x) # Logout(y) /\ Play(x) # Set(y) /\ Set(x) # Logout(y)
  BY <1>1
<1>7. \A x : \A k \in {"saveGameState", "prepareGlobalSave", "shutdown"} :
        /\ Login(x) # Plain(k) /\ Play(x) # Plain(k) /\ Logout(x) # Plain(k) /\ Set(x) # Plain(k)
  BY <1>1
<1>8. Plain("saveGameState") # SaveStep /\ Plain("shutdown") # SaveStep
  BY <1>1 DEF SaveStep
<1> QED BY <1>2, <1>3, <1>4, <1>5, <1>6, <1>7, <1>8 DEF SaveStep

LEMMA PostOn ==
  ASSUME NEW q \in Seq(Tasks), NEW t \in Tasks
  PROVE  /\ Append(q, t) \in Seq(Tasks)
         /\ \A u : Holds(Append(q, t), u) <=> Holds(q, u) \/ u = t
         /\ \A u : Sole(q, u) /\ (u # t \/ ~Holds(q, t)) => Sole(Append(q, t), u)
         /\ \A u, v : NoneBehind(q, u, v) /\ (v # t \/ ~Holds(q, u)) => NoneBehind(Append(q, t), u, v)
<1> DEFINE r == Append(q, t)
<1>1. /\ r \in Seq(Tasks) /\ DOMAIN r = 1..(Len(q) + 1) /\ DOMAIN q = 1..Len(q) /\ Len(q) \in Nat
      /\ r[Len(q) + 1] = t /\ \A i \in DOMAIN q : r[i] = q[i]
  BY AppendProperties, LenProperties
<1> HIDE DEF r
<1>2. /\ \A i \in DOMAIN r : i \in DOMAIN q \/ i = Len(q) + 1
      /\ \A i \in DOMAIN q : i \in DOMAIN r /\ i < Len(q) + 1
      /\ Len(q) + 1 \in DOMAIN r
  BY <1>1
<1>3. \A u : Holds(r, u) <=> Holds(q, u) \/ u = t
  BY <1>1, <1>2 DEF Holds
<1>4. \A u : Sole(q, u) /\ (u # t \/ ~Holds(q, t)) => Sole(r, u)
  BY <1>1, <1>2 DEF Sole, Holds
<1>5. ASSUME NEW u, NEW v, NoneBehind(q, u, v), v # t \/ ~Holds(q, u)
      PROVE  NoneBehind(r, u, v)
  <2> SUFFICES ASSUME NEW i \in DOMAIN r, NEW j \in DOMAIN r, r[i] = u, j > i PROVE r[j] # v
    BY DEF NoneBehind
  <2>1. i \in DOMAIN q
    BY <1>1, <1>2
  <2>2. CASE j \in DOMAIN q
    BY <1>1, <1>5, <2>1, <2>2 DEF NoneBehind
  <2>3. CASE j = Len(q) + 1
    BY <1>1, <1>5, <2>1, <2>3 DEF Holds
  <2> QED BY <1>2, <2>2, <2>3
<1> QED BY <1>1, <1>3, <1>4, <1>5 DEF r

LEMMA PostedFacts ==
  ASSUME queue \in Seq(Tasks), NEW t \in Tasks
  PROVE  /\ Posted(t) \in Seq(Tasks)
         /\ \A u : Holds(Posted(t), u) <=> Holds(queue, u) \/ (threadState = "RUNNING" /\ u = t)
         /\ \A u : Sole(queue, u) /\ (u # t \/ ~Holds(queue, t)) => Sole(Posted(t), u)
         /\ \A u, v : NoneBehind(queue, u, v) /\ (v # t \/ ~Holds(queue, u) \/ threadState # "RUNNING")
                        => NoneBehind(Posted(t), u, v)
<1>1. CASE threadState = "RUNNING"
  BY <1>1, PostOn DEF Posted
<1>2. CASE threadState # "RUNNING"
  BY <1>2 DEF Posted
<1> QED BY <1>1, <1>2

LEMMA TakeFacts ==
  ASSUME NEW q \in Seq(Tasks), q # <<>>
  PROVE  /\ Tail(q) \in Seq(Tasks) /\ Head(q) \in Tasks /\ Holds(q, Head(q))
         /\ \A u : Holds(Tail(q), u) => Holds(q, u)
         /\ \A u : Holds(q, u) => Holds(Tail(q), u) \/ u = Head(q)
         /\ \A u : Sole(q, u) => Sole(Tail(q), u)
         /\ Sole(q, Head(q)) => ~Holds(Tail(q), Head(q))
         /\ \A u, v : NoneBehind(q, u, v) => NoneBehind(Tail(q), u, v)
         /\ \A v : NoneBehind(q, Head(q), v) => ~Holds(Tail(q), v)
<1> DEFINE r == Tail(q)
<1>1. /\ r \in Seq(Tasks) /\ Head(q) \in Tasks /\ Head(q) = q[1]
      /\ DOMAIN q = 1..Len(q) /\ Len(q) \in Nat \ {0}
      /\ DOMAIN r = 1..(Len(q) - 1) /\ \A i \in DOMAIN r : r[i] = q[i + 1]
  BY HeadTailProperties, LenProperties, EmptySeq
<1> HIDE DEF r
<1>2. /\ \A i \in DOMAIN r : i + 1 \in DOMAIN q /\ i + 1 > 1 /\ i + 1 # 1
      /\ \A i \in DOMAIN q : i = 1 \/ (i - 1 \in DOMAIN r /\ r[i - 1] = q[i])
      /\ 1 \in DOMAIN q
  BY <1>1
<1>3. Holds(q, Head(q)) /\ \A u : Holds(r, u) => Holds(q, u)
  BY <1>1, <1>2 DEF Holds
<1>4. \A u : Holds(q, u) => Holds(r, u) \/ u = Head(q)
  BY <1>1, <1>2 DEF Holds
<1>5. \A u : Sole(q, u) => Sole(r, u)
  BY <1>1, <1>2 DEF Sole
<1>6. Sole(q, Head(q)) => ~Holds(r, Head(q))
  BY <1>1, <1>2 DEF Sole, Holds
<1>7. ASSUME NEW u, NEW v, NoneBehind(q, u, v) PROVE NoneBehind(r, u, v)
  <2> SUFFICES ASSUME NEW i \in DOMAIN r, NEW j \in DOMAIN r, r[i] = u, j > i PROVE r[j] # v
    BY DEF NoneBehind
  <2>1. i + 1 \in DOMAIN q /\ j + 1 \in DOMAIN q /\ j + 1 > i + 1
    BY <1>1
  <2> QED BY <1>1, <1>7, <2>1 DEF NoneBehind
<1>8. \A v : NoneBehind(q, Head(q), v) => ~Holds(r, v)
  BY <1>1, <1>2 DEF NoneBehind, Holds
<1> QED BY <1>1, <1>3, <1>4, <1>5, <1>6, <1>7, <1>8 DEF r

LEMMA TakeAndPost ==
  ASSUME queue \in Seq(Tasks), NEW t, NEW u \in Tasks, TakesAndPosts(t, u)
  PROVE  queue' = IF threadState = "RUNNING" THEN Append(Tail(queue), u) ELSE Tail(queue)
<1>1. queue # <<>> /\ queue' = Tail(queue) \o SubSeq(Posted(u), Len(queue) + 1, Len(Posted(u)))
  BY DEF TakesAndPosts, IsNext
<1>2. Tail(queue) \in Seq(Tasks) /\ Len(queue) \in Nat
  BY <1>1, HeadTailProperties, LenProperties
<1>3. CASE threadState = "RUNNING"
  <2> DEFINE q == Append(queue, u)
             s == SubSeq(q, Len(queue) + 1, Len(queue) + 1)
  <2>1. q \in Seq(Tasks) /\ Len(q) = Len(queue) + 1 /\ q[Len(queue) + 1] = u
    BY AppendProperties
  <2> HIDE DEF q
  <2>2. \A i \in (Len(queue) + 1)..(Len(queue) + 1) : q[i] \in Tasks
    BY <1>2, <2>1
  <2>3. s \in Seq(Tasks) /\ Len(s) = 1 /\ s[1] = u
    BY <1>2, <2>1, <2>2, SubSeqProperties
  <2> HIDE DEF s
  <2>4. s = <<u>>
    BY <2>3
  <2>5. queue' = Tail(queue) \o s
    BY <1>1, <1>3, <2>1 DEF q, s, Posted
  <2> QED BY <1>2, <1>3, <2>4, <2>5, AppendIsConcat
<1>4. CASE threadState # "RUNNING"
  <2>1. SubSeq(queue, Len(queue) + 1, Len(queue)) = <<>>
    BY <1>2, SubSeqEmpty
  <2> QED BY <1>1, <1>2, <1>4, <2>1, ConcatEmptySeq DEF Posted
<1> QED BY <1>3, <1>4

--------------------------------------------------------------------------------
(* The steps.  Each lemma takes one action and goes through the parts of   *)
(* GameInv.                                                                *)

LEMMA FirstPacketStep ==
  ASSUME GameInv, NEW p \in Players, FirstPacket(p)
  PROVE  GameInv'
<1>0. TypeOK /\ Starting /\ ThreadsFit /\ Closed /\ LoginsFit /\ Final /\ Chain
  BY DEF GameInv
<1>1. TypeOK'
  BY <1>0 DEF TypeOK, States, FirstPacket, Outside, Alive, threads, save, people
<1>2. Starting'
  BY <1>0 DEF TypeOK, Starting, FirstPacket, Outside, Alive, threads, save, people
<1>3. ThreadsFit'
  BY <1>0 DEF TypeOK, Starting, ThreadsFit, Over, Stopping, FirstPacket, Outside, Alive, threads, save, people
<1>4. Closed'
  BY <1>0 DEF TypeOK, Starting, Closed, Over, Stopping, ThreadsFit, FirstPacket, Outside, Alive, threads, save, people
<1>5. LoginsFit'
  BY <1>0 DEF TypeOK, Starting, ThreadsFit, LoginsFit, Over, Stopping, FirstPacket, Outside, Alive, threads, save, people
<1>6. Final'
  BY <1>0 DEF TypeOK, Starting, ThreadsFit, Final, LoginsFit, Over, Stopping, FirstPacket, Outside, Alive, threads, save, people
<1>7. Chain'
  BY <1>0 DEF TypeOK, Starting, ThreadsFit, Final, Chain, Over, Stopping, FirstPacket, Outside, Alive, threads, save, people
<1> QED BY <1>1, <1>2, <1>3, <1>4, <1>5, <1>6, <1>7 DEF GameInv

LEMMA PostLoginStep ==
  ASSUME GameInv, NEW p \in Players, PostLogin(p)
  PROVE  GameInv'
<1>0. TypeOK /\ Starting /\ ThreadsFit /\ Closed /\ LoginsFit /\ Final /\ Chain
  BY DEF GameInv
<1>1. /\ \A x, y : (Set(x) = Set(y) \/ Login(x) = Login(y) \/ Play(x) = Play(y)) => x = y
      /\ \A x, y : /\ Login(x) # Play(y) /\ Login(x) # Logout(y) /\ Login(x) # Set(y)
                   /\ Play(x) # Logout(y) /\ Play(x) # Set(y) /\ Set(x) # Logout(y)
      /\ \A x : /\ Login(x) # SaveStep /\ Play(x) # SaveStep /\ Logout(x) # SaveStep
               /\ Set(x) # SaveStep
  BY TaskForms
<1>2. /\ queue' \in Seq(Tasks)
      /\ \A u : Holds(queue', u) <=> Holds(queue, u) \/ (threadState = "RUNNING" /\ u = Login(p))
      /\ \A u : Sole(queue, u) /\ (u # Login(p) \/ ~Holds(queue, Login(p))) => Sole(queue', u)
      /\ \A u, v : NoneBehind(queue, u, v) /\ (v # Login(p) \/ ~Holds(queue, u) \/ threadState # "RUNNING")
                     => NoneBehind(queue', u, v)
  BY <1>0, TaskForms, PostedFacts DEF PostLogin, TypeOK
<1>3. TypeOK'
  BY <1>0, <1>1, <1>2 DEF TypeOK, States, PostLogin, Outside, Alive, threads, save, people
<1>4. Starting'
  BY <1>0, <1>1, <1>2 DEF TypeOK, Starting, PostLogin, Outside, Alive, threads, save, people
<1>5. ThreadsFit'
  BY <1>0, <1>1, <1>2 DEF TypeOK, Starting, ThreadsFit, Over, Stopping, PostLogin, Outside, Alive, threads, save, people
<1>6. Closed'
  BY <1>0, <1>1, <1>2 DEF TypeOK, Starting, Closed, Over, Stopping, ThreadsFit, PostLogin, Outside, Alive, threads, save, people
<1>7. LoginsFit'
  <2> SUFFICES ASSUME NEW x \in Players
               PROVE  /\ Sole(queue', Login(x)) /\ NoneBehind(queue', Login(x), Play(x))
                      /\ pc' \notin Over =>
                           /\ net'[x] # "out" => x \notin online'
                           /\ net'[x] # "posted" => ~Holds(queue', Login(x))
    BY DEF LoginsFit
  <2>1. /\ Sole(queue, Login(x)) /\ NoneBehind(queue, Login(x), Play(x))
        /\ pc \notin Over =>
             /\ net[x] # "out" => x \notin online
             /\ net[x] # "posted" => ~Holds(queue, Login(x))
    BY <1>0 DEF LoginsFit
  <2>2. /\ net[p] = "checked" /\ online' = online /\ pc' = pc
        /\ net'[p] = IF threadState = "RUNNING" THEN "posted" ELSE "out"
        /\ \A y \in Players \ {p} : net'[y] = net[y]
        /\ threadState = "RUNNING" => pc \notin Over
    BY <1>0 DEF PostLogin, TypeOK, ThreadsFit, save
  <2>3. NoneBehind(queue', Login(x), Play(x))
    BY <1>1, <1>2, <2>1
  <2>4. CASE x = p
    <3>1. CASE threadState = "RUNNING"
      BY <1>1, <1>2, <2>1, <2>2, <2>3, <2>4, <3>1 DEF Over
    <3>2. CASE threadState # "RUNNING"
      <4>1. queue' = queue
        BY <3>2 DEF PostLogin, Posted
      <4> QED BY <2>1, <2>2, <2>3, <2>4, <3>2, <4>1 DEF Over
    <3> QED BY <3>1, <3>2
  <2>5. CASE x # p
    BY <1>1, <1>2, <2>1, <2>2, <2>3, <2>5 DEF Over
  <2> QED BY <2>4, <2>5
<1>8. Final'
  BY <1>0, <1>1, <1>2 DEF TypeOK, Starting, ThreadsFit, Final, LoginsFit, Over, Stopping, PostLogin, Outside, Alive, threads, save, people
<1>9. Chain'
  BY <1>0, <1>1, <1>2 DEF TypeOK, Starting, ThreadsFit, Final, Chain, Over, Stopping, PostLogin, Outside, Alive, threads, save, people
<1> QED BY <1>3, <1>4, <1>5, <1>6, <1>7, <1>8, <1>9 DEF GameInv

LEMMA PacketStep ==
  ASSUME GameInv, NEW p \in Players, Packet(p)
  PROVE  GameInv'
<1>0. TypeOK /\ Starting /\ ThreadsFit /\ Closed /\ LoginsFit /\ Final /\ Chain
  BY DEF GameInv
<1>1. /\ \A x, y : (Set(x) = Set(y) \/ Login(x) = Login(y) \/ Play(x) = Play(y)) => x = y
      /\ \A x, y : /\ Login(x) # Play(y) /\ Login(x) # Logout(y) /\ Login(x) # Set(y)
                   /\ Play(x) # Logout(y) /\ Play(x) # Set(y) /\ Set(x) # Logout(y)
      /\ \A x : /\ Login(x) # SaveStep /\ Play(x) # SaveStep /\ Logout(x) # SaveStep
               /\ Set(x) # SaveStep
  BY TaskForms
<1>2. \E t \in {Play(p), Logout(p)} :
        /\ queue' \in Seq(Tasks)
        /\ \A u : Holds(queue', u) <=> Holds(queue, u) \/ (threadState = "RUNNING" /\ u = t)
        /\ \A u : Sole(queue, u) /\ (u # t \/ ~Holds(queue, t)) => Sole(queue', u)
        /\ \A u, v : NoneBehind(queue, u, v) /\ (v # t \/ ~Holds(queue, u) \/ threadState # "RUNNING")
                       => NoneBehind(queue', u, v)
  BY <1>0, TaskForms, PostedFacts DEF Packet, TypeOK
<1>3. TypeOK'
  BY <1>0, <1>1, <1>2 DEF TypeOK, States, Packet, Outside, Alive, threads, save, people
<1>4. Starting'
  BY <1>0, <1>1, <1>2 DEF TypeOK, Starting, Packet, Outside, Alive, threads, save, people
<1>5. ThreadsFit'
  BY <1>0, <1>1, <1>2 DEF TypeOK, Starting, ThreadsFit, Over, Stopping, Packet, Outside, Alive, threads, save, people
<1>6. Closed'
  BY <1>0, <1>1, <1>2 DEF TypeOK, Starting, Closed, Over, Stopping, ThreadsFit, Packet, Outside, Alive, threads, save, people
<1>7. LoginsFit'
  BY <1>0, <1>1, <1>2 DEF TypeOK, Starting, ThreadsFit, LoginsFit, Over, Stopping, Packet, Outside, Alive, threads, save, people
<1>8. Final'
  BY <1>0, <1>1, <1>2 DEF TypeOK, Starting, ThreadsFit, Final, LoginsFit, Over, Stopping, Packet, Outside, Alive, threads, save, people
<1>9. Chain'
  BY <1>0, <1>1, <1>2 DEF TypeOK, Starting, ThreadsFit, Final, Chain, Over, Stopping, Packet, Outside, Alive, threads, save, people
<1> QED BY <1>3, <1>4, <1>5, <1>6, <1>7, <1>8, <1>9 DEF GameInv

LEMMA RequestStep ==
  ASSUME GameInv, NEW t \in {Set(x) : x \in States} \union {Plain("saveGameState"), Plain("shutdown")}, Request(t)
  PROVE  GameInv'
<1>0. TypeOK /\ Starting /\ ThreadsFit /\ Closed /\ LoginsFit /\ Final /\ Chain
  BY DEF GameInv
<1>1. /\ \A x, y : (Set(x) = Set(y) \/ Login(x) = Login(y) \/ Play(x) = Play(y)) => x = y
      /\ \A x, y : /\ Login(x) # Play(y) /\ Login(x) # Logout(y) /\ Login(x) # Set(y)
                   /\ Play(x) # Logout(y) /\ Play(x) # Set(y) /\ Set(x) # Logout(y)
      /\ \A x : /\ Login(x) # SaveStep /\ Play(x) # SaveStep /\ Logout(x) # SaveStep
               /\ Set(x) # SaveStep
  BY TaskForms
<1>2. /\ queue' \in Seq(Tasks)
      /\ \A u : Holds(queue', u) <=> Holds(queue, u) \/ (threadState = "RUNNING" /\ u = t)
      /\ \A u : Sole(queue, u) /\ (u # t \/ ~Holds(queue, t)) => Sole(queue', u)
      /\ \A u, v : NoneBehind(queue, u, v) /\ (v # t \/ ~Holds(queue, u) \/ threadState # "RUNNING")
                     => NoneBehind(queue', u, v)
  BY <1>0, TaskForms, PostedFacts DEF Request, TypeOK
<1>3. \A x : t # Login(x) /\ t # Play(x) /\ t # SaveStep
  BY TaskForms
<1>4. TypeOK'
  BY <1>0, <1>1, <1>2, <1>3 DEF TypeOK, States, Request, Outside, Alive, threads, save, people
<1>5. Starting'
  BY <1>0, <1>1, <1>2, <1>3 DEF TypeOK, Starting, Request, Outside, Alive, threads, save, people
<1>6. ThreadsFit'
  BY <1>0, <1>1, <1>2, <1>3 DEF TypeOK, Starting, ThreadsFit, Over, Stopping, Request, Outside, Alive, threads, save, people
<1>7. Closed'
  BY <1>0, <1>1, <1>2, <1>3 DEF TypeOK, Starting, Closed, Over, Stopping, ThreadsFit, Request, Outside, Alive, threads, save, people
<1>8. LoginsFit'
  BY <1>0, <1>1, <1>2, <1>3 DEF TypeOK, Starting, ThreadsFit, LoginsFit, Over, Stopping, Request, Outside, Alive, threads, save, people
<1>9. Final'
  BY <1>0, <1>1, <1>2, <1>3 DEF TypeOK, Starting, ThreadsFit, Final, LoginsFit, Over, Stopping, Request, Outside, Alive, threads, save, people
<1>10. Chain'
  BY <1>0, <1>1, <1>2, <1>3 DEF TypeOK, Starting, ThreadsFit, Final, Chain, Over, Stopping, Request, Outside, Alive, threads, save, people
<1> QED BY <1>4, <1>5, <1>6, <1>7, <1>8, <1>9, <1>10 DEF GameInv

LEMMA EventDueStep ==
  ASSUME GameInv, EventDue
  PROVE  GameInv'
<1>0. TypeOK /\ Starting /\ ThreadsFit /\ Closed /\ LoginsFit /\ Final /\ Chain
  BY DEF GameInv
<1>1. /\ \A x, y : (Set(x) = Set(y) \/ Login(x) = Login(y) \/ Play(x) = Play(y)) => x = y
      /\ \A x, y : /\ Login(x) # Play(y) /\ Login(x) # Logout(y) /\ Login(x) # Set(y)
                   /\ Play(x) # Logout(y) /\ Play(x) # Set(y) /\ Set(x) # Logout(y)
      /\ \A x : /\ Login(x) # SaveStep /\ Play(x) # SaveStep /\ Logout(x) # SaveStep
               /\ Set(x) # SaveStep
  BY TaskForms
<1>2. /\ queue' \in Seq(Tasks)
      /\ \A u : Holds(queue', u) <=> Holds(queue, u) \/ (threadState = "RUNNING" /\ u = SaveStep)
      /\ \A u : Sole(queue, u) /\ (u # SaveStep \/ ~Holds(queue, SaveStep)) => Sole(queue', u)
      /\ \A u, v : NoneBehind(queue, u, v) /\ (v # SaveStep \/ ~Holds(queue, u) \/ threadState # "RUNNING")
                     => NoneBehind(queue', u, v)
  BY <1>0, TaskForms, PostedFacts DEF EventDue, TypeOK, SaveStep
<1>3. TypeOK'
  BY <1>0, <1>1, <1>2 DEF TypeOK, States, EventDue, Alive, threads, save, people
<1>4. Starting'
  BY <1>0, <1>1, <1>2 DEF TypeOK, Starting, EventDue, Alive, threads, save, people
<1>5. ThreadsFit'
  BY <1>0, <1>1, <1>2 DEF TypeOK, Starting, ThreadsFit, Over, Stopping, EventDue, Alive, threads, save, people
<1>6. Closed'
  BY <1>0, <1>1, <1>2 DEF TypeOK, Starting, Closed, Over, Stopping, ThreadsFit, EventDue, Alive, threads, save, people
<1>7. LoginsFit'
  BY <1>0, <1>1, <1>2 DEF TypeOK, Starting, ThreadsFit, LoginsFit, Over, Stopping, EventDue, Alive, threads, save, people
<1>8. Final'
  BY <1>0, <1>1, <1>2 DEF TypeOK, Starting, ThreadsFit, Final, LoginsFit, Over, Stopping, EventDue, Alive, threads, save, people
<1>9. Chain'
  BY <1>0, <1>1, <1>2 DEF TypeOK, Starting, ThreadsFit, Final, Chain, Over, Stopping, EventDue, Alive, threads, save, people
<1> QED BY <1>3, <1>4, <1>5, <1>6, <1>7, <1>8, <1>9 DEF GameInv

LEMMA OpenTestStep ==
  ASSUME GameInv, OpenTest
  PROVE  GameInv'
<1>0. TypeOK /\ Starting /\ ThreadsFit /\ Closed /\ LoginsFit /\ Final /\ Chain
  BY DEF GameInv
<1>1. TypeOK'
  BY <1>0 DEF TypeOK, States, OpenTest, Alive, threads, save, people
<1>2. Starting'
  BY <1>0 DEF TypeOK, Starting, OpenTest, Alive, threads, save, people
<1>3. ThreadsFit'
  BY <1>0 DEF TypeOK, Starting, ThreadsFit, Over, Stopping, OpenTest, Alive, threads, save, people
<1>4. Closed'
  BY <1>0 DEF TypeOK, Starting, Closed, Over, Stopping, ThreadsFit, OpenTest, Alive, threads, save, people
<1>5. LoginsFit'
  BY <1>0 DEF TypeOK, Starting, ThreadsFit, LoginsFit, Over, Stopping, OpenTest, Alive, threads, save, people
<1>6. Final'
  BY <1>0 DEF TypeOK, Starting, ThreadsFit, Final, LoginsFit, Over, Stopping, OpenTest, Alive, threads, save, people
<1>7. Chain'
  BY <1>0 DEF TypeOK, Starting, ThreadsFit, Final, Chain, Over, Stopping, OpenTest, Alive, threads, save, people
<1> QED BY <1>1, <1>2, <1>3, <1>4, <1>5, <1>6, <1>7 DEF GameInv

LEMMA OpenAssignStep ==
  ASSUME GameInv, OpenAssign
  PROVE  GameInv'
<1>0. TypeOK /\ Starting /\ ThreadsFit /\ Closed /\ LoginsFit /\ Final /\ Chain
  BY DEF GameInv
<1>1. TypeOK'
  BY <1>0 DEF TypeOK, States, OpenAssign, Alive, threads, save, people
<1>2. Starting'
  BY <1>0 DEF TypeOK, Starting, OpenAssign, Alive, threads, save, people
<1>3. ThreadsFit'
  BY <1>0 DEF TypeOK, Starting, ThreadsFit, Over, Stopping, OpenAssign, Alive, threads, save, people
<1>4. Closed'
  BY <1>0 DEF TypeOK, Starting, Closed, Over, Stopping, ThreadsFit, OpenAssign, Alive, threads, save, people
<1>5. LoginsFit'
  BY <1>0 DEF TypeOK, Starting, ThreadsFit, LoginsFit, Over, Stopping, OpenAssign, Alive, threads, save, people
<1>6. Final'
  BY <1>0 DEF TypeOK, Starting, ThreadsFit, Final, LoginsFit, Over, Stopping, OpenAssign, Alive, threads, save, people
<1>7. Chain'
  BY <1>0 DEF TypeOK, Starting, ThreadsFit, Final, Chain, Over, Stopping, OpenAssign, Alive, threads, save, people
<1> QED BY <1>1, <1>2, <1>3, <1>4, <1>5, <1>6, <1>7 DEF GameInv

LEMMA otservInitStep ==
  ASSUME GameInv, otservInit
  PROVE  GameInv'
<1>0. TypeOK /\ Starting /\ ThreadsFit /\ Closed /\ LoginsFit /\ Final /\ Chain
  BY DEF GameInv
<1>1. TypeOK'
  BY <1>0 DEF TypeOK, States, otservInit, threads, save, people
<1>2. Starting'
  BY <1>0 DEF TypeOK, Starting, otservInit, threads, save, people
<1>3. ThreadsFit'
  BY <1>0 DEF TypeOK, Starting, ThreadsFit, Over, Stopping, otservInit, threads, save, people
<1>4. Closed'
  BY <1>0 DEF TypeOK, Starting, Closed, Over, Stopping, ThreadsFit, otservInit, threads, save, people
<1>5. LoginsFit'
  BY <1>0 DEF TypeOK, Starting, ThreadsFit, LoginsFit, Over, Stopping, otservInit, threads, save, people
<1>6. Final'
  BY <1>0 DEF TypeOK, Starting, ThreadsFit, Final, LoginsFit, Over, Stopping, otservInit, threads, save, people
<1>7. Chain'
  BY <1>0 DEF TypeOK, Starting, ThreadsFit, Final, Chain, Over, Stopping, otservInit, threads, save, people
<1> QED BY <1>1, <1>2, <1>3, <1>4, <1>5, <1>6, <1>7 DEF GameInv

LEMMA otservOpenStep ==
  ASSUME GameInv, NEW x \in StartStates, otservOpen(x)
  PROVE  GameInv'
<1>0. TypeOK /\ Starting /\ ThreadsFit /\ Closed /\ LoginsFit /\ Final /\ Chain
  BY DEF GameInv
<1>1. \A t, u : ~Holds(<<>>, t) /\ Sole(<<>>, t) /\ NoneBehind(<<>>, t, u)
  BY DEF Holds, Sole, NoneBehind
<1>2. x \in {"NORMAL", "CLOSED"}
  BY GameStateAssumption
<1>3. TypeOK'
  BY <1>0, <1>1, <1>2 DEF TypeOK, States, otservOpen, threads, save, people
<1>4. Starting'
  BY <1>0, <1>1, <1>2 DEF TypeOK, Starting, otservOpen, threads, save, people
<1>5. ThreadsFit'
  BY <1>0, <1>1, <1>2 DEF TypeOK, Starting, ThreadsFit, Over, Stopping, otservOpen, threads, save, people
<1>6. Closed'
  BY <1>0, <1>1, <1>2 DEF TypeOK, Starting, Closed, Over, Stopping, ThreadsFit, otservOpen, threads, save, people
<1>7. LoginsFit'
  BY <1>0, <1>1, <1>2 DEF TypeOK, Starting, ThreadsFit, LoginsFit, Over, Stopping, otservOpen, threads, save, people
<1>8. Final'
  BY <1>0, <1>1, <1>2 DEF TypeOK, Starting, ThreadsFit, Final, LoginsFit, Over, Stopping, otservOpen, threads, save, people
<1>9. Chain'
  BY <1>0, <1>1, <1>2 DEF TypeOK, Starting, ThreadsFit, Final, Chain, Over, Stopping, otservOpen, threads, save, people
<1> QED BY <1>3, <1>4, <1>5, <1>6, <1>7, <1>8, <1>9 DEF GameInv

LEMMA setGameStateStep ==
  ASSUME GameInv, NEW x \in States, setGameState(x)
  PROVE  GameInv'
<1>0. TypeOK /\ Starting /\ ThreadsFit /\ Closed /\ LoginsFit /\ Final /\ Chain
  BY DEF GameInv
<1>1. /\ \A z, y : (Set(z) = Set(y) \/ Login(z) = Login(y) \/ Play(z) = Play(y)) => z = y
      /\ \A z, y : /\ Login(z) # Play(y) /\ Login(z) # Logout(y) /\ Login(z) # Set(y)
                   /\ Play(z) # Logout(y) /\ Play(z) # Set(y) /\ Set(z) # Logout(y)
      /\ \A z : /\ Login(z) # SaveStep /\ Play(z) # SaveStep /\ Logout(z) # SaveStep
               /\ Set(z) # SaveStep
  BY TaskForms
<1>2. /\ queue' \in Seq(Tasks) /\ Holds(queue, Set(x))
      /\ \A u : Holds(queue', u) => Holds(queue, u)
      /\ \A u : Holds(queue, u) => Holds(queue', u) \/ u = Set(x)
      /\ \A u : Sole(queue, u) => Sole(queue', u)
      /\ Sole(queue, Set(x)) => ~Holds(queue', Set(x))
      /\ \A u, v : NoneBehind(queue, u, v) => NoneBehind(queue', u, v)
      /\ \A v : NoneBehind(queue, Set(x), v) => ~Holds(queue', v)
      /\ pc = "idle" /\ threadState' = threadState /\ scheduling' = scheduling
  BY <1>0, TakeFacts DEF setGameState, Takes, IsNext, TypeOK
<1>3. TypeOK'
  BY <1>0, <1>1, <1>2 DEF TypeOK, States, setGameState, Changes, threads, save, people
<1>4. Starting'
  BY <1>0, <1>1, <1>2 DEF TypeOK, Starting, setGameState, Changes, threads, save, people
<1>5. ThreadsFit'
  BY <1>0, <1>1, <1>2 DEF TypeOK, Starting, ThreadsFit, Over, Stopping, setGameState, Changes, threads, save, people
<1>6. Closed'
  BY <1>0, <1>1, <1>2 DEF TypeOK, Starting, Closed, Over, Stopping, ThreadsFit, setGameState, Changes, threads, save, people
<1>7. LoginsFit'
  BY <1>0, <1>1, <1>2 DEF TypeOK, Starting, ThreadsFit, LoginsFit, Over, Stopping, setGameState, Changes, threads, save, people
<1>8. Final'
  BY <1>0, <1>1, <1>2 DEF TypeOK, Starting, ThreadsFit, Final, LoginsFit, Over, Stopping, setGameState, Changes, threads, save, people
<1>9. Chain'
  BY <1>0, <1>1, <1>2 DEF TypeOK, Starting, ThreadsFit, Final, Chain, Over, Stopping, setGameState, Changes, threads, save, people
<1> QED BY <1>3, <1>4, <1>5, <1>6, <1>7, <1>8, <1>9 DEF GameInv

LEMMA kickStep ==
  ASSUME GameInv, kick
  PROVE  GameInv'
<1>0. TypeOK /\ Starting /\ ThreadsFit /\ Closed /\ LoginsFit /\ Final /\ Chain
  BY DEF GameInv
<1>1. TypeOK'
  BY <1>0 DEF TypeOK, States, kick, Leaves, threads, save, people
<1>2. Starting'
  BY <1>0 DEF TypeOK, Starting, kick, Leaves, threads, save, people
<1>3. ThreadsFit'
  BY <1>0 DEF TypeOK, Starting, ThreadsFit, Over, Stopping, kick, Leaves, threads, save, people
<1>4. Closed'
  BY <1>0 DEF TypeOK, Starting, Closed, Over, Stopping, ThreadsFit, kick, Leaves, threads, save, people
<1>5. LoginsFit'
  BY <1>0 DEF TypeOK, Starting, ThreadsFit, LoginsFit, Over, Stopping, kick, Leaves, threads, save, people
<1>6. Final'
  BY <1>0 DEF TypeOK, Starting, ThreadsFit, Final, LoginsFit, Over, Stopping, kick, Leaves, threads, save, people
<1>7. Chain'
  BY <1>0 DEF TypeOK, Starting, ThreadsFit, Final, Chain, Over, Stopping, kick, Leaves, threads, save, people
<1> QED BY <1>1, <1>2, <1>3, <1>4, <1>5, <1>6, <1>7 DEF GameInv

LEMMA SaveTaskStep ==
  ASSUME GameInv, SaveTask
  PROVE  GameInv'
<1>0. TypeOK /\ Starting /\ ThreadsFit /\ Closed /\ LoginsFit /\ Final /\ Chain
  BY DEF GameInv
<1>1. \A x : Plain("saveGameState") # Set(x) /\ Plain("saveGameState") # SaveStep
  BY TaskForms
<1>2. /\ queue' \in Seq(Tasks) /\ Holds(queue, Plain("saveGameState"))
      /\ \A u : Holds(queue', u) => Holds(queue, u)
      /\ \A u : Holds(queue, u) => Holds(queue', u) \/ u = Plain("saveGameState")
      /\ \A u : Sole(queue, u) => Sole(queue', u)
      /\ Sole(queue, Plain("saveGameState")) => ~Holds(queue', Plain("saveGameState"))
      /\ \A u, v : NoneBehind(queue, u, v) => NoneBehind(queue', u, v)
      /\ \A v : NoneBehind(queue, Plain("saveGameState"), v) => ~Holds(queue', v)
      /\ pc = "idle" /\ threadState' = threadState /\ scheduling' = scheduling
  BY <1>0, TakeFacts DEF SaveTask, Takes, IsNext, TypeOK
<1>3. TypeOK'
  BY <1>0, <1>1, <1>2 DEF TypeOK, States, SaveTask, threads, save, people
<1>4. Starting'
  BY <1>0, <1>1, <1>2 DEF TypeOK, Starting, SaveTask, threads, save, people
<1>5. ThreadsFit'
  BY <1>0, <1>1, <1>2 DEF TypeOK, Starting, ThreadsFit, Over, Stopping, SaveTask, threads, save, people
<1>6. Closed'
  BY <1>0, <1>1, <1>2 DEF TypeOK, Starting, Closed, Over, Stopping, ThreadsFit, SaveTask, threads, save, people
<1>7. LoginsFit'
  BY <1>0, <1>1, <1>2 DEF TypeOK, Starting, ThreadsFit, LoginsFit, Over, Stopping, SaveTask, threads, save, people
<1>8. Final'
  BY <1>0, <1>1, <1>2 DEF TypeOK, Starting, ThreadsFit, Final, LoginsFit, Over, Stopping, SaveTask, threads, save, people
<1>9. Chain'
  BY <1>0, <1>1, <1>2 DEF TypeOK, Starting, ThreadsFit, Final, Chain, Over, Stopping, SaveTask, threads, save, people
<1> QED BY <1>3, <1>4, <1>5, <1>6, <1>7, <1>8, <1>9 DEF GameInv

LEMMA saveGameStateStep ==
  ASSUME GameInv, saveGameState
  PROVE  GameInv'
<1>0. TypeOK /\ Starting /\ ThreadsFit /\ Closed /\ LoginsFit /\ Final /\ Chain
  BY DEF GameInv
<1>1. TypeOK'
  BY <1>0 DEF TypeOK, States, saveGameState, threads, save, people
<1>2. Starting'
  BY <1>0 DEF TypeOK, Starting, saveGameState, threads, save, people
<1>3. ThreadsFit'
  BY <1>0 DEF TypeOK, Starting, ThreadsFit, Over, Stopping, saveGameState, threads, save, people
<1>4. Closed'
  BY <1>0 DEF TypeOK, Starting, Closed, Over, Stopping, ThreadsFit, saveGameState, threads, save, people
<1>5. LoginsFit'
  BY <1>0 DEF TypeOK, Starting, ThreadsFit, LoginsFit, Over, Stopping, saveGameState, threads, save, people
<1>6. Final'
  BY <1>0 DEF TypeOK, Starting, ThreadsFit, Final, LoginsFit, Over, Stopping, saveGameState, threads, save, people
<1>7. Chain'
  BY <1>0 DEF TypeOK, Starting, ThreadsFit, Final, Chain, Over, Stopping, saveGameState, threads, save, people
<1> QED BY <1>1, <1>2, <1>3, <1>4, <1>5, <1>6, <1>7 DEF GameInv

LEMMA saveGameStateEndsStep ==
  ASSUME GameInv, saveGameStateEnds
  PROVE  GameInv'
<1>0. TypeOK /\ Starting /\ ThreadsFit /\ Closed /\ LoginsFit /\ Final /\ Chain
  BY DEF GameInv
<1>1. TypeOK'
  BY <1>0 DEF TypeOK, States, saveGameStateEnds, Saved, threads, save, people
<1>2. Starting'
  BY <1>0 DEF TypeOK, Starting, saveGameStateEnds, Saved, threads, save, people
<1>3. ThreadsFit'
  BY <1>0 DEF TypeOK, Starting, ThreadsFit, Over, Stopping, saveGameStateEnds, Saved, threads, save, people
<1>4. Closed'
  BY <1>0 DEF TypeOK, Starting, Closed, Over, Stopping, ThreadsFit, saveGameStateEnds, Saved, threads, save, people
<1>5. LoginsFit'
  BY <1>0 DEF TypeOK, Starting, ThreadsFit, LoginsFit, Over, Stopping, saveGameStateEnds, Saved, threads, save, people
<1>6. Final'
  BY <1>0 DEF TypeOK, Starting, ThreadsFit, Final, LoginsFit, Over, Stopping, saveGameStateEnds, Saved, threads, save, people
<1>7. Chain'
  BY <1>0 DEF TypeOK, Starting, ThreadsFit, Final, Chain, Over, Stopping, saveGameStateEnds, Saved, threads, save, people
<1> QED BY <1>1, <1>2, <1>3, <1>4, <1>5, <1>6, <1>7 DEF GameInv

LEMMA stopStep ==
  ASSUME GameInv, stop
  PROVE  GameInv'
<1>0. TypeOK /\ Starting /\ ThreadsFit /\ Closed /\ LoginsFit /\ Final /\ Chain
  BY DEF GameInv
<1>1. \A x : Plain("shutdown") # Login(x) /\ Plain("shutdown") # Play(x)
  BY TaskForms
<1>2. /\ queue' \in Seq(Tasks)
      /\ \A u : Holds(queue', u) <=> Holds(queue, u) \/ (threadState = "RUNNING" /\ u = Plain("shutdown"))
      /\ \A u : Sole(queue, u) /\ (u # Plain("shutdown") \/ ~Holds(queue, Plain("shutdown"))) => Sole(queue', u)
      /\ \A u, v : NoneBehind(queue, u, v) /\ (v # Plain("shutdown") \/ ~Holds(queue, u) \/ threadState # "RUNNING")
                     => NoneBehind(queue', u, v)
  BY <1>0, TaskForms, PostedFacts DEF stop, TypeOK, StopWith
<1>3. TypeOK'
  BY <1>0, <1>1, <1>2 DEF TypeOK, States, stop, threads, save, people
<1>4. Starting'
  BY <1>0, <1>1, <1>2 DEF TypeOK, Starting, stop, threads, save, people
<1>5. ThreadsFit'
  BY <1>0, <1>1, <1>2 DEF TypeOK, Starting, ThreadsFit, Over, Stopping, stop, threads, save, people
<1>6. Closed'
  BY <1>0, <1>1, <1>2 DEF TypeOK, Starting, Closed, Over, Stopping, ThreadsFit, stop, threads, save, people
<1>7. LoginsFit'
  BY <1>0, <1>1, <1>2 DEF TypeOK, Starting, ThreadsFit, LoginsFit, Over, Stopping, stop, threads, save, people
<1>8. Final'
  BY <1>0, <1>1, <1>2 DEF TypeOK, Starting, ThreadsFit, Final, LoginsFit, Over, Stopping, stop, threads, save, people
<1>9. Chain'
  BY <1>0, <1>1, <1>2 DEF TypeOK, Starting, ThreadsFit, Final, Chain, Over, Stopping, stop, threads, save, people
<1> QED BY <1>3, <1>4, <1>5, <1>6, <1>7, <1>8, <1>9 DEF GameInv

LEMMA loginStep ==
  ASSUME GameInv, NEW p \in Players, login(p)
  PROVE  GameInv'
<1>0. TypeOK /\ Starting /\ ThreadsFit /\ Closed /\ LoginsFit /\ Final /\ Chain
  BY DEF GameInv
<1>1. /\ \A x, y : (Set(x) = Set(y) \/ Login(x) = Login(y) \/ Play(x) = Play(y)) => x = y
      /\ \A x, y : /\ Login(x) # Play(y) /\ Login(x) # Logout(y) /\ Login(x) # Set(y)
                   /\ Play(x) # Logout(y) /\ Play(x) # Set(y) /\ Set(x) # Logout(y)
      /\ \A x : /\ Login(x) # SaveStep /\ Play(x) # SaveStep /\ Logout(x) # SaveStep
               /\ Set(x) # SaveStep
  BY TaskForms
<1>2. /\ queue' \in Seq(Tasks) /\ Holds(queue, Login(p))
      /\ \A u : Holds(queue', u) => Holds(queue, u)
      /\ \A u : Holds(queue, u) => Holds(queue', u) \/ u = Login(p)
      /\ \A u : Sole(queue, u) => Sole(queue', u)
      /\ Sole(queue, Login(p)) => ~Holds(queue', Login(p))
      /\ \A u, v : NoneBehind(queue, u, v) => NoneBehind(queue', u, v)
      /\ \A v : NoneBehind(queue, Login(p), v) => ~Holds(queue', v)
      /\ pc = "idle" /\ threadState' = threadState /\ scheduling' = scheduling
  BY <1>0, TakeFacts DEF login, Takes, IsNext, TypeOK
<1>3. TypeOK'
  BY <1>0, <1>1, <1>2 DEF TypeOK, States, login, MayEnter, threads, save, people
<1>4. Starting'
  BY <1>0, <1>1, <1>2 DEF TypeOK, Starting, login, MayEnter, threads, save, people
<1>5. ThreadsFit'
  BY <1>0, <1>1, <1>2 DEF TypeOK, Starting, ThreadsFit, Over, Stopping, login, MayEnter, threads, save, people
<1>6. Closed'
  BY <1>0, <1>1, <1>2 DEF TypeOK, Starting, Closed, Over, Stopping, ThreadsFit, login, MayEnter, threads, save, people
<1>7. LoginsFit'
  BY <1>0, <1>1, <1>2 DEF TypeOK, Starting, ThreadsFit, LoginsFit, Over, Stopping, login, MayEnter, threads, save, people
<1>8. Final'
  BY <1>0, <1>1, <1>2 DEF TypeOK, Starting, ThreadsFit, Final, LoginsFit, Over, Stopping, login, MayEnter, threads, save, people
<1>9. Chain'
  BY <1>0, <1>1, <1>2 DEF TypeOK, Starting, ThreadsFit, Final, Chain, Over, Stopping, login, MayEnter, threads, save, people
<1> QED BY <1>3, <1>4, <1>5, <1>6, <1>7, <1>8, <1>9 DEF GameInv

LEMMA playStep ==
  ASSUME GameInv, NEW p \in Players, play(p)
  PROVE  GameInv'
<1>0. TypeOK /\ Starting /\ ThreadsFit /\ Closed /\ LoginsFit /\ Final /\ Chain
  BY DEF GameInv
<1>1. /\ \A x, y : (Set(x) = Set(y) \/ Login(x) = Login(y) \/ Play(x) = Play(y)) => x = y
      /\ \A x, y : /\ Login(x) # Play(y) /\ Login(x) # Logout(y) /\ Login(x) # Set(y)
                   /\ Play(x) # Logout(y) /\ Play(x) # Set(y) /\ Set(x) # Logout(y)
      /\ \A x : /\ Login(x) # SaveStep /\ Play(x) # SaveStep /\ Logout(x) # SaveStep
               /\ Set(x) # SaveStep
  BY TaskForms
<1>2. /\ queue' \in Seq(Tasks) /\ Holds(queue, Play(p))
      /\ \A u : Holds(queue', u) => Holds(queue, u)
      /\ \A u : Holds(queue, u) => Holds(queue', u) \/ u = Play(p)
      /\ \A u : Sole(queue, u) => Sole(queue', u)
      /\ Sole(queue, Play(p)) => ~Holds(queue', Play(p))
      /\ \A u, v : NoneBehind(queue, u, v) => NoneBehind(queue', u, v)
      /\ \A v : NoneBehind(queue, Play(p), v) => ~Holds(queue', v)
      /\ pc = "idle" /\ threadState' = threadState /\ scheduling' = scheduling
  BY <1>0, TakeFacts DEF play, Takes, IsNext, TypeOK
<1>3. TypeOK'
  BY <1>0, <1>1, <1>2 DEF TypeOK, States, play, threads, save, people
<1>4. Starting'
  BY <1>0, <1>1, <1>2 DEF TypeOK, Starting, play, threads, save, people
<1>5. ThreadsFit'
  BY <1>0, <1>1, <1>2 DEF TypeOK, Starting, ThreadsFit, Over, Stopping, play, threads, save, people
<1>6. Closed'
  BY <1>0, <1>1, <1>2 DEF TypeOK, Starting, Closed, Over, Stopping, ThreadsFit, play, threads, save, people
<1>7. LoginsFit'
  BY <1>0, <1>1, <1>2 DEF TypeOK, Starting, ThreadsFit, LoginsFit, Over, Stopping, play, threads, save, people
<1>8. Final'
  BY <1>0, <1>1, <1>2 DEF TypeOK, Starting, ThreadsFit, Final, LoginsFit, Over, Stopping, play, threads, save, people
<1>9. Chain'
  BY <1>0, <1>1, <1>2 DEF TypeOK, Starting, ThreadsFit, Final, Chain, Over, Stopping, play, threads, save, people
<1> QED BY <1>3, <1>4, <1>5, <1>6, <1>7, <1>8, <1>9 DEF GameInv

LEMMA logoutStep ==
  ASSUME GameInv, NEW p \in Players, logout(p)
  PROVE  GameInv'
<1>0. TypeOK /\ Starting /\ ThreadsFit /\ Closed /\ LoginsFit /\ Final /\ Chain
  BY DEF GameInv
<1>1. /\ \A x, y : (Set(x) = Set(y) \/ Login(x) = Login(y) \/ Play(x) = Play(y)) => x = y
      /\ \A x, y : /\ Login(x) # Play(y) /\ Login(x) # Logout(y) /\ Login(x) # Set(y)
                   /\ Play(x) # Logout(y) /\ Play(x) # Set(y) /\ Set(x) # Logout(y)
      /\ \A x : /\ Login(x) # SaveStep /\ Play(x) # SaveStep /\ Logout(x) # SaveStep
               /\ Set(x) # SaveStep
  BY TaskForms
<1>2. /\ queue' \in Seq(Tasks) /\ Holds(queue, Logout(p))
      /\ \A u : Holds(queue', u) => Holds(queue, u)
      /\ \A u : Holds(queue, u) => Holds(queue', u) \/ u = Logout(p)
      /\ \A u : Sole(queue, u) => Sole(queue', u)
      /\ Sole(queue, Logout(p)) => ~Holds(queue', Logout(p))
      /\ \A u, v : NoneBehind(queue, u, v) => NoneBehind(queue', u, v)
      /\ \A v : NoneBehind(queue, Logout(p), v) => ~Holds(queue', v)
      /\ pc = "idle" /\ threadState' = threadState /\ scheduling' = scheduling
  BY <1>0, TakeFacts DEF logout, Takes, IsNext, TypeOK
<1>3. TypeOK'
  BY <1>0, <1>1, <1>2 DEF TypeOK, States, logout, Leaves, threads, save, people
<1>4. Starting'
  BY <1>0, <1>1, <1>2 DEF TypeOK, Starting, logout, Leaves, threads, save, people
<1>5. ThreadsFit'
  BY <1>0, <1>1, <1>2 DEF TypeOK, Starting, ThreadsFit, Over, Stopping, logout, Leaves, threads, save, people
<1>6. Closed'
  BY <1>0, <1>1, <1>2 DEF TypeOK, Starting, Closed, Over, Stopping, ThreadsFit, logout, Leaves, threads, save, people
<1>7. LoginsFit'
  BY <1>0, <1>1, <1>2 DEF TypeOK, Starting, ThreadsFit, LoginsFit, Over, Stopping, logout, Leaves, threads, save, people
<1>8. Final'
  BY <1>0, <1>1, <1>2 DEF TypeOK, Starting, ThreadsFit, Final, LoginsFit, Over, Stopping, logout, Leaves, threads, save, people
<1>9. Chain'
  BY <1>0, <1>1, <1>2 DEF TypeOK, Starting, ThreadsFit, Final, Chain, Over, Stopping, logout, Leaves, threads, save, people
<1> QED BY <1>3, <1>4, <1>5, <1>6, <1>7, <1>8, <1>9 DEF GameInv

LEMMA prepareGlobalSaveStep ==
  ASSUME GameInv, prepareGlobalSave
  PROVE  GameInv'
<1>0. TypeOK /\ Starting /\ ThreadsFit /\ Closed /\ LoginsFit /\ Final /\ Chain
  BY DEF GameInv
<1>1. /\ \A x, y : (Set(x) = Set(y) \/ Login(x) = Login(y) \/ Play(x) = Play(y)) => x = y
      /\ \A x, y : /\ Login(x) # Play(y) /\ Login(x) # Logout(y) /\ Login(x) # Set(y)
                   /\ Play(x) # Logout(y) /\ Play(x) # Set(y) /\ Set(x) # Logout(y)
      /\ \A x : /\ Login(x) # SaveStep /\ Play(x) # SaveStep /\ Logout(x) # SaveStep
               /\ Set(x) # SaveStep
  BY TaskForms
<1>2. /\ queue' \in Seq(Tasks) /\ Holds(queue, SaveStep)
      /\ \A u : Holds(queue', u) => Holds(queue, u)
      /\ \A u : Holds(queue, u) => Holds(queue', u) \/ u = SaveStep
      /\ \A u : Sole(queue, u) => Sole(queue', u)
      /\ Sole(queue, SaveStep) => ~Holds(queue', SaveStep)
      /\ \A u, v : NoneBehind(queue, u, v) => NoneBehind(queue', u, v)
      /\ \A v : NoneBehind(queue, SaveStep, v) => ~Holds(queue', v)
      /\ pc = "idle" /\ threadState' = threadState /\ scheduling' = scheduling
  BY <1>0, TakeFacts DEF prepareGlobalSave, Takes, IsNext, TypeOK, SaveStep
<1>3. TypeOK'
  BY <1>0, <1>1, <1>2 DEF TypeOK, States, prepareGlobalSave, Changes, Rescheduled, threads, save, people
<1>4. Starting'
  BY <1>0, <1>1, <1>2 DEF TypeOK, Starting, prepareGlobalSave, Changes, Rescheduled, threads, save, people
<1>5. ThreadsFit'
  BY <1>0, <1>1, <1>2 DEF TypeOK, Starting, ThreadsFit, Over, Stopping, prepareGlobalSave, Changes, Rescheduled, threads, save, people
<1>6. Closed'
  BY <1>0, <1>1, <1>2 DEF TypeOK, Starting, Closed, Over, Stopping, ThreadsFit, prepareGlobalSave, Changes, Rescheduled, threads, save, people
<1>7. LoginsFit'
  BY <1>0, <1>1, <1>2 DEF TypeOK, Starting, ThreadsFit, LoginsFit, Over, Stopping, prepareGlobalSave, Changes, Rescheduled, threads, save, people
<1>8. Final'
  BY <1>0, <1>1, <1>2 DEF TypeOK, Starting, ThreadsFit, Final, LoginsFit, Over, Stopping, prepareGlobalSave, Changes, Rescheduled, threads, save, people
<1>9. Chain'
  BY <1>0, <1>1, <1>2 DEF TypeOK, Starting, ThreadsFit, Final, Chain, Over, Stopping, prepareGlobalSave, Changes, Rescheduled, threads, save, people
<1> QED BY <1>3, <1>4, <1>5, <1>6, <1>7, <1>8, <1>9 DEF GameInv

LEMMA globalSaveAndShutdownStep ==
  ASSUME GameInv, globalSaveAndShutdown
  PROVE  GameInv'
<1>0. TypeOK /\ Starting /\ ThreadsFit /\ Closed /\ LoginsFit /\ Final /\ Chain
  BY DEF GameInv
<1>1. /\ \A x, y : (Set(x) = Set(y) \/ Login(x) = Login(y) \/ Play(x) = Play(y)) => x = y
      /\ \A x, y : /\ Login(x) # Play(y) /\ Login(x) # Logout(y) /\ Login(x) # Set(y)
                   /\ Play(x) # Logout(y) /\ Play(x) # Set(y) /\ Set(x) # Logout(y)
      /\ \A x : /\ Login(x) # SaveStep /\ Play(x) # SaveStep /\ Logout(x) # SaveStep
               /\ Set(x) # SaveStep
  BY TaskForms
<1>2. /\ queue' \in Seq(Tasks)
      /\ \A x : Holds(queue', x) => Holds(queue, x) \/ x = Set("SHUTDOWN")
      /\ threadState = "RUNNING" => Holds(queue', Set("SHUTDOWN"))
      /\ \A x : Holds(queue, x) => Holds(queue', x) \/ x = SaveStep
      /\ \A x : Sole(queue, x) /\ x # Set("SHUTDOWN") => Sole(queue', x)
      /\ Sole(queue, SaveStep) => ~Holds(queue', SaveStep)
      /\ \A x, v : NoneBehind(queue, x, v) /\ v # Set("SHUTDOWN") => NoneBehind(queue', x, v)
      /\ pc = "idle" /\ threadState' = threadState /\ scheduling' = scheduling
  <2>1. /\ queue # <<>> /\ Head(queue) = SaveStep /\ queue \in Seq(Tasks)
        /\ pc = "idle" /\ threadState' = threadState /\ scheduling' = scheduling
    BY <1>0 DEF globalSaveAndShutdown, TakesAndPosts, IsNext, TypeOK, SaveStep
  <2> DEFINE q == Tail(queue)
  <2>2. /\ q \in Seq(Tasks) /\ \A x : Holds(q, x) => Holds(queue, x)
        /\ \A x : Holds(queue, x) => Holds(q, x) \/ x = SaveStep
        /\ \A x : Sole(queue, x) => Sole(q, x)
        /\ Sole(queue, SaveStep) => ~Holds(q, SaveStep)
        /\ \A x, v : NoneBehind(queue, x, v) => NoneBehind(q, x, v)
    BY <2>1, TakeFacts
  <2>3. Set("SHUTDOWN") \in Tasks /\ Set("SHUTDOWN") # SaveStep
    BY TaskForms DEF States
  <2>4. queue' = IF threadState = "RUNNING" THEN Append(q, Set("SHUTDOWN")) ELSE q
    BY <2>1, <2>3, TakeAndPost DEF globalSaveAndShutdown
  <2> HIDE DEF q
  <2>5. CASE threadState = "RUNNING"
    BY <2>1, <2>2, <2>3, <2>4, <2>5, PostOn
  <2>6. CASE threadState # "RUNNING"
    BY <2>1, <2>2, <2>4, <2>6
  <2> QED BY <2>5, <2>6
<1>3. TypeOK'
  BY <1>0, <1>1, <1>2 DEF TypeOK, States, globalSaveAndShutdown, Changes, threads, save, people
<1>4. Starting'
  BY <1>0, <1>1, <1>2 DEF TypeOK, Starting, globalSaveAndShutdown, Changes, threads, save, people
<1>5. ThreadsFit'
  BY <1>0, <1>1, <1>2 DEF TypeOK, Starting, ThreadsFit, Over, Stopping, globalSaveAndShutdown, Changes, threads, save, people
<1>6. Closed'
  BY <1>0, <1>1, <1>2 DEF TypeOK, Starting, Closed, Over, Stopping, ThreadsFit, globalSaveAndShutdown, Changes, threads, save, people
<1>7. LoginsFit'
  BY <1>0, <1>1, <1>2 DEF TypeOK, Starting, ThreadsFit, LoginsFit, Over, Stopping, globalSaveAndShutdown, Changes, threads, save, people
<1>8. Final'
  BY <1>0, <1>1, <1>2 DEF TypeOK, Starting, ThreadsFit, Final, LoginsFit, Over, Stopping, globalSaveAndShutdown, Changes, threads, save, people
<1>9. Chain'
  BY <1>0, <1>1, <1>2 DEF TypeOK, Starting, ThreadsFit, Final, Chain, Over, Stopping, globalSaveAndShutdown, Changes, threads, save, people
<1> QED BY <1>3, <1>4, <1>5, <1>6, <1>7, <1>8, <1>9 DEF GameInv

LEMMA globalSaveStep ==
  ASSUME GameInv, globalSave
  PROVE  GameInv'
<1>0. TypeOK /\ Starting /\ ThreadsFit /\ Closed /\ LoginsFit /\ Final /\ Chain
  BY DEF GameInv
<1>1. /\ \A x, y : (Set(x) = Set(y) \/ Login(x) = Login(y) \/ Play(x) = Play(y)) => x = y
      /\ \A x, y : /\ Login(x) # Play(y) /\ Login(x) # Logout(y) /\ Login(x) # Set(y)
                   /\ Play(x) # Logout(y) /\ Play(x) # Set(y) /\ Set(x) # Logout(y)
      /\ \A x : /\ Login(x) # SaveStep /\ Play(x) # SaveStep /\ Logout(x) # SaveStep
               /\ Set(x) # SaveStep
  BY TaskForms
<1>2. /\ queue' \in Seq(Tasks)
      /\ \A x : Holds(queue', x) => Holds(queue, x) \/ x = Set("CLOSED")
      /\ threadState = "RUNNING" => Holds(queue', Set("CLOSED"))
      /\ \A x : Holds(queue, x) => Holds(queue', x) \/ x = SaveStep
      /\ \A x : Sole(queue, x) /\ x # Set("CLOSED") => Sole(queue', x)
      /\ Sole(queue, SaveStep) => ~Holds(queue', SaveStep)
      /\ \A x, v : NoneBehind(queue, x, v) /\ v # Set("CLOSED") => NoneBehind(queue', x, v)
      /\ pc = "idle" /\ threadState' = threadState /\ scheduling' = scheduling
  <2>1. /\ queue # <<>> /\ Head(queue) = SaveStep /\ queue \in Seq(Tasks)
        /\ pc = "idle" /\ threadState' = threadState /\ scheduling' = scheduling
    BY <1>0 DEF globalSave, TakesAndPosts, IsNext, TypeOK, SaveStep
  <2> DEFINE q == Tail(queue)
  <2>2. /\ q \in Seq(Tasks) /\ \A x : Holds(q, x) => Holds(queue, x)
        /\ \A x : Holds(queue, x) => Holds(q, x) \/ x = SaveStep
        /\ \A x : Sole(queue, x) => Sole(q, x)
        /\ Sole(queue, SaveStep) => ~Holds(q, SaveStep)
        /\ \A x, v : NoneBehind(queue, x, v) => NoneBehind(q, x, v)
    BY <2>1, TakeFacts
  <2>3. Set("CLOSED") \in Tasks /\ Set("CLOSED") # SaveStep
    BY TaskForms DEF States
  <2>4. queue' = IF threadState = "RUNNING" THEN Append(q, Set("CLOSED")) ELSE q
    BY <2>1, <2>3, TakeAndPost DEF globalSave
  <2> HIDE DEF q
  <2>5. CASE threadState = "RUNNING"
    BY <2>1, <2>2, <2>3, <2>4, <2>5, PostOn
  <2>6. CASE threadState # "RUNNING"
    BY <2>1, <2>2, <2>4, <2>6
  <2> QED BY <2>5, <2>6
<1>3. TypeOK'
  BY <1>0, <1>1, <1>2 DEF TypeOK, States, globalSave, Rescheduled, threads, save, people
<1>4. Starting'
  BY <1>0, <1>1, <1>2 DEF TypeOK, Starting, globalSave, Rescheduled, threads, save, people
<1>5. ThreadsFit'
  BY <1>0, <1>1, <1>2 DEF TypeOK, Starting, ThreadsFit, Over, Stopping, globalSave, Rescheduled, threads, save, people
<1>6. Closed'
  BY <1>0, <1>1, <1>2 DEF TypeOK, Starting, Closed, Over, Stopping, ThreadsFit, globalSave, Rescheduled, threads, save, people
<1>7. LoginsFit'
  BY <1>0, <1>1, <1>2 DEF TypeOK, Starting, ThreadsFit, LoginsFit, Over, Stopping, globalSave, Rescheduled, threads, save, people
<1>8. Final'
  BY <1>0, <1>1, <1>2 DEF TypeOK, Starting, ThreadsFit, Final, LoginsFit, Over, Stopping, globalSave, Rescheduled, threads, save, people
<1>9. Chain'
  BY <1>0, <1>1, <1>2 DEF TypeOK, Starting, ThreadsFit, Final, Chain, Over, Stopping, globalSave, Rescheduled, threads, save, people
<1> QED BY <1>3, <1>4, <1>5, <1>6, <1>7, <1>8, <1>9 DEF GameInv

LEMMA reopenStep ==
  ASSUME GameInv, reopen
  PROVE  GameInv'
<1>0. TypeOK /\ Starting /\ ThreadsFit /\ Closed /\ LoginsFit /\ Final /\ Chain
  BY DEF GameInv
<1>1. /\ \A x, y : (Set(x) = Set(y) \/ Login(x) = Login(y) \/ Play(x) = Play(y)) => x = y
      /\ \A x, y : /\ Login(x) # Play(y) /\ Login(x) # Logout(y) /\ Login(x) # Set(y)
                   /\ Play(x) # Logout(y) /\ Play(x) # Set(y) /\ Set(x) # Logout(y)
      /\ \A x : /\ Login(x) # SaveStep /\ Play(x) # SaveStep /\ Logout(x) # SaveStep
               /\ Set(x) # SaveStep
  BY TaskForms
<1>2. /\ queue' \in Seq(Tasks)
      /\ \A u : Holds(queue', u) <=> Holds(queue, u) \/ (threadState = "RUNNING" /\ u = Set("NORMAL"))
      /\ \A u : Sole(queue, u) /\ (u # Set("NORMAL") \/ ~Holds(queue, Set("NORMAL"))) => Sole(queue', u)
      /\ \A u, v : NoneBehind(queue, u, v) /\ (v # Set("NORMAL") \/ ~Holds(queue, u) \/ threadState # "RUNNING")
                     => NoneBehind(queue', u, v)
  BY <1>0, TaskForms, PostedFacts DEF reopen, TypeOK, Reopened, States
<1>3. TypeOK'
  BY <1>0, <1>1, <1>2 DEF TypeOK, States, reopen, threads, save, people
<1>4. Starting'
  BY <1>0, <1>1, <1>2 DEF TypeOK, Starting, reopen, threads, save, people
<1>5. ThreadsFit'
  BY <1>0, <1>1, <1>2 DEF TypeOK, Starting, ThreadsFit, Over, Stopping, reopen, threads, save, people
<1>6. Closed'
  BY <1>0, <1>1, <1>2 DEF TypeOK, Starting, Closed, Over, Stopping, ThreadsFit, reopen, threads, save, people
<1>7. LoginsFit'
  BY <1>0, <1>1, <1>2 DEF TypeOK, Starting, ThreadsFit, LoginsFit, Over, Stopping, reopen, threads, save, people
<1>8. Final'
  BY <1>0, <1>1, <1>2 DEF TypeOK, Starting, ThreadsFit, Final, LoginsFit, Over, Stopping, reopen, threads, save, people
<1>9. Chain'
  BY <1>0, <1>1, <1>2 DEF TypeOK, Starting, ThreadsFit, Final, Chain, Over, Stopping, reopen, threads, save, people
<1> QED BY <1>3, <1>4, <1>5, <1>6, <1>7, <1>8, <1>9 DEF GameInv

LEMMA shutdownStep ==
  ASSUME GameInv, shutdown
  PROVE  GameInv'
<1>0. TypeOK /\ Starting /\ ThreadsFit /\ Closed /\ LoginsFit /\ Final /\ Chain
  BY DEF GameInv
<1>1. /\ \A x, y : (Set(x) = Set(y) \/ Login(x) = Login(y) \/ Play(x) = Play(y)) => x = y
      /\ \A x, y : /\ Login(x) # Play(y) /\ Login(x) # Logout(y) /\ Login(x) # Set(y)
                   /\ Play(x) # Logout(y) /\ Play(x) # Set(y) /\ Set(x) # Logout(y)
      /\ \A x : /\ Login(x) # SaveStep /\ Play(x) # SaveStep /\ Logout(x) # SaveStep
               /\ Set(x) # SaveStep
  BY TaskForms
<1>2. /\ queue' \in Seq(Tasks) /\ Holds(queue, Plain("shutdown"))
      /\ \A u : Holds(queue', u) => Holds(queue, u)
      /\ \A u : Holds(queue, u) => Holds(queue', u) \/ u = Plain("shutdown")
      /\ \A u : Sole(queue, u) => Sole(queue', u)
      /\ Sole(queue, Plain("shutdown")) => ~Holds(queue', Plain("shutdown"))
      /\ \A u, v : NoneBehind(queue, u, v) => NoneBehind(queue', u, v)
      /\ \A v : NoneBehind(queue, Plain("shutdown"), v) => ~Holds(queue', v)
      /\ pc = "idle"
  BY <1>0, TakeFacts DEF shutdown, IsNext, TypeOK
<1>3. TypeOK'
  BY <1>0, <1>1, <1>2 DEF TypeOK, States, shutdown, threads, save, people
<1>4. Starting'
  BY <1>0, <1>1, <1>2 DEF TypeOK, Starting, shutdown, threads, save, people
<1>5. ThreadsFit'
  BY <1>0, <1>1, <1>2 DEF TypeOK, Starting, ThreadsFit, Over, Stopping, shutdown, threads, save, people
<1>6. Closed'
  BY <1>0, <1>1, <1>2 DEF TypeOK, Starting, Closed, Over, Stopping, ThreadsFit, shutdown, threads, save, people
<1>7. LoginsFit'
  BY <1>0, <1>1, <1>2 DEF TypeOK, Starting, ThreadsFit, LoginsFit, Over, Stopping, shutdown, threads, save, people
<1>8. Final'
  BY <1>0, <1>1, <1>2 DEF TypeOK, Starting, ThreadsFit, Final, LoginsFit, Over, Stopping, shutdown, threads, save, people
<1>9. Chain'
  BY <1>0, <1>1, <1>2 DEF TypeOK, Starting, ThreadsFit, Final, Chain, Over, Stopping, shutdown, threads, save, people
<1> QED BY <1>3, <1>4, <1>5, <1>6, <1>7, <1>8, <1>9 DEF GameInv

LEMMA flushStep ==
  ASSUME GameInv, flush
  PROVE  GameInv'
<1>0. TypeOK /\ Starting /\ ThreadsFit /\ Closed /\ LoginsFit /\ Final /\ Chain
  BY DEF GameInv
<1>1. /\ \A x, y : (Set(x) = Set(y) \/ Login(x) = Login(y) \/ Play(x) = Play(y)) => x = y
      /\ \A x, y : /\ Login(x) # Play(y) /\ Login(x) # Logout(y) /\ Login(x) # Set(y)
                   /\ Play(x) # Logout(y) /\ Play(x) # Set(y) /\ Set(x) # Logout(y)
      /\ \A x : /\ Login(x) # SaveStep /\ Play(x) # SaveStep /\ Logout(x) # SaveStep
               /\ Set(x) # SaveStep
  BY TaskForms
<1>2. /\ queue' \in Seq(Tasks) /\ Holds(queue, Head(queue))
      /\ \A u : Holds(queue', u) => Holds(queue, u)
      /\ \A u : Holds(queue, u) => Holds(queue', u) \/ u = Head(queue)
      /\ \A u : Sole(queue, u) => Sole(queue', u)
      /\ Sole(queue, Head(queue)) => ~Holds(queue', Head(queue))
      /\ \A u, v : NoneBehind(queue, u, v) => NoneBehind(queue', u, v)
      /\ \A v : NoneBehind(queue, Head(queue), v) => ~Holds(queue', v)
      /\ pc = "flush" /\ scheduling' = scheduling /\ threadState' = threadState
  BY <1>0, TakeFacts DEF flush, TypeOK
<1>3. /\ dirty' \subseteq online' /\ online \subseteq online' /\ online' \subseteq Players
      /\ \A p \in online' : p \in online \/ (Head(queue) = Login(p) /\ MayEnter(p))
      /\ gameState' \in States
      /\ (gameState' = gameState \/ (gameState # "SHUTDOWN" /\ gameState' # "SHUTDOWN"))
      /\ gameState' = "CLOSED" => online' \subseteq Staff
      /\ \A p \in dirty' : p \in dirty \/ (Head(queue) = Play(p) /\ p \in online)
  <2> DEFINE t == Head(queue)
  <2>1. pc = "flush" /\ t \in Tasks
    BY <1>0, TakeFacts DEF flush, TypeOK
  <2>2. gameState = "CLOSED" => online \subseteq Staff
    BY <1>0, <2>1 DEF Closed
  <2>3. /\ t.what = "setGameState" => t.arg \in States /\ t = Set(t.arg)
        /\ t.what = "login" => t.arg \in Players /\ t = Login(t.arg)
        /\ t.what = "play" => t.arg \in Players /\ t = Play(t.arg)
    BY <2>1 DEF Tasks, Plain, Set, Login, Play
  <2> HIDE DEF t
  <2>4. CASE gameState' = gameState /\ online' = online /\ dirty' = dirty
    BY <1>0, <2>2, <2>4 DEF TypeOK
  <2>5. CASE /\ ~Posts(t)
             /\ gameState' = IF t.what = "setGameState" /\ Changes(t.arg) THEN t.arg
                             ELSE IF t.what = "prepareGlobalSave" /\ globalSaveMessage = 0 /\ Changes("CLOSING")
                             THEN "CLOSING" ELSE gameState
             /\ \/ online' = online
                \/ t.what = "login" /\ MayEnter(t.arg) /\ online' = online \union {t.arg}
             /\ dirty' = CASE t.what = "play" -> dirty \union ({t.arg} \intersect online)
                           [] t.what = "saveGameState" -> Saved
                           [] t = Set("CLOSED") /\ Changes("CLOSED") -> Saved
                           [] OTHER -> dirty
    <3>1. /\ gameState' \in States
          /\ gameState' = gameState \/ (gameState # "SHUTDOWN" /\ gameState' # "SHUTDOWN")
      BY <1>0, <2>3, <2>5 DEF Posts, Changes, TypeOK, States
    <3>2. /\ online \subseteq online' /\ online' \subseteq Players
          /\ \A p \in online' : p \in online \/ (t = Login(p) /\ MayEnter(p))
      BY <1>0, <2>3, <2>5 DEF TypeOK
    <3>3. dirty' \in {dirty, Saved, dirty \union ({t.arg} \intersect online)}
      BY <2>5
    <3>4. dirty' \subseteq online'
      BY <1>0, <3>2, <3>3 DEF TypeOK, Saved
    <3>5. \A p \in dirty' : p \in dirty \/ (t = Play(p) /\ p \in online)
      <4>1. CASE t.what = "play"
        <5>1. t = Play(t.arg) /\ dirty' = dirty \union ({t.arg} \intersect online)
          <6>1. t # Set("CLOSED")
            BY <4>1 DEF Set
          <6> QED BY <2>3, <2>5, <4>1, <6>1
        <5> QED BY <5>1
      <4>2. CASE t.what # "play"
        BY <2>5, <4>2 DEF Saved
      <4> QED BY <4>1, <4>2
    <3>6. gameState' = "CLOSED" => online' \subseteq Staff
      <4>1. CASE t.what = "setGameState"
        <5>1. online' = online
          BY <2>5, <4>1
        <5>2. gameState' = "CLOSED" => gameState = "CLOSED" \/ (t = Set("CLOSED") /\ Changes("CLOSED"))
          BY <2>3, <2>5, <4>1
        <5> QED BY <2>2, <2>5, <5>1, <5>2 DEF Posts
      <4>2. CASE t.what # "setGameState"
        <5>1. gameState' = "CLOSED" => gameState = "CLOSED"
          BY <2>5, <4>2
        <5> QED BY <2>2, <3>2, <5>1 DEF MayEnter
      <4> QED BY <4>1, <4>2
    <3> QED BY <3>1, <3>2, <3>4, <3>5, <3>6 DEF t
  <2> QED BY <2>4, <2>5 DEF flush, t
<1>4. TypeOK'
  BY <1>0, <1>1, <1>2, <1>3 DEF TypeOK, States, flush, threads, save, people
<1>5. Starting'
  BY <1>0, <1>1, <1>2, <1>3 DEF TypeOK, Starting, flush, threads, save, people
<1>6. ThreadsFit'
  BY <1>0, <1>1, <1>2, <1>3 DEF TypeOK, Starting, ThreadsFit, Over, Stopping, flush, threads, save, people
<1>7. Closed'
  BY <1>0, <1>1, <1>2, <1>3 DEF TypeOK, Starting, Closed, Over, Stopping, ThreadsFit, flush, threads, save, people
<1>8. LoginsFit'
  BY <1>0, <1>1, <1>2, <1>3 DEF TypeOK, Starting, ThreadsFit, LoginsFit, Over, Stopping, flush, threads, save, people
<1>9. Final'
  BY <1>0, <1>1, <1>2, <1>3 DEF TypeOK, Starting, ThreadsFit, Final, LoginsFit, Over, Stopping, flush, threads, save, people
<1>10. Chain'
  BY <1>0, <1>1, <1>2, <1>3 DEF TypeOK, Starting, ThreadsFit, Final, Chain, Over, Stopping, flush, threads, save, people
<1> QED BY <1>4, <1>5, <1>6, <1>7, <1>8, <1>9, <1>10 DEF GameInv

LEMMA exitStep ==
  ASSUME GameInv, exit
  PROVE  GameInv'
<1>0. TypeOK /\ Starting /\ ThreadsFit /\ Closed /\ LoginsFit /\ Final /\ Chain
  BY DEF GameInv
<1>1. TypeOK'
  BY <1>0 DEF TypeOK, States, exit, threads, save, people
<1>2. Starting'
  BY <1>0 DEF TypeOK, Starting, exit, threads, save, people
<1>3. ThreadsFit'
  BY <1>0 DEF TypeOK, Starting, ThreadsFit, Over, Stopping, exit, threads, save, people
<1>4. Closed'
  BY <1>0 DEF TypeOK, Starting, Closed, Over, Stopping, ThreadsFit, exit, threads, save, people
<1>5. LoginsFit'
  BY <1>0 DEF TypeOK, Starting, ThreadsFit, LoginsFit, Over, Stopping, exit, threads, save, people
<1>6. Final'
  BY <1>0 DEF TypeOK, Starting, ThreadsFit, Final, LoginsFit, Over, Stopping, exit, threads, save, people
<1>7. Chain'
  BY <1>0 DEF TypeOK, Starting, ThreadsFit, Final, Chain, Over, Stopping, exit, threads, save, people
<1> QED BY <1>1, <1>2, <1>3, <1>4, <1>5, <1>6, <1>7 DEF GameInv

--------------------------------------------------------------------------------
(* The invariant, and what it means.                                       *)

LEMMA GameInit ==
  ASSUME Init
  PROVE  GameInv
<1>1. /\ queue = <<>> /\ pc = "otserv" /\ gameState = "STARTUP" /\ threadState = "RUNNING"
      /\ net = [p \in Players |-> "out"] /\ online = {} /\ dirty = {} /\ opener = "idle"
      /\ globalSaveMessage = 0
  BY DEF Init
<1>2. event \in BOOLEAN /\ ~event
  BY DEF Init
<1>3. scheduling \in BOOLEAN
  BY DEF Init
<1>4. \A t, u : ~Holds(queue, t) /\ Sole(queue, t) /\ NoneBehind(queue, t, u)
  BY <1>1 DEF Holds, Sole, NoneBehind
<1>5. TypeOK
  BY <1>1, <1>2, <1>3 DEF TypeOK, States
<1>6. Starting /\ ThreadsFit /\ Closed /\ LoginsFit
  BY <1>1, <1>2, <1>4 DEF Starting, ThreadsFit, Closed, LoginsFit, Over
<1>7. Final /\ Chain
  BY <1>1 DEF Final, Chain
<1> QED BY <1>5, <1>6, <1>7 DEF GameInv

LEMMA GameNext ==
  ASSUME GameInv, [Next]_vars
  PROVE  GameInv'
<1>1. CASE Dispatch
  <2>1. CASE \E p \in Players : login(p) \/ play(p) \/ logout(p)
    BY <2>1, loginStep, playStep, logoutStep
  <2>2. CASE (\E x \in States : setGameState(x)) \/ (\E x \in StartStates : otservOpen(x))
    BY <2>2, setGameStateStep, otservOpenStep
  <2>3. CASE otservInit \/ kick \/ SaveTask \/ saveGameState \/ saveGameStateEnds \/ stop
    BY <2>3, otservInitStep, kickStep, SaveTaskStep, saveGameStateStep, saveGameStateEndsStep,
       stopStep
  <2>4. CASE \/ prepareGlobalSave \/ globalSaveAndShutdown \/ globalSave \/ reopen
             \/ shutdown \/ flush \/ exit
    BY <2>4, prepareGlobalSaveStep, globalSaveAndShutdownStep, globalSaveStep, reopenStep,
       shutdownStep, flushStep, exitStep
  <2> QED BY <1>1, <2>1, <2>2, <2>3, <2>4 DEF Dispatch
<1>2. CASE EventDue
  BY <1>2, EventDueStep
<1>3. CASE Environment
  <2>1. CASE \E p \in Players : FirstPacket(p) \/ PostLogin(p) \/ Packet(p)
    BY <2>1, FirstPacketStep, PostLoginStep, PacketStep
  <2>2. CASE \/ \E x \in Requests : Request(Set(x))
             \/ Request(Plain("saveGameState"))
             \/ Kills /\ Request(Plain("shutdown"))
    BY <2>2, RequestStep, GameStateAssumption
  <2>3. CASE OpenTest \/ OpenAssign
    BY <2>3, OpenTestStep, OpenAssignStep
  <2> QED BY <1>3, <2>1, <2>2, <2>3 DEF Environment
<1>4. CASE UNCHANGED vars
  <2>1. TypeOK' /\ Starting' /\ ThreadsFit' /\ Closed'
    BY <1>4 DEF vars, threads, save, people, GameInv, TypeOK, Starting, ThreadsFit, Closed
  <2>2. LoginsFit' /\ Final' /\ Chain'
    BY <1>4 DEF vars, threads, save, people, GameInv, LoginsFit, Final, Chain
  <2> QED BY <2>1, <2>2 DEF GameInv
<1> QED BY <1>1, <1>2, <1>3, <1>4 DEF Next

\* The inductive invariant of the state of the game.
LEMMA GameAlways == Spec => []GameInv
<1>1. Init => GameInv
  BY GameInit
<1>2. GameInv /\ [Next]_vars => GameInv'
  BY GameNext
<1> QED BY <1>1, <1>2, PTL DEF Spec

LEMMA AtMostOne ==
  ASSUME NEW S, \A x, y \in S : x = y
  PROVE  IsFiniteSet(S) /\ Cardinality(S) = IF S = {} THEN 0 ELSE 1
<1>1. CASE S = {}
  BY <1>1, FS_EmptySet
<1>2. CASE S # {}
  <2>1. PICK x : S = {x}
    BY <1>2
  <2> QED BY <1>2, <2>1, FS_Singleton
<1> QED BY <1>1, <1>2

LEMMA GameMeansState ==
  ASSUME GameInv
  PROVE  StateInv
<1>0. TypeOK /\ Closed /\ Final /\ ThreadsFit /\ Chain
  BY DEF GameInv
<1>1. ClosedIsEmpty
  BY <1>0 DEF Closed, ClosedIsEmpty
<1>2. ExitSaves
  BY <1>0 DEF Final, ExitSaves, Over, Stopping
<1>3. OneSaveChain
  <2> SUFFICES ASSUME scheduling, pc \notin {"otserv", "open"}
               PROVE  LET steps == Cardinality({i \in 1..Len(queue) : queue[i] = SaveStep})
                                   + (IF event THEN 1 ELSE 0)
                      IN  \/ steps = 1
                          \/ steps = 0 /\ (Waits(Set("SHUTDOWN"))
                                            \/ pc \in {"kickAll", "saveAndStop", "savedAndStop", "stop"})
    BY DEF OneSaveChain, SaveStep
  <2> DEFINE S == {i \in 1..Len(queue) : queue[i] = SaveStep}
  <2>1. /\ Sole(queue, SaveStep) /\ ~(event /\ Holds(queue, SaveStep))
        /\ \/ event \/ Holds(queue, SaveStep) \/ Holds(queue, Set("SHUTDOWN"))
           \/ pc \in Stopping \union {"kickAll"}
    BY <1>0 DEF Chain
  <2>2. DOMAIN queue = 1..Len(queue)
    BY <1>0, LenProperties DEF TypeOK
  <2>3. (\A i, j \in S : i = j) /\ (S = {} <=> ~Holds(queue, SaveStep))
    BY <2>1, <2>2 DEF Sole, Holds
  <2>4. Cardinality(S) = IF S = {} THEN 0 ELSE 1
    <3> HIDE DEF S
    <3> QED BY <2>3, AtMostOne
  <2>5. Holds(queue, Set("SHUTDOWN")) <=> Waits(Set("SHUTDOWN"))
    BY <2>2 DEF Holds, Waits
  <2> HIDE DEF S
  <2>6. CASE event
    <3>1. Cardinality(S) = 0
      BY <2>1, <2>3, <2>4, <2>6
    <3> QED BY <2>6, <3>1 DEF S
  <2>7. CASE ~event
    BY <2>1, <2>3, <2>4, <2>5, <2>7 DEF S, Stopping
  <2> QED BY <2>6, <2>7
<1> QED BY <1>0, <1>1, <1>2, <1>3 DEF StateInv

\* A closed game holds only staff, a server that shuts down has saved everybody, and there is
\* one next step of the global save as long as the scheduler runs.
THEOREM StateIsKept == Spec => []StateInv
<1>1. GameInv => StateInv
  BY GameMeansState
<1> QED BY <1>1, GameAlways, PTL

\* No task of the dispatcher leaves SHUTDOWN; only the assignment of the opener does.
THEOREM ShutdownStays == Spec => ShutdownIsFinal
<1>1. ASSUME [Next]_vars, gameState = "SHUTDOWN", opener' = opener
      PROVE  gameState' = "SHUTDOWN"
  <2>1. CASE \E p \in Players : \/ FirstPacket(p) \/ PostLogin(p) \/ Packet(p)
                               \/ login(p) \/ play(p) \/ logout(p)
    BY <1>1, <2>1 DEF FirstPacket, PostLogin, Packet, login, play, logout
  <2>2. CASE \E t : Request(t)
    BY <1>1, <2>2 DEF Request
  <2>3. CASE \/ EventDue \/ otservInit \/ (\E x \in StartStates : otservOpen(x))
             \/ (\E x \in States : setGameState(x))
    BY <1>1, <2>3 DEF EventDue, otservInit, otservOpen, setGameState, Changes
  <2>4. CASE kick \/ SaveTask \/ saveGameState \/ saveGameStateEnds \/ stop
    BY <1>1, <2>4 DEF kick, SaveTask, saveGameState, saveGameStateEnds, stop
  <2>5. CASE prepareGlobalSave \/ globalSaveAndShutdown \/ globalSave \/ reopen
    BY <1>1, <2>5 DEF prepareGlobalSave, globalSaveAndShutdown, globalSave, reopen, Changes
  <2>6. CASE shutdown \/ exit
    BY <1>1, <2>6 DEF shutdown, exit
  <2>7. CASE flush
    BY <1>1, <2>7 DEF flush, Changes
  <2>8. CASE OpenTest
    BY <1>1, <2>8 DEF OpenTest
  <2>9. CASE OpenAssign
    BY <1>1, <2>9 DEF OpenAssign
  <2>10. CASE UNCHANGED vars
    BY <1>1, <2>10 DEF vars
  <2> QED BY <1>1, <2>1, <2>2, <2>3, <2>4, <2>5, <2>6, <2>7, <2>8, <2>9, <2>10
         DEF Next, Dispatch, Environment
<1>2. [Next]_vars => (gameState = "SHUTDOWN" /\ opener' = opener => gameState' = "SHUTDOWN")
  BY <1>1
<1> QED BY <1>2, PTL DEF Spec, ShutdownIsFinal

================================================================================
