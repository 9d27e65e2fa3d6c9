---------------------------- MODULE ScreenProofs ----------------------------
(***************************************************************************)
(* Proofs about the lists and feeds on a RefreshScreen, for every value of  *)
(* their constants: PagedList, EmptyPlaceholder on top of it, and the two   *)
(* feeds whose refreshes zip several requests, RecommendFeed and PortalFeed. *)
(* All of them rest on what the operations on the main queue do to the      *)
(* blocks in it, and on the answers each request is owed.                   *)
(***************************************************************************)
EXTENDS EmptyPlaceholder, SequenceTheorems, FiniteSetTheorems, TLAPS

-----------------------------------------------------------------------------
(* What the operations on the main queue do to the blocks in it.            *)

(* A concatenation has the blocks of both parts.                            *)
LEMMA HasConcat ==
    ASSUME NEW S, NEW q \in Seq(S), NEW s \in Seq(S), NEW b
    PROVE  Has(q \o s, b) <=> Has(q, b) \/ Has(s, b)
<1>1. /\ Len(q \o s) = Len(q) + Len(s)
      /\ Len(q) \in Nat
      /\ Len(s) \in Nat
  OBVIOUS
<1>2. \A i \in 1..Len(q) : (q \o s)[i] = q[i]
  OBVIOUS
<1>3. \A i \in 1..Len(s) : (q \o s)[Len(q) + i] = s[i]
  OBVIOUS
<1>4. ASSUME Has(q \o s, b) PROVE Has(q, b) \/ Has(s, b)
  <2>1. PICK i \in 1..Len(q \o s) : (q \o s)[i] = b
    BY <1>4 DEF Has
  <2>2. CASE i <= Len(q)
    BY <1>1, <1>2, <2>1, <2>2 DEF Has
  <2>3. CASE i > Len(q)
    <3>1. i - Len(q) \in 1..Len(s) /\ i = Len(q) + (i - Len(q))
      BY <1>1, <2>3
    <3>2. s[i - Len(q)] = b
      BY <1>3, <2>1, <3>1
    <3> QED
      BY <3>1, <3>2 DEF Has
  <2> QED
    BY <1>1, <2>2, <2>3
<1>5. ASSUME Has(q, b) PROVE Has(q \o s, b)
  <2>1. PICK i \in 1..Len(q) : q[i] = b
    BY <1>5 DEF Has
  <2>2. i \in 1..Len(q \o s) /\ (q \o s)[i] = b
    BY <1>1, <1>2, <2>1
  <2> QED
    BY <2>2 DEF Has
<1>6. ASSUME Has(s, b) PROVE Has(q \o s, b)
  <2>1. PICK i \in 1..Len(s) : s[i] = b
    BY <1>6 DEF Has
  <2>2. Len(q) + i \in 1..Len(q \o s) /\ (q \o s)[Len(q) + i] = b
    BY <1>1, <1>3, <2>1
  <2> QED
    BY <2>2 DEF Has
<1> QED
  BY <1>4, <1>5, <1>6

(* Taking the head removes at most the block that runs.                     *)
LEMMA HasTail ==
    ASSUME NEW S, NEW q \in Seq(S), q # <<>>, NEW b
    PROVE  /\ Tail(q) \in Seq(S)
           /\ Has(Tail(q), b) => Has(q, b)
           /\ Has(q, b) /\ Head(q) # b => Has(Tail(q), b)
<1>1. /\ Tail(q) \in Seq(S)
      /\ Len(Tail(q)) = Len(q) - 1
      /\ Len(q) \in Nat \ {0}
      /\ Head(q) = q[1]
  OBVIOUS
<1>2. \A i \in 1..Len(Tail(q)) : Tail(q)[i] = q[i + 1]
  OBVIOUS
<1>3. ASSUME Has(Tail(q), b) PROVE Has(q, b)
  <2>1. PICK i \in 1..Len(Tail(q)) : Tail(q)[i] = b
    BY <1>3 DEF Has
  <2>2. i + 1 \in 1..Len(q) /\ q[i + 1] = b
    BY <1>1, <1>2, <2>1
  <2> QED
    BY <2>2 DEF Has
<1>4. ASSUME Has(q, b), Head(q) # b PROVE Has(Tail(q), b)
  <2>1. PICK i \in 1..Len(q) : q[i] = b
    BY <1>4 DEF Has
  <2>2. i # 1
    BY <1>1, <1>4, <2>1
  <2>3. i - 1 \in 1..Len(Tail(q)) /\ Tail(q)[i - 1] = q[(i - 1) + 1] /\ (i - 1) + 1 = i
    BY <1>1, <1>2, <2>1, <2>2
  <2> QED
    BY <2>1, <2>3 DEF Has
<1> QED
  BY <1>1, <1>3, <1>4

(* Disposing of a request touches no other block.                           *)
LEMMA HasDisposed ==
    ASSUME NEW S, "disposed" \in S, NEW q \in Seq(S), NEW replies, NEW b
    PROVE  /\ DisposedQueue(q, replies) \in Seq(S)
           /\ b \notin replies /\ b # "disposed" =>
                (Has(DisposedQueue(q, replies), b) <=> Has(q, b))
           /\ b \in replies /\ b # "disposed" => ~Has(DisposedQueue(q, replies), b)
<1> DEFINE d == DisposedQueue(q, replies)
<1>1. /\ Len(q) \in Nat
      /\ \A i \in 1..Len(q) : q[i] \in S
  OBVIOUS
<1>2. d \in [1..Len(q) -> S]
  BY <1>1 DEF DisposedQueue
<1>3. d \in Seq(S) /\ Len(d) = Len(q)
  BY <1>1, <1>2
<1>4. \A i \in 1..Len(q) : d[i] = IF q[i] \in replies THEN "disposed" ELSE q[i]
  BY DEF DisposedQueue
<1> HIDE DEF d
<1>5. b \notin replies /\ b # "disposed" => (Has(d, b) <=> Has(q, b))
  BY <1>3, <1>4 DEF Has
<1>6. b \in replies /\ b # "disposed" => ~Has(d, b)
  BY <1>3, <1>4 DEF Has
<1> QED
  BY <1>3, <1>5, <1>6 DEF d

(* A queue that holds at most one of the blocks R keeps doing so while no   *)
(* block of R is posted, and once the one at its head has run none is left. *)
LEMMA SingleTail ==
    ASSUME NEW S, NEW q \in Seq(S), q # <<>>, NEW R, Single(q, R)
    PROVE  /\ Single(Tail(q), R)
           /\ Head(q) \in R => HasNone(Tail(q), R)
<1>1. /\ Len(Tail(q)) = Len(q) - 1
      /\ Len(q) \in Nat \ {0}
      /\ Head(q) = q[1]
  OBVIOUS
<1>2. \A i \in 1..Len(Tail(q)) : Tail(q)[i] = q[i + 1]
  OBVIOUS
<1>3. \A i \in 1..Len(Tail(q)) : i + 1 \in 1..Len(q) /\ i + 1 # 1
  BY <1>1
<1>4. Single(Tail(q), R)
  BY <1>2, <1>3 DEF Single
<1>5. ASSUME Head(q) \in R PROVE HasNone(Tail(q), R)
  <2>1. 1 \in 1..Len(q)
    BY <1>1
  <2> QED
    BY <1>1, <1>2, <1>3, <1>5, <2>1 DEF Single, HasNone, Has
<1> QED
  BY <1>4, <1>5

LEMMA SinglePost ==
    ASSUME NEW S, NEW q \in Seq(S), NEW s \in Seq(S), NEW R,
           Single(q, R), HasNone(s, R)
    PROVE  Single(q \o s, R)
<1>1. /\ Len(q \o s) = Len(q) + Len(s)
      /\ Len(q) \in Nat
      /\ Len(s) \in Nat
  OBVIOUS
<1>2. \A i \in 1..Len(q) : (q \o s)[i] = q[i]
  OBVIOUS
<1>3. \A i \in 1..Len(s) : (q \o s)[Len(q) + i] = s[i]
  OBVIOUS
<1>4. ASSUME NEW i \in 1..Len(q \o s), (q \o s)[i] \in R
      PROVE  i \in 1..Len(q) /\ q[i] \in R
  <2>1. CASE i <= Len(q)
    BY <1>1, <1>2, <1>4, <2>1
  <2>2. CASE i > Len(q)
    <3>1. i - Len(q) \in 1..Len(s) /\ i = Len(q) + (i - Len(q))
      BY <1>1, <2>2
    <3>2. s[i - Len(q)] = (q \o s)[i]
      BY <1>3, <3>1
    <3> QED
      BY <1>4, <3>1, <3>2 DEF HasNone, Has
  <2> QED
    BY <1>1, <2>1, <2>2
<1> QED
  BY <1>4 DEF Single

(* The first answer of a kind is the only one.                              *)
LEMMA SingleAnswer ==
    ASSUME NEW S, NEW q \in Seq(S), NEW R, NEW r \in S, HasNone(q, R)
    PROVE  Single(q \o <<r>>, R)
<1>1. /\ Len(q \o <<r>>) = Len(q) + 1
      /\ Len(q) \in Nat
  OBVIOUS
<1>2. \A i \in 1..Len(q) : (q \o <<r>>)[i] = q[i]
  OBVIOUS
<1>3. ASSUME NEW i \in 1..Len(q \o <<r>>), (q \o <<r>>)[i] \in R
      PROVE  i = Len(q) + 1
  BY <1>1, <1>2, <1>3 DEF HasNone, Has
<1> QED
  BY <1>3 DEF Single

(* Disposing of the answers R leaves none of them, and at most as many as   *)
(* before of the others.                                                    *)
LEMMA SingleDisposed ==
    ASSUME NEW S, NEW q \in Seq(S), NEW R, "disposed" \notin R,
           NEW T, "disposed" \notin T, Single(q, T)
    PROVE  /\ Single(DisposedQueue(q, R), T)
           /\ HasNone(DisposedQueue(q, R), R)
<1> DEFINE d == DisposedQueue(q, R)
<1>1. Len(d) = Len(q)
  BY DEF DisposedQueue
<1>2. \A i \in 1..Len(q) : d[i] = IF q[i] \in R THEN "disposed" ELSE q[i]
  BY DEF DisposedQueue
<1> HIDE DEF d
<1>3. \A i \in 1..Len(d) : d[i] \in T => i \in 1..Len(q) /\ q[i] \in T
  BY <1>1, <1>2
<1>4. Single(d, T)
  BY <1>3 DEF Single
<1>5. HasNone(d, R)
  BY <1>1, <1>2 DEF HasNone, Has
<1> QED
  BY <1>4, <1>5 DEF d

(* The same facts for a queue and the request its answers belong to.        *)
LEMMA OwedPost ==
    ASSUME NEW S, NEW q \in Seq(S), NEW s \in Seq(S), NEW R, NEW req, NEW wire,
           OwedOnce(q, R, req, wire), HasNone(s, R)
    PROVE  OwedOnce(q \o s, R, req, wire)
<1>1. Single(q \o s, R)
  BY SinglePost DEF OwedOnce
<1>2. HasNone(q \o s, R) <=> HasNone(q, R)
  BY HasConcat DEF HasNone
<1> QED
  BY <1>1, <1>2 DEF OwedOnce

LEMMA OwedTail ==
    ASSUME NEW S, NEW q \in Seq(S), q # <<>>, NEW R, NEW req, NEW wire \in BOOLEAN,
           OwedOnce(q, R, req, wire)
    PROVE  /\ Head(q) \notin R => OwedOnce(Tail(q), R, req, wire)
           /\ Head(q) \in R => /\ req # NoRequest /\ ~wire
                               /\ OwedOnce(Tail(q), R, NoRequest, wire)
<1>1. Single(Tail(q), R) /\ (Head(q) \in R => HasNone(Tail(q), R))
  BY SingleTail DEF OwedOnce
<1>2. Has(q, Head(q))
  <2>1. 1 \in 1..Len(q) /\ q[1] = Head(q)
    OBVIOUS
  <2> QED
    BY <2>1 DEF Has
<1>3. Head(q) \notin R => (HasNone(Tail(q), R) <=> HasNone(q, R))
  BY HasTail DEF HasNone
<1>4. Head(q) \in R => ~HasNone(q, R)
  BY <1>2 DEF HasNone
<1> QED
  BY <1>1, <1>3, <1>4 DEF OwedOnce

LEMMA OwedDisposed ==
    ASSUME NEW S, "disposed" \in S, NEW q \in Seq(S), NEW R, "disposed" \notin R,
           NEW T, "disposed" \notin T, R \cap T = {},
           Single(q, R), NEW req, NEW wire, OwedOnce(q, T, req, wire)
    PROVE  /\ \A new : new # NoRequest => OwedOnce(DisposedQueue(q, R), R, new, TRUE)
           /\ OwedOnce(DisposedQueue(q, R), T, req, wire)
<1>1. /\ Single(DisposedQueue(q, R), R)
      /\ HasNone(DisposedQueue(q, R), R)
      /\ Single(DisposedQueue(q, R), T)
  BY SingleDisposed DEF OwedOnce
<1>2. HasNone(DisposedQueue(q, R), T) <=> HasNone(q, T)
  BY HasDisposed DEF HasNone
<1> QED
  BY <1>1, <1>2 DEF OwedOnce

LEMMA OwedAnswer ==
    ASSUME NEW S, NEW q \in Seq(S), NEW R, NEW r \in R, r \in S,
           HasNone(q, R), NEW req, req # NoRequest
    PROVE  OwedOnce(q \o <<r>>, R, req, FALSE)
<1>1. Single(q \o <<r>>, R)
  BY SingleAnswer
<1>2. <<r>> \in Seq(S) /\ Has(<<r>>, r)
  BY DEF Has
<1>3. ~HasNone(q \o <<r>>, R)
  BY <1>2, HasConcat DEF HasNone
<1> QED
  BY <1>1, <1>3 DEF OwedOnce

-----------------------------------------------------------------------------
(* What the steps post.                                                     *)

Quiet(s) == /\ s \in Seq(Block)
            /\ HasNone(s, ListReply)
            /\ HasNone(s, MoreReply)

(* The bindings and the controls post sequences of blocks, and no answers.  *)
LEMMA PostedBlocks ==
    /\ Quiet(HeaderSuccessBlocks)
    /\ Quiet(HeaderErrorBlocks)
    /\ \A s : Quiet(FooterStateBlocks(s))
    /\ \A b \in ScreenBlock : Quiet(<<b>>)
    /\ Quiet(<<>>)
<1> USE DEF Quiet, HasNone, Has, Block, ScreenBlock, ListReply, MoreReply
<1>1. \A b \in ScreenBlock : Quiet(<<b>>)
  OBVIOUS
<1>2. Quiet(<<>>)
  OBVIOUS
<1>3. Quiet(HeaderSuccessBlocks)
  BY DEF HeaderSuccessBlocks
<1>4. Quiet(HeaderErrorBlocks)
  BY DEF HeaderErrorBlocks
<1>5. \A s : Quiet(FooterStateBlocks(s))
  BY DEF FooterStateBlocks
<1> QED
  BY <1>1, <1>2, <1>3, <1>4, <1>5

LEMMA QuietConcat ==
    ASSUME NEW s, Quiet(s), NEW t, Quiet(t)
    PROVE  Quiet(s \o t)
BY HasConcat DEF Quiet, HasNone

(* A state the Binder of the footer accepts leaves the footer well typed.   *)
LEMMA BoundFooterType ==
    ASSUME ScreenTypeOK, NEW s, BindFooterState(s)
    PROVE  footer' \in FooterState /\ footerHidden' \in BOOLEAN
BY DEF ScreenTypeOK, BindFooterState, FooterState

-----------------------------------------------------------------------------
(* The inductive invariant: the types, and that answers have requests.      *)
(* Neither is inductive alone.  The list stays a sequence of pages because  *)
(* a block "listOk" finds the request it answers; that request is there     *)
(* because it can be replaced only together with its answer.                *)
TypedAnswers == TypeOK /\ AnswersHaveRequests

LEMMA TypedAnswersInit == Init => TypedAnswers
<1> SUFFICES ASSUME Init PROVE TypedAnswers
  OBVIOUS
<1>1. mainQueue = <<"ftrIdle">> /\ Quiet(<<"ftrIdle">>)
  BY PostedBlocks DEF Init, ScreenInit, ScreenBlock
<1>2. Single(mainQueue, ListReply) /\ Single(mainQueue, MoreReply)
  BY <1>1 DEF Single
<1>3. AnswersHaveRequests
  BY <1>1, <1>2 DEF Init, AnswersHaveRequests, OwedOnce, Quiet
<1>4. ScreenTypeOK
  BY DEF Init, ScreenInit, ScreenTypeOK, HeaderState, FooterState
<1>5. mainQueue \in Seq(Block) /\ itemList \in Seq(Nat)
  BY <1>1 DEF Init, Quiet
<1>6. /\ page \in Nat /\ loading \in Int /\ listReq = NoRequest /\ moreReq = NoRequest
      /\ listWire = FALSE /\ moreWire = FALSE
  BY DEF Init
<1>7. TypeOK
  BY <1>4, <1>5, <1>6 DEF TypeOK
<1> QED
  BY <1>3, <1>7 DEF TypedAnswers

(* A step that leaves the model alone and posts blocks of the controls.     *)
LEMMA TypedAnswersPost ==
    ASSUME TypedAnswers, NEW s, Quiet(s), mainQueue' = mainQueue \o s,
           ScreenTypeOK', UNCHANGED modelVars
    PROVE  TypedAnswers'
<1>1. mainQueue' \in Seq(Block)
  BY DEF TypedAnswers, TypeOK, Quiet
<1>2. AnswersHaveRequests'
  <2>1. /\ OwedOnce(mainQueue \o s, ListReply, listReq, listWire)
        /\ OwedOnce(mainQueue \o s, MoreReply, moreReq, moreWire)
    BY OwedPost DEF TypedAnswers, TypeOK, AnswersHaveRequests, Quiet
  <2> QED
    BY <2>1 DEF AnswersHaveRequests, modelVars
<1> QED
  BY <1>1, <1>2 DEF TypedAnswers, TypeOK, modelVars

(* A step that runs a block and posts blocks of the controls; a request     *)
(* ends when its answer runs.                                               *)
LEMMA TypedAnswersRun ==
    ASSUME TypedAnswers, mainQueue # <<>>,
           NEW s, Quiet(s), mainQueue' = Tail(mainQueue) \o s,
           listReq' = IF Head(mainQueue) \in ListReply THEN NoRequest ELSE listReq,
           moreReq' = IF Head(mainQueue) \in MoreReply THEN NoRequest ELSE moreReq,
           UNCHANGED <<listWire, moreWire>>
    PROVE  mainQueue' \in Seq(Block) /\ AnswersHaveRequests'
<1> DEFINE t == Tail(mainQueue)
<1>1. t \in Seq(Block) /\ s \in Seq(Block) /\ HasNone(s, ListReply) /\ HasNone(s, MoreReply)
  BY HasTail DEF TypedAnswers, TypeOK, Quiet
<1>2. /\ OwedOnce(t, ListReply, listReq', listWire)
      /\ OwedOnce(t, MoreReply, moreReq', moreWire)
  BY OwedTail DEF TypedAnswers, TypeOK, AnswersHaveRequests
<1> HIDE DEF t
<1>3. /\ OwedOnce(t \o s, ListReply, listReq', listWire)
      /\ OwedOnce(t \o s, MoreReply, moreReq', moreWire)
  BY <1>1, <1>2, OwedPost
<1> QED
  BY <1>1, <1>3 DEF t, AnswersHaveRequests

(* A refreshing block: the queue that is left, and the requests.            *)
LEMMA TypedAnswersReplace ==
    ASSUME TypedAnswers, mainQueue # <<>>, Head(mainQueue) \notin ListReply \cup MoreReply
    PROVE  LET t == Tail(mainQueue)
           IN  /\ DisposedQueue(t, ListReply) \in Seq(Block)
               /\ DisposedQueue(t, MoreReply) \in Seq(Block)
               /\ \A new : new # NoRequest =>
                    /\ OwedOnce(DisposedQueue(t, ListReply), ListReply, new, TRUE)
                    /\ OwedOnce(DisposedQueue(t, MoreReply), MoreReply, new, TRUE)
               /\ OwedOnce(DisposedQueue(t, ListReply), MoreReply, moreReq, moreWire)
               /\ OwedOnce(DisposedQueue(t, MoreReply), ListReply, listReq, listWire)
<1> DEFINE t == Tail(mainQueue)
<1>1. /\ t \in Seq(Block)
      /\ OwedOnce(t, ListReply, listReq, listWire)
      /\ OwedOnce(t, MoreReply, moreReq, moreWire)
  BY HasTail, OwedTail DEF TypedAnswers, TypeOK, AnswersHaveRequests
<1>2. /\ "disposed" \notin ListReply /\ "disposed" \notin MoreReply
      /\ ListReply \cap MoreReply = {} /\ MoreReply \cap ListReply = {}
  BY DEF ListReply, MoreReply
<1>d. "disposed" \in Block
  BY DEF Block
<1> HIDE DEF t
<1>3. /\ DisposedQueue(t, ListReply) \in Seq(Block)
      /\ DisposedQueue(t, MoreReply) \in Seq(Block)
  BY <1>1, <1>d, HasDisposed
<1>4. Single(t, ListReply) /\ Single(t, MoreReply)
  BY <1>1 DEF OwedOnce
<1>5. /\ \A new : new # NoRequest => OwedOnce(DisposedQueue(t, ListReply), ListReply, new, TRUE)
      /\ OwedOnce(DisposedQueue(t, ListReply), MoreReply, moreReq, moreWire)
  BY <1>1, <1>2, <1>4, <1>d, OwedDisposed
<1>6. /\ \A new : new # NoRequest => OwedOnce(DisposedQueue(t, MoreReply), MoreReply, new, TRUE)
      /\ OwedOnce(DisposedQueue(t, MoreReply), ListReply, listReq, listWire)
  BY <1>1, <1>2, <1>4, <1>d, OwedDisposed
<1> QED
  BY <1>3, <1>5, <1>6 DEF t

(* The user, UIKit and the blocks of the controls.                          *)
LEMMA TypedAnswersScreen ==
    ASSUME TypedAnswers,
           ScrollToFooter \/ Gesture \/ Draw \/ EndAnimation \/ ControlBlock
    PROVE  TypedAnswers'
<1> USE DEF ScreenTypeOK, HeaderState, FooterState
<1>t. ScreenTypeOK /\ mainQueue \in Seq(Block)
  BY DEF TypedAnswers, TypeOK
<1>e. Quiet(<<>>) /\ mainQueue \o <<>> = mainQueue
  BY <1>t, PostedBlocks
<1>b. \A b \in ScreenBlock : Quiet(<<b>>)
  BY PostedBlocks
<1>1. CASE ScrollToFooter
  <2>1. mainQueue' = mainQueue \o <<"ftrCallback">> /\ UNCHANGED modelVars
    BY <1>1 DEF ScrollToFooter, ReachFooter, Post
  <2>2. ScreenTypeOK'
    BY <1>1, <1>t DEF ScrollToFooter, ReachFooter
  <2> QED
    BY <1>b, <2>1, <2>2, TypedAnswersPost DEF ScreenBlock
<1>2. CASE Gesture
  <2>1. ScreenTypeOK' /\ UNCHANGED modelVars
    BY <1>2, <1>t DEF Gesture, PullHeader, UnpullHeader, ReleaseHeader, Appear, Disappear,
       BeginHeader
  <2>2. \/ mainQueue' = mainQueue
        \/ mainQueue' = mainQueue \o <<>>
        \/ mainQueue' = mainQueue \o <<"hdrAnimate">>
        \/ mainQueue' = mainQueue \o <<"hdrIdle">>
    BY <1>2 DEF Gesture, PullHeader, UnpullHeader, ReleaseHeader, Appear, Disappear,
       BeginHeader, Post
  <2>3. \E s : Quiet(s) /\ mainQueue' = mainQueue \o s
    BY <1>e, <1>b, <2>2 DEF ScreenBlock
  <2> QED
    BY <2>1, <2>3, TypedAnswersPost
<1>3. CASE Draw
  <2>1. ScreenTypeOK' /\ UNCHANGED modelVars
    BY <1>3, <1>t DEF Draw, DrawHeader, BeginHeader
  <2>2. mainQueue' = mainQueue \o <<"hdrAnimate">>
    BY <1>3 DEF Draw, DrawHeader, BeginHeader, Post
  <2> QED
    BY <1>b, <2>1, <2>2, TypedAnswersPost DEF ScreenBlock
<1>4. CASE EndAnimation
  <2>1. ScreenTypeOK' /\ UNCHANGED modelVars
    BY <1>4, <1>t DEF EndAnimation, AnimationDone
  <2>2. mainQueue' = mainQueue \o <<"hdrCallback">>
    BY <1>4 DEF EndAnimation, AnimationDone, Post
  <2> QED
    BY <1>b, <2>1, <2>2, TypedAnswersPost DEF ScreenBlock
<1>5. CASE ControlBlock
  <2>1. /\ ScreenTypeOK' /\ UNCHANGED modelVars
        /\ mainQueue # <<>> /\ mainQueue' = Tail(mainQueue) \o <<>>
    BY <1>5, <1>t DEF ControlBlock, MainQueueStep, AnimateHeader, IdleHeader, IdleFooter,
       NoMoreFooter, RunBlock, RunAndPost
  <2>2. Head(mainQueue) \notin ListReply \cup MoreReply
    BY <1>5 DEF ControlBlock, MainQueueStep, AnimateHeader, IdleHeader, IdleFooter,
       NoMoreFooter, RunBlock, ListReply, MoreReply
  <2>3. mainQueue' \in Seq(Block) /\ AnswersHaveRequests'
    BY <1>e, <2>1, <2>2, TypedAnswersRun DEF modelVars
  <2> QED
    BY <2>1, <2>3 DEF TypedAnswers, TypeOK, modelVars
<1> QED
  BY <1>1, <1>2, <1>3, <1>4, <1>5

(* The refreshing blocks start requests.                                    *)
LEMMA TypedAnswersStart ==
    ASSUME TypedAnswers, LoadList \/ LoadMore
    PROVE  TypedAnswers'
<1>1. CASE LoadList
  <2>1. /\ mainQueue # <<>> /\ Head(mainQueue) \notin ListReply \cup MoreReply
        /\ mainQueue' = DisposedQueue(Tail(mainQueue), ListReply)
        /\ listReq' = 0 /\ listWire' = TRUE /\ UNCHANGED <<moreReq, moreWire>>
    BY <1>1 DEF LoadList, RunBlock, ListReply, MoreReply
  <2>2. listReq' # NoRequest
    BY <2>1 DEF NoRequest
  <2>3. mainQueue' \in Seq(Block) /\ AnswersHaveRequests'
    BY <2>1, <2>2, TypedAnswersReplace DEF AnswersHaveRequests
  <2> QED
    BY <1>1, <2>3 DEF LoadList, LoadingAfterStart, TypedAnswers, TypeOK, ScreenTypeOK
<1>2. CASE LoadMore
  <2>1. /\ mainQueue # <<>> /\ Head(mainQueue) \notin ListReply \cup MoreReply
        /\ mainQueue' = DisposedQueue(Tail(mainQueue), MoreReply)
        /\ moreReq' = page + 1 /\ moreWire' = TRUE /\ UNCHANGED <<listReq, listWire>>
    BY <1>2 DEF LoadMore, RunBlock, ListReply, MoreReply
  <2>2. moreReq' # NoRequest
    BY <2>1 DEF TypedAnswers, TypeOK, NoRequest
  <2>3. mainQueue' \in Seq(Block) /\ AnswersHaveRequests'
    BY <2>1, <2>2, TypedAnswersReplace DEF AnswersHaveRequests
  <2> QED
    BY <1>2, <2>3 DEF LoadMore, LoadingAfterStart, TypedAnswers, TypeOK, ScreenTypeOK
<1> QED
  BY <1>1, <1>2

(* The network answers a request once.                                      *)
LEMMA TypedAnswersAnswer ==
    ASSUME TypedAnswers, ListAnswered \/ MoreAnswered
    PROVE  TypedAnswers'
<1>t. mainQueue \in Seq(Block)
  BY DEF TypedAnswers, TypeOK
<1>1. CASE ListAnswered
  <2>1. PICK r \in ListReply : AnswerList(r)
    BY <1>1 DEF ListAnswered
  <2>2. /\ r \in Block /\ <<r>> \in Seq(Block) /\ HasNone(<<r>>, MoreReply)
        /\ mainQueue' = mainQueue \o <<r>>
        /\ listWire /\ listWire' = FALSE
        /\ UNCHANGED <<page, itemList, listReq, moreReq, moreWire, loading>>
    BY <2>1 DEF AnswerList, Post, HasNone, Has, Block, ListReply, MoreReply
  <2>3. HasNone(mainQueue, ListReply) /\ listReq # NoRequest
    BY <2>2 DEF TypedAnswers, AnswersHaveRequests, OwedOnce
  <2>4. OwedOnce(mainQueue', ListReply, listReq', listWire')
    BY <1>t, <2>2, <2>3, OwedAnswer
  <2>5. OwedOnce(mainQueue', MoreReply, moreReq', moreWire')
    BY <1>t, <2>2, OwedPost DEF TypedAnswers, AnswersHaveRequests
  <2>6. mainQueue' \in Seq(Block)
    BY <1>t, <2>2
  <2> QED
    BY <2>1, <2>2, <2>4, <2>5, <2>6
    DEF AnswerList, AnswersHaveRequests, TypedAnswers, TypeOK, ScreenTypeOK
<1>2. CASE MoreAnswered
  <2>1. PICK r \in MoreReply : AnswerMore(r)
    BY <1>2 DEF MoreAnswered
  <2>2. /\ r \in Block /\ <<r>> \in Seq(Block) /\ HasNone(<<r>>, ListReply)
        /\ mainQueue' = mainQueue \o <<r>>
        /\ moreWire /\ moreWire' = FALSE
        /\ UNCHANGED <<page, itemList, listReq, moreReq, listWire, loading>>
    BY <2>1 DEF AnswerMore, Post, HasNone, Has, Block, ListReply, MoreReply
  <2>3. HasNone(mainQueue, MoreReply) /\ moreReq # NoRequest
    BY <2>2 DEF TypedAnswers, AnswersHaveRequests, OwedOnce
  <2>4. OwedOnce(mainQueue', MoreReply, moreReq', moreWire')
    BY <1>t, <2>2, <2>3, OwedAnswer
  <2>5. OwedOnce(mainQueue', ListReply, listReq', listWire')
    BY <1>t, <2>2, OwedPost DEF TypedAnswers, AnswersHaveRequests
  <2>6. mainQueue' \in Seq(Block)
    BY <1>t, <2>2
  <2> QED
    BY <2>1, <2>2, <2>4, <2>5, <2>6
    DEF AnswerMore, AnswersHaveRequests, TypedAnswers, TypeOK, ScreenTypeOK
<1> QED
  BY <1>1, <1>2

(* The block at the head of the queue has the request it answers.           *)
LEMMA AnswerOfRequest ==
    ASSUME TypedAnswers
    PROVE  /\ RunBlock("listOk") \/ RunBlock("listFail") => listReq = 0
           /\ RunBlock("moreOk") \/ RunBlock("moreFail") => moreReq \in Nat \ {0}
<1>1. mainQueue # <<>> /\ Head(mainQueue) \in ListReply => listReq # NoRequest
  BY OwedTail DEF TypedAnswers, TypeOK, AnswersHaveRequests
<1>2. mainQueue # <<>> /\ Head(mainQueue) \in MoreReply => moreReq # NoRequest
  BY OwedTail DEF TypedAnswers, TypeOK, AnswersHaveRequests
<1> QED
  BY <1>1, <1>2 DEF RunBlock, ListReply, MoreReply, TypedAnswers, TypeOK

(* An error that reaches the bindings posts blocks of the controls only.    *)
LEMMA RefreshErrorPosts ==
    ASSUME TypedAnswers, RefreshError
    PROVE  /\ footer' \in FooterState /\ footerHidden' \in BOOLEAN
           /\ loading' = loading - 1
           /\ \E s : Quiet(s) /\ mainQueue' = Tail(mainQueue) \o s
<1> DEFINE state == FooterErrorState(itemList = <<>>)
<1>1. /\ BindFooterState(state)
      /\ RunAndPost(HeaderErrorBlocks \o FooterStateBlocks(state))
      /\ loading' = loading - 1
  BY DEF RefreshError
<1> HIDE DEF state
<1>2. Quiet(HeaderErrorBlocks \o FooterStateBlocks(state))
  BY PostedBlocks, QuietConcat
<1> QED
  BY <1>1, <1>2, BoundFooterType DEF RunAndPost, TypedAnswers, TypeOK

(* The answers are delivered to the list and to the bindings.               *)
LEMMA TypedAnswersReply ==
    ASSUME TypedAnswers, ReplyBlock
    PROVE  TypedAnswers'
<1>t. ScreenTypeOK /\ TypeOK
  BY DEF TypedAnswers, TypeOK
<1>1. CASE ListLoaded
  <2>1. /\ listReq = 0 /\ mainQueue # <<>>
        /\ Head(mainQueue) \in ListReply /\ Head(mainQueue) \notin MoreReply
        /\ listReq' = NoRequest /\ UNCHANGED <<moreReq, listWire, moreWire>>
    BY <1>1, AnswerOfRequest DEF ListLoaded, RunBlock, ListReply, MoreReply
  <2>2. Quiet(HeaderSuccessBlocks \o FooterStateBlocks("default"))
    BY PostedBlocks, QuietConcat
  <2>3. mainQueue' \in Seq(Block) /\ AnswersHaveRequests'
    <3>1. mainQueue' = Tail(mainQueue) \o (HeaderSuccessBlocks \o FooterStateBlocks("default"))
      BY <1>1 DEF ListLoaded, RunAndPost
    <3> QED
      BY <2>1, <2>2, <3>1, TypedAnswersRun
  <2>4. itemList' \in Seq(Nat)
    BY <1>1, <2>1 DEF ListLoaded, Items
  <2>5. footer' \in FooterState /\ footerHidden' \in BOOLEAN
    BY <1>1, <1>t, BoundFooterType DEF ListLoaded
  <2> QED
    BY <1>1, <1>t, <2>3, <2>4, <2>5 DEF ListLoaded, TypedAnswers, TypeOK, ScreenTypeOK
<1>2. CASE MoreLoaded
  <2> DEFINE list  == Items(moreReq)
             state == IF Len(list) > 0 THEN "default" ELSE "noMoreData"
  <2>1. /\ moreReq \in Nat /\ mainQueue # <<>>
        /\ Head(mainQueue) \in MoreReply /\ Head(mainQueue) \notin ListReply
        /\ moreReq' = NoRequest /\ UNCHANGED <<listReq, listWire, moreWire>>
    BY <1>2, AnswerOfRequest DEF MoreLoaded, RunBlock, ListReply, MoreReply
  <2>2. /\ itemList' = itemList \o list
        /\ BindFooterState(state) /\ RunAndPost(FooterStateBlocks(state))
    BY <1>2 DEF MoreLoaded
  <2>3. list \in Seq(Nat)
    BY <2>1 DEF Items
  <2> HIDE DEF list, state
  <2>4. mainQueue' \in Seq(Block) /\ AnswersHaveRequests'
    BY <2>1, <2>2, PostedBlocks, TypedAnswersRun DEF RunAndPost
  <2>5. itemList' \in Seq(Nat)
    BY <1>t, <2>2, <2>3 DEF TypeOK
  <2>6. footer' \in FooterState /\ footerHidden' \in BOOLEAN
    BY <1>t, <2>2, BoundFooterType
  <2> QED
    BY <1>2, <1>t, <2>4, <2>5, <2>6 DEF MoreLoaded, TypedAnswers, TypeOK, ScreenTypeOK
<1>3. CASE ListFailed
  <2>1. /\ mainQueue # <<>>
        /\ Head(mainQueue) \in ListReply /\ Head(mainQueue) \notin MoreReply
        /\ listReq' = NoRequest /\ UNCHANGED <<moreReq, listWire, moreWire>>
    BY <1>3 DEF ListFailed, RunBlock, ListReply, MoreReply
  <2>2. PICK s : Quiet(s) /\ mainQueue' = Tail(mainQueue) \o s
    BY <1>3, RefreshErrorPosts DEF ListFailed
  <2>3. mainQueue' \in Seq(Block) /\ AnswersHaveRequests'
    BY <2>1, <2>2, TypedAnswersRun
  <2> QED
    BY <1>3, <1>t, <2>3, RefreshErrorPosts
    DEF ListFailed, TypedAnswers, TypeOK, ScreenTypeOK
<1>4. CASE MoreFailed
  <2>1. /\ mainQueue # <<>>
        /\ Head(mainQueue) \in MoreReply /\ Head(mainQueue) \notin ListReply
        /\ moreReq' = NoRequest /\ UNCHANGED <<listReq, listWire, moreWire>>
    BY <1>4 DEF MoreFailed, RunBlock, ListReply, MoreReply
  <2>2. PICK s : Quiet(s) /\ mainQueue' = Tail(mainQueue) \o s
    BY <1>4, RefreshErrorPosts DEF MoreFailed
  <2>3. mainQueue' \in Seq(Block) /\ AnswersHaveRequests'
    BY <2>1, <2>2, TypedAnswersRun
  <2> QED
    BY <1>4, <1>t, <2>3, RefreshErrorPosts
    DEF MoreFailed, TypedAnswers, TypeOK, ScreenTypeOK
<1>5. CASE DisposedReply
  <2>1. /\ mainQueue # <<>> /\ mainQueue' = Tail(mainQueue) \o <<>> /\ UNCHANGED modelVars
        /\ Head(mainQueue) \notin ListReply /\ Head(mainQueue) \notin MoreReply
    BY <1>5 DEF DisposedReply, RunBlock, RunAndPost, ListReply, MoreReply
  <2>2. mainQueue' \in Seq(Block) /\ AnswersHaveRequests'
    BY <2>1, PostedBlocks, TypedAnswersRun DEF modelVars
  <2> QED
    BY <1>5, <1>t, <2>2 DEF DisposedReply, TypedAnswers, TypeOK, ScreenTypeOK, modelVars
<1> QED
  BY <1>1, <1>2, <1>3, <1>4, <1>5 DEF ReplyBlock

LEMMA TypedAnswersStep == TypedAnswers /\ [Next]_vars => TypedAnswers'
<1> SUFFICES ASSUME TypedAnswers, [Next]_vars PROVE TypedAnswers'
  OBVIOUS
<1>1. CASE Next
  BY <1>1, TypedAnswersScreen, TypedAnswersStart, TypedAnswersReply, TypedAnswersAnswer
  DEF Next, RunMainQueue
<1>2. CASE UNCHANGED vars
  BY <1>2 DEF vars, screenVars, modelVars, TypedAnswers, TypeOK, ScreenTypeOK,
     AnswersHaveRequests
<1> QED
  BY <1>1, <1>2

LEMMA TypedAnswersInvariant == Spec => []TypedAnswers
BY TypedAnswersInit, TypedAnswersStep, PTL DEF Spec

(* The screen and the view model only ever hold values of their types: the  *)
(* header asks for page 0 and the footer for a later page.                  *)
THEOREM TypeCorrect == Spec => []TypeOK
<1>1. TypedAnswers => TypeOK
  BY DEF TypedAnswers
<1> QED
  BY <1>1, TypedAnswersInvariant, PTL

(* An answer that is delivered always has its request, however the two      *)
(* kinds of request and their answers interleave.                           *)
THEOREM AnswersCorrect == Spec => []AnswersHaveRequests
<1>1. TypedAnswers => AnswersHaveRequests
  BY DEF TypedAnswers
<1> QED
  BY <1>1, TypedAnswersInvariant, PTL

-----------------------------------------------------------------------------
(* The activity counter.                                                    *)

LEMMA LoadingStep ==
    ASSUME TypedAnswers, LoadingCountsRequests, [Next]_vars
    PROVE  LoadingCountsRequests'
<1> USE DEF LoadingCountsRequests, NoRequest
<1>t. loading \in Int /\ page \in Nat
  BY DEF TypedAnswers, TypeOK
<1>1. CASE ScrollToFooter \/ Gesture \/ Draw \/ EndAnimation \/ ControlBlock
           \/ ListAnswered \/ MoreAnswered \/ DisposedReply \/ UNCHANGED vars
  BY <1>1 DEF ScrollToFooter, Gesture, Draw, EndAnimation, ControlBlock, ListAnswered,
     AnswerList, MoreAnswered, AnswerMore, DisposedReply, modelVars, vars
<1>2. CASE LoadList
  BY <1>2, <1>t DEF LoadList, LoadingAfterStart
<1>3. CASE LoadMore
  BY <1>3, <1>t DEF LoadMore, LoadingAfterStart
<1>4. CASE ListLoaded
  BY <1>4, <1>t, AnswerOfRequest DEF ListLoaded
<1>5. CASE MoreLoaded
  BY <1>5, <1>t, AnswerOfRequest DEF MoreLoaded
<1>6. CASE ListFailed
  BY <1>6, <1>t, AnswerOfRequest DEF ListFailed, RefreshError
<1>7. CASE MoreFailed
  BY <1>7, <1>t, AnswerOfRequest DEF MoreFailed, RefreshError
<1> QED
  BY <1>1, <1>2, <1>3, <1>4, <1>5, <1>6, <1>7 DEF Next, RunMainQueue, ReplyBlock

(* loading counts the requests under way: isLoading can neither stay true   *)
(* after the last request nor turn false before it.                         *)
THEOREM LoadingCorrect == Spec => []LoadingCountsRequests
<1>1. Init => LoadingCountsRequests
  BY DEF Init, LoadingCountsRequests
<1>2. TypedAnswers /\ LoadingCountsRequests /\ [Next]_vars => LoadingCountsRequests'
  BY LoadingStep
<1> QED
  BY <1>1, <1>2, TypedAnswersInvariant, PTL DEF Spec

-----------------------------------------------------------------------------
(* The spinners.                                                            *)

(* A block stays in the queue while others are posted, and until it runs.   *)
LEMMA QueuedPost ==
    ASSUME TypeOK, NEW s \in Seq(Block), NEW b
    PROVE  /\ mainQueue' = mainQueue \o s => (Queued(b)' <=> Queued(b) \/ Has(s, b))
           /\ mainQueue # <<>> /\ mainQueue' = Tail(mainQueue) \o s =>
                /\ Queued(b) => Queued(b)' \/ Head(mainQueue) = b
                /\ Has(s, b) => Queued(b)'
                /\ Queued(b)' => Queued(b) \/ Has(s, b)
<1> DEFINE t == Tail(mainQueue)
<1>1. mainQueue' = mainQueue \o s => (Queued(b)' <=> Queued(b) \/ Has(s, b))
  BY HasConcat DEF TypeOK, Queued
<1>2. mainQueue # <<>> =>
        /\ t \in Seq(Block)
        /\ Has(t, b) => Has(mainQueue, b)
        /\ Has(mainQueue, b) => Has(t, b) \/ Head(mainQueue) = b
  BY HasTail DEF TypeOK
<1> HIDE DEF t
<1>3. mainQueue # <<>> => (Has(t \o s, b) <=> Has(t, b) \/ Has(s, b))
  BY <1>2, HasConcat
<1> QED
  BY <1>1, <1>2, <1>3 DEF Queued, t

LEMMA QueuedDispose ==
    ASSUME TypeOK, mainQueue # <<>>, NEW replies, NEW b, b \notin replies, b # "disposed",
           mainQueue' = DisposedQueue(Tail(mainQueue), replies)
    PROVE  /\ Queued(b) => Queued(b)' \/ Head(mainQueue) = b
           /\ Queued(b)' => Queued(b)
<1> DEFINE t == Tail(mainQueue)
<1>1. /\ t \in Seq(Block)
      /\ Has(mainQueue, b) => Has(t, b) \/ Head(mainQueue) = b
      /\ Has(t, b) => Has(mainQueue, b)
  BY HasTail DEF TypeOK
<1>d. "disposed" \in Block
  BY DEF Block
<1> HIDE DEF t
<1>2. Has(DisposedQueue(t, replies), b) <=> Has(t, b)
  BY <1>1, <1>d, HasDisposed
<1> QED
  BY <1>1, <1>2 DEF Queued, t

(* Each step relates the queue after it to the queue before it.             *)
LEMMA SpinnerPosts ==
    /\ \A b : Has(<<b>>, b)
    /\ Has(HeaderErrorBlocks, "hdrIdle")
    /\ Has(HeaderSuccessBlocks, "hdrIdle")
    /\ Has(HeaderSuccessBlocks, "ftrIdle")
    /\ \A s : footer = "Refreshing" =>
          Has(FooterStateBlocks(s), "ftrIdle") \/ Has(FooterStateBlocks(s), "ftrNoMore")
BY DEF Has, HeaderErrorBlocks, HeaderSuccessBlocks, FooterStateBlocks

(* A network answer posts one block.                                        *)
LEMMA AnswerPosts ==
    ASSUME ListAnswered \/ MoreAnswered
    PROVE  /\ \E s \in Seq(Block) : mainQueue' = mainQueue \o s
           /\ UNCHANGED <<listReq, moreReq, animating>>
<1>1. PICK r \in ListReply \cup MoreReply : AnswerList(r) \/ AnswerMore(r)
  BY DEF ListAnswered, MoreAnswered
<1>2. <<r>> \in Seq(Block)
  BY DEF Block
<1>3. mainQueue' = mainQueue \o <<r>> /\ UNCHANGED <<listReq, moreReq, animating>>
  BY <1>1 DEF AnswerList, AnswerMore, Post, modelVars
<1> QED
  BY <1>2, <1>3

LEMMA HeaderSpinnerStep ==
    ASSUME TypedAnswers, HeaderSpinnerIsBacked, [Next]_vars
    PROVE  HeaderSpinnerIsBacked'
<1> SUFFICES ASSUME header' = "Refreshing"
             PROVE  \/ Queued("hdrAnimate")' \/ animating' > 0 \/ Queued("hdrCallback")'
                    \/ listReq' # NoRequest \/ Queued("hdrIdle")'
  BY DEF HeaderSpinnerIsBacked
<1>t. TypeOK /\ animating \in Nat
  BY DEF TypedAnswers, TypeOK, ScreenTypeOK
<1>s. \A b \in ScreenBlock : <<b>> \in Seq(Block)
  BY PostedBlocks DEF Quiet
<1>e. <<>> \in Seq(Block)
  OBVIOUS
<1>1. CASE ScrollToFooter
  <2>1. mainQueue' = mainQueue \o <<"ftrCallback">>
    BY <1>1 DEF ScrollToFooter, ReachFooter, Post
  <2>2. \A b : Queued(b) => Queued(b)'
    BY <1>t, <1>s, <2>1, QueuedPost DEF ScreenBlock
  <2> QED
    BY <1>1, <2>2 DEF ScrollToFooter, ReachFooter, modelVars, HeaderSpinnerIsBacked
<1>2. CASE header # "Refreshing"
  <2>1. CASE Gesture \/ Draw
    <3>1. mainQueue' = mainQueue \o <<"hdrAnimate">>
      BY <1>2, <2>1 DEF Gesture, PullHeader, UnpullHeader, ReleaseHeader, Appear, Disappear,
         Draw, DrawHeader, BeginHeader, Post
    <3> QED
      BY <1>t, <1>s, <3>1, QueuedPost, SpinnerPosts DEF ScreenBlock
  <2> QED
    BY <1>2, <1>1, <2>1 DEF Next, EndAnimation, AnimationDone, RunMainQueue, ControlBlock,
       MainQueueStep, AnimateHeader, IdleHeader, IdleFooter, NoMoreFooter, LoadList, LoadMore,
       ReplyBlock, ListLoaded, ListFailed, MoreLoaded, MoreFailed, DisposedReply, ListAnswered,
       AnswerList, MoreAnswered, AnswerMore, vars, screenVars
<1>3. CASE header = "Refreshing"
  <2>0. \/ Queued("hdrAnimate") \/ animating > 0 \/ Queued("hdrCallback")
        \/ listReq # NoRequest \/ Queued("hdrIdle")
    BY <1>3 DEF HeaderSpinnerIsBacked
  <2>1. CASE Gesture \/ Draw
    <3>1. \/ mainQueue' = mainQueue
          \/ mainQueue' = mainQueue \o <<"hdrIdle">>
      BY <1>3, <2>1 DEF Gesture, PullHeader, UnpullHeader, ReleaseHeader, Appear, Disappear,
         Draw, DrawHeader, BeginHeader, Post
    <3>2. animating' = animating /\ listReq' = listReq
      BY <2>1 DEF Gesture, PullHeader, UnpullHeader, ReleaseHeader, Appear, Disappear,
         Draw, DrawHeader, modelVars
    <3>3. CASE mainQueue' = mainQueue
      BY <2>0, <3>2, <3>3 DEF Queued
    <3>4. CASE mainQueue' = mainQueue \o <<"hdrIdle">>
      BY <1>t, <1>s, <3>4, QueuedPost, SpinnerPosts DEF ScreenBlock
    <3> QED
      BY <3>1, <3>3, <3>4
  <2>2. CASE EndAnimation
    BY <1>t, <1>s, <2>2, QueuedPost, SpinnerPosts
    DEF EndAnimation, AnimationDone, Post, ScreenBlock
  <2>3. CASE ControlBlock
    <3>1. /\ mainQueue # <<>> /\ mainQueue' = Tail(mainQueue) \o <<>>
          /\ listReq' = listReq
          /\ Head(mainQueue) \in {"hdrAnimate", "ftrIdle", "ftrNoMore"}
          /\ animating' = animating \/ animating' = animating + 1
          /\ Head(mainQueue) = "hdrAnimate" => animating' = animating + 1
      BY <2>3 DEF ControlBlock, MainQueueStep, AnimateHeader, IdleHeader, IdleFooter,
         NoMoreFooter, RunBlock, RunAndPost, modelVars
    <3>2. \A b : Queued(b) => Queued(b)' \/ Head(mainQueue) = b
      BY <1>t, <1>e, <3>1, QueuedPost
    <3> QED
      BY <1>t, <2>0, <3>1, <3>2
  <2>4. CASE LoadList
    BY <2>4 DEF LoadList, NoRequest
  <2>5. CASE LoadMore
    <3>1. /\ mainQueue # <<>> /\ Head(mainQueue) = "ftrCallback"
          /\ mainQueue' = DisposedQueue(Tail(mainQueue), MoreReply)
          /\ listReq' = listReq /\ animating' = animating
      BY <2>5 DEF LoadMore, RunBlock
    <3>2. \A b \in {"hdrAnimate", "hdrCallback", "hdrIdle"} : Queued(b) => Queued(b)'
      BY <1>t, <3>1, QueuedDispose DEF MoreReply
    <3> QED
      BY <2>0, <3>1, <3>2
  <2>6. CASE ListLoaded \/ ListFailed \/ MoreFailed
    <3>1. PICK s, t \in Seq(Block) : /\ mainQueue' = Tail(mainQueue) \o (s \o t)
                                    /\ Has(s, "hdrIdle")
      BY ZenonT(60), <2>6, PostedBlocks, SpinnerPosts
      DEF ListLoaded, ListFailed, MoreFailed, RefreshError, RunAndPost, Quiet
    <3>2. s \o t \in Seq(Block) /\ Has(s \o t, "hdrIdle")
      BY <3>1, HasConcat
    <3> QED
      BY <1>t, <2>6, <3>1, <3>2, QueuedPost DEF ListLoaded, ListFailed, MoreFailed, RunBlock
  <2>7. CASE MoreLoaded \/ DisposedReply
    <3>1. \E s \in Seq(Block) : mainQueue' = Tail(mainQueue) \o s
      BY <1>e, <2>7, PostedBlocks DEF MoreLoaded, DisposedReply, RunAndPost, Quiet
    <3>2. /\ mainQueue # <<>> /\ Head(mainQueue) \in {"moreOk", "disposed"}
          /\ listReq' = listReq /\ animating' = animating
      BY <2>7 DEF MoreLoaded, DisposedReply, RunBlock, modelVars
    <3>3. \A b : Queued(b) => Queued(b)' \/ Head(mainQueue) = b
      BY <1>t, <3>1, <3>2, QueuedPost
    <3> QED
      BY <2>0, <3>2, <3>3
  <2>8. CASE ListAnswered \/ MoreAnswered
    <3>1. /\ \E s \in Seq(Block) : mainQueue' = mainQueue \o s
          /\ listReq' = listReq /\ animating' = animating
      BY <2>8, AnswerPosts
    <3>2. \A b : Queued(b) => Queued(b)'
      BY <1>t, <3>1, QueuedPost
    <3> QED
      BY <2>0, <3>1, <3>2
  <2>9. CASE UNCHANGED vars
    BY <2>0, <2>9 DEF vars, screenVars, modelVars, Queued
  <2> QED
    BY <1>1, <2>1, <2>2, <2>3, <2>4, <2>5, <2>6, <2>7, <2>8, <2>9
    DEF Next, RunMainQueue, ReplyBlock
<1> QED
  BY <1>2, <1>3

(* A refreshing header always has something under way that makes it idle.   *)
THEOREM HeaderSpinnerCorrect == Spec => []HeaderSpinnerIsBacked
<1>1. Init => HeaderSpinnerIsBacked
  BY DEF Init, ScreenInit, HeaderSpinnerIsBacked
<1>2. TypedAnswers /\ HeaderSpinnerIsBacked /\ [Next]_vars => HeaderSpinnerIsBacked'
  BY HeaderSpinnerStep
<1> QED
  BY <1>1, <1>2, TypedAnswersInvariant, PTL DEF Spec

LEMMA FooterSpinnerStep ==
    ASSUME TypedAnswers, FooterSpinnerIsBacked, [Next]_vars
    PROVE  FooterSpinnerIsBacked'
<1> SUFFICES ASSUME footer' = "Refreshing"
             PROVE  \/ Queued("ftrCallback")' \/ moreReq' # NoRequest
                    \/ Queued("ftrIdle")' \/ Queued("ftrNoMore")'
  BY DEF FooterSpinnerIsBacked
<1>t. TypeOK /\ page \in Nat
  BY DEF TypedAnswers, TypeOK
<1>s. \A b \in ScreenBlock : <<b>> \in Seq(Block)
  BY PostedBlocks DEF Quiet
<1>e. <<>> \in Seq(Block)
  OBVIOUS
<1>1. CASE ScrollToFooter
  BY <1>t, <1>s, <1>1, QueuedPost, SpinnerPosts
  DEF ScrollToFooter, ReachFooter, Post, ScreenBlock
<1>2. CASE footer # "Refreshing"
  BY <1>1, <1>2 DEF Next, Gesture, PullHeader, UnpullHeader, ReleaseHeader, Appear, Disappear,
     Draw, DrawHeader, EndAnimation, AnimationDone, RunMainQueue, ControlBlock, MainQueueStep,
     AnimateHeader, IdleHeader, IdleFooter, NoMoreFooter, LoadList, LoadMore, ReplyBlock,
     ListLoaded, ListFailed, MoreLoaded, MoreFailed, RefreshError, BindFooterState,
     DisposedReply, ListAnswered, AnswerList, MoreAnswered, AnswerMore, vars, screenVars
<1>3. CASE footer = "Refreshing"
  <2>0. \/ Queued("ftrCallback") \/ moreReq # NoRequest
        \/ Queued("ftrIdle") \/ Queued("ftrNoMore")
    BY <1>3 DEF FooterSpinnerIsBacked
  <2>1. CASE Gesture \/ Draw \/ EndAnimation \/ ListAnswered \/ MoreAnswered
    <3>1. \/ mainQueue' = mainQueue
          \/ \E s \in Seq(Block) : mainQueue' = mainQueue \o s
      <4>1. CASE ListAnswered \/ MoreAnswered
        BY <4>1, AnswerPosts
      <4>2. CASE Gesture \/ Draw \/ EndAnimation
        <5>1. \/ mainQueue' = mainQueue
              \/ \E s \in {<<>>, <<"hdrAnimate">>, <<"hdrIdle">>, <<"hdrCallback">>} :
                    mainQueue' = mainQueue \o s
          BY <4>2 DEF Gesture, PullHeader, UnpullHeader, ReleaseHeader, Appear, Disappear,
             Draw, DrawHeader, BeginHeader, EndAnimation, AnimationDone, Post
        <5> QED
          BY <5>1, <1>s, <1>e DEF ScreenBlock
      <4> QED
        BY <2>1, <4>1, <4>2
    <3>2. moreReq' = moreReq
      BY <2>1, AnswerPosts DEF Gesture, Draw, EndAnimation, modelVars
    <3>3. \A b : Queued(b) => Queued(b)'
      BY <1>t, <3>1, QueuedPost DEF Queued
    <3> QED
      BY <2>0, <3>2, <3>3
  <2>2. CASE ControlBlock \/ DisposedReply
    <3>1. /\ mainQueue # <<>> /\ mainQueue' = Tail(mainQueue) \o <<>>
          /\ moreReq' = moreReq
          /\ Head(mainQueue) \in {"hdrAnimate", "hdrIdle", "disposed"}
      BY <1>3, <2>2 DEF ControlBlock, MainQueueStep, AnimateHeader, IdleHeader, IdleFooter,
         NoMoreFooter, DisposedReply, RunBlock, RunAndPost, modelVars
    <3>2. \A b : Queued(b) => Queued(b)' \/ Head(mainQueue) = b
      BY <1>t, <1>e, <3>1, QueuedPost
    <3> QED
      BY <2>0, <3>1, <3>2
  <2>3. CASE LoadMore
    BY <1>t, <2>3 DEF LoadMore, NoRequest
  <2>4. CASE LoadList
    <3>1. /\ mainQueue # <<>> /\ Head(mainQueue) = "hdrCallback"
          /\ mainQueue' = DisposedQueue(Tail(mainQueue), ListReply)
          /\ moreReq' = moreReq
      BY <2>4 DEF LoadList, RunBlock
    <3>2. \A b \in {"ftrCallback", "ftrIdle", "ftrNoMore"} : Queued(b) => Queued(b)'
      BY <1>t, <3>1, QueuedDispose DEF ListReply
    <3> QED
      BY <2>0, <3>1, <3>2
  <2>5. CASE ListLoaded \/ ListFailed \/ MoreLoaded \/ MoreFailed
    <3> DEFINE Posted(r, s) == mainQueue' = Tail(mainQueue) \o (r \o FooterStateBlocks(s))
               R == {<<>>, HeaderSuccessBlocks, HeaderErrorBlocks}
    <3>1. \E r \in R : \E s : Posted(r, s)
      <4>1. CASE ListLoaded
        <5>1. Posted(HeaderSuccessBlocks, "default")
          BY <4>1 DEF ListLoaded, RunAndPost
        <5> QED
          BY <5>1
      <4>2. CASE MoreLoaded
        <5> DEFINE state == IF Len(Items(moreReq)) > 0 THEN "default" ELSE "noMoreData"
        <5>1. <<>> \o FooterStateBlocks(state) = FooterStateBlocks(state)
          BY PostedBlocks DEF Quiet
        <5>2. Posted(<<>>, state)
          BY <4>2, <5>1 DEF MoreLoaded, RunAndPost
        <5> QED
          BY <5>2
      <4>3. CASE ListFailed \/ MoreFailed
        <5>1. Posted(HeaderErrorBlocks, FooterErrorState(itemList = <<>>))
          BY <4>3 DEF ListFailed, MoreFailed, RefreshError, RunAndPost
        <5> QED
          BY <5>1
      <4> QED
        BY <2>5, <4>1, <4>2, <4>3
    <3>2. PICK r \in R : \E s : Posted(r, s)
      BY <3>1
    <3>2a. PICK s : Posted(r, s)
      BY <3>2
    <3>3. r \in Seq(Block) /\ FooterStateBlocks(s) \in Seq(Block)
      BY <3>2, PostedBlocks DEF Quiet
    <3>4. \/ Has(r \o FooterStateBlocks(s), "ftrIdle")
          \/ Has(r \o FooterStateBlocks(s), "ftrNoMore")
      BY <1>3, <3>3, HasConcat, SpinnerPosts
    <3>5. r \o FooterStateBlocks(s) \in Seq(Block) /\ mainQueue # <<>>
      BY <2>5, <3>3 DEF ListLoaded, ListFailed, MoreLoaded, MoreFailed, RunBlock
    <3> QED
      BY <1>t, <3>2a, <3>4, <3>5, QueuedPost
  <2>6. CASE UNCHANGED vars
    BY <2>0, <2>6 DEF vars, screenVars, modelVars, Queued
  <2> QED
    BY <1>1, <2>1, <2>2, <2>3, <2>4, <2>5, <2>6 DEF Next, RunMainQueue, ReplyBlock
<1> QED
  BY <1>2, <1>3

(* A footer that spins always has something under way that stops it.        *)
THEOREM FooterSpinnerCorrect == Spec => []FooterSpinnerIsBacked
<1>1. Init => FooterSpinnerIsBacked
  BY DEF Init, ScreenInit, FooterSpinnerIsBacked
<1>2. TypedAnswers /\ FooterSpinnerIsBacked /\ [Next]_vars => FooterSpinnerIsBacked'
  BY FooterSpinnerStep
<1> QED
  BY <1>1, <1>2, TypedAnswersInvariant, PTL DEF Spec

(* Neither spinner is ever left with nothing under way that will stop it.   *)
THEOREM SpinnersCorrect == Spec => []SpinnersAreBacked
<1>1. HeaderSpinnerIsBacked /\ FooterSpinnerIsBacked => SpinnersAreBacked
  BY DEF SpinnersAreBacked
<1> QED
  BY <1>1, HeaderSpinnerCorrect, FooterSpinnerCorrect, PTL

(* Each request is counted once and answered once.                          *)
THEOREM RequestsCorrect == Spec => []RequestsAreAccounted
<1>1. LoadingCountsRequests /\ AnswersHaveRequests => RequestsAreAccounted
  BY DEF RequestsAreAccounted
<1> QED
  BY <1>1, LoadingCorrect, AnswersCorrect, PTL

-----------------------------------------------------------------------------
(* The empty list.                                                          *)

LEMMA QueuedHead ==
    ASSUME TypeOK, NEW b, RunBlock(b)
    PROVE  Queued(b)
<1>1. 1 \in 1..Len(mainQueue) /\ mainQueue[1] = Head(mainQueue)
  BY DEF TypeOK, RunBlock
<1> QED
  BY <1>1 DEF RunBlock, Queued, Has

(* The blocks of a step that are neither a callback nor a NoMoreData.       *)
LEMMA OtherPosts ==
    /\ \A b \in {"hdrAnimate", "hdrIdle", "hdrCallback"} \cup ListReply \cup MoreReply :
          /\ <<b>> \in Seq(Block)
          /\ ~Has(<<b>>, "ftrCallback") /\ ~Has(<<b>>, "ftrNoMore")
    /\ ~Has(<<>>, "ftrCallback") /\ ~Has(<<>>, "ftrNoMore") /\ <<>> \in Seq(Block)
BY DEF Has, Block, ScreenBlock, ListReply, MoreReply

LEMMA EmptyListStep ==
    ASSUME TypedAnswers, NothingBelowAnEmptyList, [Next]_vars
    PROVE  NothingBelowAnEmptyList'
<1> SUFFICES ASSUME NumPages > 0, itemList' = <<>>
             PROVE  /\ footerHidden' /\ footer' = "Idle" /\ moreReq' = NoRequest
                    /\ ~Queued("ftrCallback")' /\ ~Queued("ftrNoMore")'
  BY DEF NothingBelowAnEmptyList
<1>t. TypeOK /\ itemList \in Seq(Nat)
  BY DEF TypedAnswers, TypeOK
<1>1. ~ListLoaded
  <2> SUFFICES ASSUME ListLoaded PROVE FALSE
    OBVIOUS
  <2>1. itemList' = <<0>>
    BY AnswerOfRequest DEF ListLoaded, Items
  <2> QED
    BY <2>1
<1>2. itemList = <<>> \/ ~MoreLoaded
  <2> SUFFICES ASSUME MoreLoaded PROVE itemList = <<>>
    OBVIOUS
  <2>1. itemList' = itemList \o Items(moreReq) /\ moreReq \in Nat
    BY AnswerOfRequest DEF MoreLoaded
  <2>2. Items(moreReq) \in Seq(Nat)
    BY <2>1 DEF Items
  <2>3. Len(itemList \o Items(moreReq)) = Len(itemList) + Len(Items(moreReq))
        /\ Len(itemList) \in Nat /\ Len(Items(moreReq)) \in Nat
    BY <1>t, <2>2
  <2>4. itemList \o Items(moreReq) = <<>>
    BY <2>1
  <2>5. Len(itemList \o Items(moreReq)) = 0
    BY <2>4
  <2>6. Len(itemList) = 0
    BY <2>3, <2>5
  <2> QED
    BY <1>t, <2>6
<1>3. itemList = <<>>
  BY <1>1, <1>2 DEF Next, ScrollToFooter, Gesture, Draw, EndAnimation, RunMainQueue,
     ControlBlock, LoadList, LoadMore, ReplyBlock, ListFailed, MoreFailed, DisposedReply,
     ListAnswered, AnswerList, MoreAnswered, AnswerMore, modelVars, vars
<1>4. /\ footerHidden /\ footer = "Idle" /\ moreReq = NoRequest
      /\ ~Queued("ftrCallback") /\ ~Queued("ftrNoMore")
  BY <1>3 DEF NothingBelowAnEmptyList
<1>5. /\ ~ScrollToFooter /\ ~LoadMore /\ ~MoreLoaded /\ ~MoreFailed /\ ~NoMoreFooter
      /\ ~MoreAnswered
  <2>1. ~RunBlock("ftrCallback") /\ ~RunBlock("ftrNoMore")
    BY <1>t, <1>4, QueuedHead
  <2>2. ~RunBlock("moreOk") /\ ~RunBlock("moreFail")
    BY <1>4, AnswerOfRequest DEF NoRequest
  <2>3. ~moreWire
    BY <1>4 DEF TypedAnswers, AnswersHaveRequests, OwedOnce
  <2> QED
    BY <1>4, <2>1, <2>2, <2>3 DEF ScrollToFooter, ReachFooter, LoadMore, MoreLoaded, MoreFailed,
       NoMoreFooter, MoreAnswered, AnswerMore
<1> DEFINE Same == UNCHANGED <<footer, footerHidden, moreReq>>
<1>6. CASE Gesture \/ Draw \/ EndAnimation \/ ListAnswered
  <2>1. Same
    BY <1>6 DEF Gesture, PullHeader, UnpullHeader, ReleaseHeader, Appear, Disappear, Draw,
       DrawHeader, EndAnimation, AnimationDone, ListAnswered, AnswerList, modelVars
  <2>2. \/ mainQueue' = mainQueue
        \/ mainQueue' = mainQueue \o <<>>
        \/ \E b \in {"hdrAnimate", "hdrIdle", "hdrCallback"} \cup ListReply :
             mainQueue' = mainQueue \o <<b>>
    <3>1. CASE ListAnswered
      BY <3>1 DEF ListAnswered, AnswerList, Post
    <3>2. CASE Gesture \/ Draw \/ EndAnimation
      BY <3>2 DEF Gesture, PullHeader, UnpullHeader, ReleaseHeader, Appear, Disappear, Draw,
         DrawHeader, BeginHeader, EndAnimation, AnimationDone, Post
    <3> QED
      BY <1>6, <3>1, <3>2
  <2>3. \A b \in {"ftrCallback", "ftrNoMore"} : Queued(b)' => Queued(b)
    BY <1>t, <2>2, QueuedPost, OtherPosts DEF Queued
  <2> QED
    BY <1>4, <2>1, <2>3
<1>7. CASE ControlBlock \/ DisposedReply
  <2>1. footerHidden' = footerHidden /\ footer' = "Idle" /\ moreReq' = moreReq
    <3>1. CASE DisposedReply
      BY <1>4, <3>1 DEF DisposedReply, modelVars
    <3>2. CASE ControlBlock
      <4>1. AnimateHeader \/ IdleHeader \/ IdleFooter
        BY <1>5, <3>2 DEF ControlBlock, MainQueueStep
      <4>2. moreReq' = moreReq
        BY <3>2 DEF ControlBlock, modelVars
      <4> QED
        BY <1>4, <4>1, <4>2 DEF AnimateHeader, IdleHeader, IdleFooter
    <3> QED
      BY <1>7, <3>1, <3>2
  <2>2. mainQueue # <<>> /\ mainQueue' = Tail(mainQueue) \o <<>>
    BY <1>7 DEF ControlBlock, MainQueueStep, AnimateHeader, IdleHeader, IdleFooter,
       NoMoreFooter, DisposedReply, RunBlock, RunAndPost
  <2>3. \A b \in {"ftrCallback", "ftrNoMore"} : Queued(b)' => Queued(b)
    BY <1>t, <2>2, QueuedPost, OtherPosts
  <2> QED
    BY <1>4, <2>1, <2>3
<1>8. CASE LoadList
  <2>1. /\ Same /\ mainQueue # <<>>
        /\ mainQueue' = DisposedQueue(Tail(mainQueue), ListReply)
    BY <1>8 DEF LoadList, RunBlock
  <2>2. \A b \in {"ftrCallback", "ftrNoMore"} : Queued(b)' => Queued(b)
    BY <1>t, <2>1, QueuedDispose DEF ListReply
  <2> QED
    BY <1>4, <2>1, <2>2
<1>9. CASE ListFailed
  <2>1. /\ footerHidden' /\ footer' = "Idle" /\ moreReq' = moreReq
        /\ mainQueue # <<>>
        /\ mainQueue' = Tail(mainQueue) \o (<<"hdrIdle">> \o <<"ftrIdle">>)
    BY <1>3, <1>4, <1>9 DEF ListFailed, RefreshError, RunBlock, RunAndPost, BindFooterState,
       FooterErrorState, FooterStateBlocks, HeaderErrorBlocks
  <2>2. /\ <<"hdrIdle">> \o <<"ftrIdle">> \in Seq(Block)
        /\ ~Has(<<"hdrIdle">> \o <<"ftrIdle">>, "ftrCallback")
        /\ ~Has(<<"hdrIdle">> \o <<"ftrIdle">>, "ftrNoMore")
    BY DEF Has, Block, ScreenBlock
  <2>3. \A b \in {"ftrCallback", "ftrNoMore"} : Queued(b)' => Queued(b)
    BY <1>t, <2>1, <2>2, QueuedPost
  <2> QED
    BY <1>4, <2>1, <2>3
<1>10. CASE UNCHANGED vars
  BY <1>4, <1>10 DEF vars, screenVars, modelVars, Queued
<1> QED
  BY <1>1, <1>5, <1>6, <1>7, <1>8, <1>9, <1>10 DEF Next, RunMainQueue, ReplyBlock

(* More is never loaded below a list that shows nothing.                    *)
THEOREM EmptyListCorrect == Spec => []NothingBelowAnEmptyList
<1>1. Init => NothingBelowAnEmptyList
  BY DEF Init, ScreenInit, NothingBelowAnEmptyList, Queued, Has
<1>2. TypedAnswers /\ NothingBelowAnEmptyList /\ [Next]_vars => NothingBelowAnEmptyList'
  BY EmptyListStep
<1> QED
  BY <1>1, <1>2, TypedAnswersInvariant, PTL DEF Spec

-----------------------------------------------------------------------------
(* The pages of the list.                                                   *)

(* What FirstPages and Items are, element by element.                       *)
LEMMA PagesByElement ==
    /\ \A n \in Nat : /\ FirstPages(n) \in Seq(Int)
                      /\ Len(FirstPages(n)) = IF n < NumPages THEN n ELSE NumPages
                      /\ \A i \in 1..Len(FirstPages(n)) : FirstPages(n)[i] = i - 1
    /\ \A p \in Nat : /\ Items(p) \in Seq(Int)
                      /\ Len(Items(p)) = IF p < NumPages THEN 1 ELSE 0
                      /\ p < NumPages => Items(p)[1] = p
<1> USE PagesAssumption
<1>1. ASSUME NEW n \in Nat
      PROVE  /\ FirstPages(n) \in Seq(Int)
             /\ Len(FirstPages(n)) = IF n < NumPages THEN n ELSE NumPages
             /\ \A i \in 1..Len(FirstPages(n)) : FirstPages(n)[i] = i - 1
  <2> DEFINE m == IF n < NumPages THEN n ELSE NumPages
  <2>1. m \in Nat
    OBVIOUS
  <2> HIDE DEF m
  <2>2. [i \in 1..m |-> i - 1] \in [1..m -> Int]
    BY <2>1
  <2>3. FirstPages(n) = [i \in 1..m |-> i - 1]
    BY DEF FirstPages, m
  <2> QED
    BY <2>1, <2>2, <2>3 DEF m
<1>2. \A p \in Nat : /\ Items(p) \in Seq(Int)
                     /\ Len(Items(p)) = IF p < NumPages THEN 1 ELSE 0
                     /\ p < NumPages => Items(p)[1] = p
  BY DEF Items
<1> QED
  BY <1>1, <1>2

(* The next page continues the pages before it.                             *)
LEMMA NextPage ==
    ASSUME NEW p \in Nat
    PROVE  FirstPages(p) \o Items(p) = FirstPages(p + 1)
<1> DEFINE a == FirstPages(p)
           t == Items(p)
           g == FirstPages(p + 1)
<1>n. NumPages \in Nat /\ p + 1 \in Nat
  BY PagesAssumption
<1>a. /\ a \in Seq(Int) /\ Len(a) = (IF p < NumPages THEN p ELSE NumPages)
      /\ \A i \in 1..Len(a) : a[i] = i - 1
  BY PagesByElement
<1>t. t \in Seq(Int) /\ Len(t) = (IF p < NumPages THEN 1 ELSE 0) /\ (p < NumPages => t[1] = p)
  BY PagesByElement
<1>g. /\ g \in Seq(Int) /\ Len(g) = (IF p + 1 < NumPages THEN p + 1 ELSE NumPages)
      /\ \A i \in 1..Len(g) : g[i] = i - 1
  BY <1>n, PagesByElement
<1> HIDE DEF a, t, g
<1>0. /\ a \o t \in Seq(Int) /\ Len(a \o t) = Len(a) + Len(t)
      /\ \A i \in 1..(Len(a) + Len(t)) :
            (a \o t)[i] = IF i <= Len(a) THEN a[i] ELSE t[i - Len(a)]
  <2>1. a \in Seq(Int) /\ t \in Seq(Int)
    BY <1>a, <1>t
  <2> QED
    BY <2>1, ConcatProperties, Zenon
<1>1. /\ a \o t \in Seq(Int) /\ Len(a \o t) = Len(a) + Len(t)
      /\ \A i \in 1..Len(a \o t) :
            (a \o t)[i] = IF i <= Len(a) THEN a[i] ELSE t[i - Len(a)]
  BY <1>0
<1>2. Len(a \o t) = Len(g)
  BY <1>n, <1>a, <1>t, <1>g, <1>1
<1>3. ASSUME NEW i \in 1..Len(a \o t) PROVE (a \o t)[i] = g[i]
  <2>1. CASE i <= Len(a)
    BY <1>a, <1>g, <1>1, <1>2, <2>1
  <2>2. CASE i > Len(a)
    <3>1. p < NumPages /\ Len(a) = p /\ i = p + 1 /\ i - Len(a) = 1
      BY <1>n, <1>a, <1>t, <1>1, <2>2
    <3>2. (a \o t)[i] = t[1]
      BY <1>1, <2>2, <3>1
    <3> QED
      BY <1>t, <1>g, <1>2, <3>1, <3>2
  <2> QED
    BY <1>a, <1>n, <2>1, <2>2
<1>4. a \o t = g
  BY <1>g, <1>1, <1>2, <1>3, SeqEqual
<1> QED
  BY <1>4 DEF a, t, g

(* Without pages there is nothing, and the first answer is the first page.  *)
LEMMA NoPages == FirstPages(0) = <<>> /\ (NumPages = 0 => \A p \in Nat : FirstPages(p) = <<>>)
<1>1. Len(FirstPages(0)) = 0 /\ FirstPages(0) \in Seq(Int)
  BY PagesByElement, PagesAssumption
<1>2. ASSUME NumPages = 0, NEW p \in Nat PROVE FirstPages(p) = <<>>
  <2>1. Len(FirstPages(p)) = 0 /\ FirstPages(p) \in Seq(Int)
    BY <1>2, PagesByElement
  <2> QED
    BY <2>1
<1> QED
  BY <1>1, <1>2

LEMMA FirstPage == Items(0) = FirstPages(1)
<1>1. FirstPages(0) \o Items(0) = FirstPages(0 + 1)
  BY NextPage
<1>2. Items(0) \in Seq(Int) /\ <<>> \o Items(0) = Items(0)
  <2>1. Items(0) \in Seq(Int)
    BY PagesByElement
  <2> QED
    BY <2>1
<1> QED
  BY <1>1, <1>2, NoPages

LEMMA OutOfStepStep ==
    ASSUME TypedAnswers, NothingBelowAnEmptyList, Next, InStep, ~RequestFails, ~RequestsOverlap
    PROVE  InStep'
<1> USE DEF NoRequest
<1>t. TypeOK /\ page \in Nat
  BY DEF TypedAnswers, TypeOK
<1>1. CASE ScrollToFooter \/ Gesture \/ Draw \/ EndAnimation \/ ControlBlock
           \/ DisposedReply \/ ListAnswered \/ MoreAnswered
  <2>1. UNCHANGED <<page, itemList, listReq, moreReq>>
    BY <1>1 DEF ScrollToFooter, Gesture, Draw, EndAnimation, ControlBlock, DisposedReply,
       ListAnswered, AnswerList, MoreAnswered, AnswerMore, modelVars
  <2> QED
    BY <2>1 DEF InStep
<1>2. CASE LoadList
  BY <1>2 DEF LoadList, RequestsOverlap, InStep
<1>3. CASE LoadMore
  <2>1. /\ RunBlock("ftrCallback") /\ listReq = NoRequest /\ moreReq = NoRequest
        /\ page' = page + 1 /\ moreReq' = page + 1
        /\ listReq' = NoRequest /\ itemList' = itemList
    BY <1>3 DEF LoadMore, RequestsOverlap
  <2>2. Queued("ftrCallback")
    BY <1>t, <2>1, QueuedHead
  <2>3. itemList = FirstPages(page + 1)
    <3>1. CASE itemList = <<>> /\ page = 0
      <4>1. NumPages = 0
        BY <2>2, <3>1, PagesAssumption DEF NothingBelowAnEmptyList
      <4> QED
        BY <1>t, <3>1, <4>1, NoPages
    <3> QED
      BY <1>t, <2>1, <3>1 DEF InStep
  <2> QED
    BY <2>1, <2>3 DEF InStep
<1>4. CASE ListLoaded
  <2>1. listReq = 0 /\ itemList' = Items(0)
        /\ listReq' = NoRequest /\ UNCHANGED <<page, moreReq>>
    BY <1>4, AnswerOfRequest DEF ListLoaded
  <2>2. page = 0 /\ moreReq = NoRequest
    BY <2>1 DEF InStep
  <2>3. itemList' = FirstPages(page' + 1)
    BY <2>1, <2>2, FirstPage
  <2> QED
    BY <2>1, <2>2, <2>3 DEF InStep
<1>5. CASE MoreLoaded
  <2>1. /\ moreReq \in Nat \ {0} /\ itemList' = itemList \o Items(moreReq)
        /\ moreReq' = NoRequest /\ UNCHANGED <<page, listReq>>
    BY <1>5, AnswerOfRequest DEF MoreLoaded
  <2>2. listReq = NoRequest /\ moreReq = page /\ itemList = FirstPages(page)
    BY <2>1 DEF InStep
  <2>3. itemList' = FirstPages(page' + 1)
    BY <1>t, <2>1, <2>2, NextPage
  <2> QED
    BY <2>1, <2>2, <2>3 DEF InStep
<1>6. ~ListFailed /\ ~MoreFailed
  BY DEF ListFailed, MoreFailed, RequestFails
<1> QED
  BY <1>1, <1>2, <1>3, <1>4, <1>5, <1>6 DEF Next, RunMainQueue, ReplyBlock

(* With any number of pages, and whatever the order of gestures, blocks and *)
(* answers, only a failed request or two overlapping ones make the list     *)
(* skip or repeat a page.                                                   *)
THEOREM PagingCorrect == Spec => OutOfStepOnlyByFailureOrOverlap
<1>1. TypedAnswers /\ NothingBelowAnEmptyList /\ [Next]_vars
        => [InStep /\ ~InStep' => RequestFails \/ RequestsOverlap]_vars
  <2> SUFFICES ASSUME TypedAnswers, NothingBelowAnEmptyList, [Next]_vars,
                      ~UNCHANGED vars, InStep, ~InStep'
               PROVE  RequestFails \/ RequestsOverlap
    OBVIOUS
  <2> QED
    BY OutOfStepStep
<1> QED
  BY <1>1, TypedAnswersInvariant, EmptyListCorrect, PTL
  DEF Spec, OutOfStepOnlyByFailureOrOverlap

-----------------------------------------------------------------------------
(***************************************************************************)
(* EmptyPlaceholder.  A step of it is a step of PagedList, so the           *)
(* invariants of PagedList hold; from the count of the requests follows     *)
(* when a reload sees isLoading.                                            *)
(***************************************************************************)

(* The invariants of PagedList the placeholder rests on.                    *)
ListInv == TypedAnswers /\ LoadingCountsRequests

(* The placeholder never shows before the controller is its source.         *)
PlaceholderHasSource == placeholder => emptyDataSetSource

EmptyInv ==
    /\ emptyVars \in BOOLEAN \X BOOLEAN \X BOOLEAN
    /\ PlaceholderHasSource
    /\ PlaceholderIsHonest
    /\ EmptyListSaysSo
    /\ ScrollsUnlessPlaceholder

-----------------------------------------------------------------------------
(* Every step with the placeholder is a step of the list.                   *)
LEMMA EmptyStepIsListStep == [EmptyNext]_allVars => [Next]_vars
<1>1. RunMain => RunMainQueue
  BY DEF RunMain, LoadListAndSetUp, LoadMoreAndReload, Deliver, Fail,
         OtherBlock, RunMainQueue, ReplyBlock
<1>2. PullList \/ OtherGesture => Gesture
  BY DEF PullList, OtherGesture, Gesture
<1>3. TapFooter => ScrollToFooter
  BY DEF TapFooter
<1>4. DrawList => Draw
  BY DEF DrawList
<1>5. EndPull => EndAnimation
  BY DEF EndPull
<1>6. (AnswersList => ListAnswered) /\ (AnswersMore => MoreAnswered)
  BY DEF AnswersList, AnswersMore
<1>7. UNCHANGED allVars => UNCHANGED vars
  BY DEF allVars
<1> QED
  BY <1>1, <1>2, <1>3, <1>4, <1>5, <1>6, <1>7 DEF EmptyNext, Next

LEMMA ListInvariant == EmptySpec => []ListInv
<1>1. ListInit => ListInv
  BY TypedAnswersInit DEF ListInit, ListInv, LoadingCountsRequests, Init
<1>2. ListInv /\ [EmptyNext]_allVars => ListInv'
  <2> SUFFICES ASSUME ListInv, [EmptyNext]_allVars
               PROVE  ListInv'
    OBVIOUS
  <2>1. [Next]_vars
    BY EmptyStepIsListStep
  <2>2. TypedAnswers'
    BY <2>1, TypedAnswersStep DEF ListInv
  <2>3. LoadingCountsRequests'
    BY <2>1, LoadingStep DEF ListInv
  <2> QED
    BY <2>2, <2>3 DEF ListInv
<1> QED
  BY <1>1, <1>2, PTL DEF EmptySpec

(* isLoading is false exactly while no request is under way.                *)
LEMMA IdleIsNotLoading ==
    ASSUME ListInv
    PROVE  /\ loading \in Nat
           /\ loading = 0 <=> listReq = NoRequest /\ moreReq = NoRequest
BY DEF ListInv, LoadingCountsRequests

-----------------------------------------------------------------------------
(* A reload decides rightly, whatever the step has changed before it.       *)
LEMMA ReloadKeepsEmptyInv ==
    ASSUME EmptyInv, ListInv', Reload,
           \/ emptyDataSetSource' = emptyDataSetSource
           \/ emptyDataSetSource' = TRUE /\ listReq' # NoRequest
    PROVE  EmptyInv'
<1>1. loading' = 0 <=> listReq' = NoRequest /\ moreReq' = NoRequest
  <2>1. (LoadingCountsRequests)'
    BY DEF ListInv
  <2> QED
    BY <2>1 DEF LoadingCountsRequests, NoRequest
<1>2. /\ emptyDataSetSource \in BOOLEAN
      /\ placeholder \in BOOLEAN
      /\ isScrollEnabled \in BOOLEAN
  BY DEF EmptyInv, emptyVars
<1>3. emptyDataSetSource' \in BOOLEAN
  BY <1>2
<1>4. CASE ~emptyDataSetSource /\ UNCHANGED <<placeholder, isScrollEnabled>>
  <2>1. placeholder = FALSE /\ placeholder' = FALSE
    BY <1>2, <1>4 DEF EmptyInv, PlaceholderHasSource
  <2>2. isScrollEnabled = TRUE /\ isScrollEnabled' = TRUE
    BY <1>2, <1>4, <2>1 DEF EmptyInv, ScrollsUnlessPlaceholder
  <2> QED
    BY <1>3, <1>4, <2>1, <2>2 DEF EmptyInv, emptyVars, PlaceholderHasSource,
       PlaceholderIsHonest, EmptyListSaysSo, ScrollsUnlessPlaceholder
<1>5. CASE /\ emptyDataSetSource
           /\ EmptyDataSetShouldDisplay /\ ~(itemList' # <<>>)
           /\ placeholder' = TRUE
           /\ isScrollEnabled' = EmptyDataSetShouldAllowScroll
  <2>1. listReq' = NoRequest /\ moreReq' = NoRequest
    BY <1>1, <1>5 DEF EmptyDataSetShouldDisplay
  <2>2. emptyDataSetSource' = TRUE
    BY <1>2, <1>5
  <2>3. isScrollEnabled' \in BOOLEAN
    BY <1>5 DEF EmptyDataSetShouldAllowScroll
  <2> QED
    BY <1>5, <2>1, <2>2, <2>3 DEF EmptyInv, emptyVars, PlaceholderHasSource,
       PlaceholderIsHonest, EmptyListSaysSo, ScrollsUnlessPlaceholder
<1>6. CASE /\ emptyDataSetSource
           /\ itemList' # <<>> \/ ~EmptyDataSetShouldDisplay
           /\ IF placeholder THEN Invalidate
                             ELSE UNCHANGED <<placeholder, isScrollEnabled>>
  <2>1. placeholder' = FALSE
    BY <1>2, <1>6 DEF Invalidate
  <2>2. isScrollEnabled' = TRUE
    BY <1>2, <1>6 DEF Invalidate, EmptyInv, ScrollsUnlessPlaceholder
  <2>3. ~(itemList' = <<>> /\ listReq' = NoRequest /\ moreReq' = NoRequest)
    BY <1>1, <1>6 DEF EmptyDataSetShouldDisplay
  <2> QED
    BY <1>3, <2>1, <2>2, <2>3 DEF EmptyInv, emptyVars, PlaceholderHasSource,
       PlaceholderIsHonest, EmptyListSaysSo, ScrollsUnlessPlaceholder
<1> QED
  BY <1>4, <1>5, <1>6 DEF Reload, ReloadEmptyDataSet

(* So does a step that reloads only when isLoading changes, if it leaves    *)
(* the list alone.                                                          *)
LEMMA BindKeepsEmptyInv ==
    ASSUME EmptyInv, ListInv, ListInv', BindReloadEmpty,
           UNCHANGED itemList,
           \/ emptyDataSetSource' = emptyDataSetSource
           \/ emptyDataSetSource' = TRUE /\ listReq' # NoRequest
    PROVE  EmptyInv'
<1>1. /\ loading \in Nat
      /\ loading = 0 <=> listReq = NoRequest /\ moreReq = NoRequest
  BY IdleIsNotLoading
<1>2. /\ loading' \in Nat
      /\ loading' = 0 <=> listReq' = NoRequest /\ moreReq' = NoRequest
  <2>1. (LoadingCountsRequests)'
    BY DEF ListInv
  <2> QED
    BY <2>1 DEF LoadingCountsRequests, NoRequest
<1>3. CASE (loading > 0) # (loading' > 0)
  <2>1. Reload
    BY <1>3 DEF BindReloadEmpty
  <2> QED
    BY <2>1, ReloadKeepsEmptyInv
<1>4. CASE (loading > 0) = (loading' > 0)
  <2>1. UNCHANGED <<placeholder, isScrollEnabled>>
    BY <1>4 DEF BindReloadEmpty
  <2>2. loading = 0 <=> loading' = 0
    BY <1>1, <1>2, <1>4
  <2>3. /\ emptyDataSetSource \in BOOLEAN
        /\ placeholder \in BOOLEAN
        /\ isScrollEnabled \in BOOLEAN
    BY DEF EmptyInv, emptyVars
  <2>4. emptyVars' \in BOOLEAN \X BOOLEAN \X BOOLEAN
    BY <2>1, <2>3 DEF emptyVars
  <2>5. PlaceholderHasSource'
    BY <2>1, <2>3 DEF EmptyInv, PlaceholderHasSource
  <2>6. PlaceholderIsHonest'
    BY <1>1, <1>2, <2>1, <2>2 DEF EmptyInv, PlaceholderIsHonest
  <2>7. EmptyListSaysSo'
    BY <1>1, <1>2, <2>1, <2>2 DEF EmptyInv, EmptyListSaysSo
  <2>8. ScrollsUnlessPlaceholder'
    BY <2>1 DEF EmptyInv, ScrollsUnlessPlaceholder
  <2> QED
    BY <2>4, <2>5, <2>6, <2>7, <2>8 DEF EmptyInv
<1> QED
  BY <1>3, <1>4

(* The steps that touch neither the list nor a request.                     *)
LEMMA QuietKeepsEmptyInv ==
    ASSUME EmptyInv, UNCHANGED emptyVars,
           UNCHANGED <<itemList, listReq, moreReq>>
    PROVE  EmptyInv'
BY DEF EmptyInv, emptyVars, PlaceholderHasSource, PlaceholderIsHonest,
       EmptyListSaysSo, ScrollsUnlessPlaceholder

LEMMA EmptyInvStep ==
    ASSUME EmptyInv, ListInv, ListInv', [EmptyNext]_allVars
    PROVE  EmptyInv'
<1>1. CASE LoadListAndSetUp
  <2>1. UNCHANGED itemList /\ listReq' = 0
    BY <1>1 DEF LoadListAndSetUp, LoadList
  <2>2. listReq' # NoRequest
    BY <2>1 DEF NoRequest
  <2> QED
    BY <1>1, <2>1, <2>2, BindKeepsEmptyInv DEF LoadListAndSetUp
<1>2. CASE LoadMoreAndReload
  <2>1. UNCHANGED itemList
    BY <1>2 DEF LoadMoreAndReload, LoadMore
  <2> QED
    BY <1>2, <2>1, BindKeepsEmptyInv DEF LoadMoreAndReload
<1>3. CASE Deliver
  BY <1>3, ReloadKeepsEmptyInv DEF Deliver
<1>4. CASE Fail
  <2>1. UNCHANGED itemList
    BY <1>4 DEF Fail, ListFailed, MoreFailed
  <2> QED
    BY <1>4, <2>1, BindKeepsEmptyInv DEF Fail
<1>5. CASE OtherBlock
  BY <1>5, QuietKeepsEmptyInv
     DEF OtherBlock, ControlBlock, DisposedReply, modelVars
<1>6. CASE PullList \/ OtherGesture
  BY <1>6, QuietKeepsEmptyInv DEF PullList, OtherGesture, modelVars, emptyVars
<1>7. CASE TapFooter \/ DrawList \/ EndPull
  BY <1>7, QuietKeepsEmptyInv
     DEF TapFooter, ScrollToFooter, DrawList, Draw, EndPull, EndAnimation, modelVars
<1>8. CASE AnswersList \/ AnswersMore
  BY <1>8, QuietKeepsEmptyInv DEF AnswersList, ListAnswered, AnswerList,
     AnswersMore, MoreAnswered, AnswerMore
<1>9. CASE UNCHANGED allVars
  BY <1>9, QuietKeepsEmptyInv DEF allVars, vars, modelVars
<1> QED
  BY <1>1, <1>2, <1>3, <1>4, <1>5, <1>6, <1>7, <1>8, <1>9
     DEF EmptyNext, RunMain

LEMMA EmptyInvariant == EmptySpec => []EmptyInv
<1>1. ListInit => EmptyInv
  BY DEF ListInit, EmptyInit, EmptyInv, emptyVars, PlaceholderHasSource,
     PlaceholderIsHonest, EmptyListSaysSo, ScrollsUnlessPlaceholder
<1>2. EmptyInv /\ ListInv /\ ListInv' /\ [EmptyNext]_allVars => EmptyInv'
  BY EmptyInvStep
<1> QED
  BY <1>1, <1>2, ListInvariant, PTL DEF EmptySpec

-----------------------------------------------------------------------------
(* The placeholder never shows above items or while something is asked for: *)
(* the decision of the last reload is never stale.                          *)
THEOREM PlaceholderHonest == EmptySpec => []PlaceholderIsHonest
<1>1. EmptyInv => PlaceholderIsHonest
  BY DEF EmptyInv
<1> QED
  BY <1>1, EmptyInvariant, PTL

(* No order of answers leaves a refreshed, empty and idle list without it.  *)
THEOREM EmptyListShown == EmptySpec => []EmptyListSaysSo
<1>1. EmptyInv => EmptyListSaysSo
  BY DEF EmptyInv
<1> QED
  BY <1>1, EmptyInvariant, PTL

(* Scrolling is never lost with the placeholder.                            *)
THEOREM ScrollingComesBack == EmptySpec => []ScrollsUnlessPlaceholder
<1>1. EmptyInv => ScrollsUnlessPlaceholder
  BY DEF EmptyInv
<1> QED
  BY <1>1, EmptyInvariant, PTL

-----------------------------------------------------------------------------
(***************************************************************************)
(* The community portal, on the same screen.                               *)
(***************************************************************************)
CONSTANT NumHot

VARIABLES listPage, zipped

Recommend == INSTANCE RecommendFeed

(* Each part of a refresh under way is owed exactly once: it is on the wire, *)
(* in the queue or in the zip; and so is the answer to a load of more.      *)
PartOwed(part) ==
    /\ OwedOnce(mainQueue, Recommend!PartReply(part), listPage,
                part \in listWire \/ part \in Recommend!Waiting)
    /\ ~(part \in listWire /\ part \in Recommend!Waiting)

AnswersOwed ==
    /\ \A part \in Recommend!Part : PartOwed(part)
    /\ OwedOnce(mainQueue, Recommend!MoreReply, moreReq, moreWire)

(* Only loads of more are counted.                                          *)
LoadingCountsMore == loading = IF moreReq = NoRequest THEN 0 ELSE 1

FeedOwed == Recommend!TypeOK /\ AnswersOwed /\ LoadingCountsMore

NoAnswers(s) ==
    /\ s \in Seq(Recommend!Block)
    /\ \A part \in Recommend!Part : HasNone(s, Recommend!PartReply(part))
    /\ HasNone(s, Recommend!MoreReply)

LEMMA FeedReplies ==
    /\ \A part \in Recommend!Part :
         /\ "disposed" \notin Recommend!PartReply(part)
         /\ Recommend!PartReply(part) \subseteq Recommend!ListReply
         /\ Recommend!PartReply(part) \cap Recommend!MoreReply = {}
         /\ Recommend!PartReply(part) \cap Recommend!ScreenBlock = {}
         /\ \A p \in Recommend!Part \ {part} :
              Recommend!PartReply(part) \cap Recommend!PartReply(p) = {}
    /\ \A b \in Recommend!ListReply : \E part \in Recommend!Part : b \in Recommend!PartReply(part)
    /\ "disposed" \notin Recommend!ListReply /\ "disposed" \notin Recommend!MoreReply
    /\ Recommend!ListReply \cap Recommend!MoreReply = {}
    /\ Recommend!ScreenBlock \cap Recommend!MoreReply = {}
    /\ Recommend!ListReply \subseteq Recommend!Block
    /\ Recommend!MoreReply \subseteq Recommend!Block
    /\ Recommend!ScreenBlock \subseteq Recommend!Block
    /\ "disposed" \in Recommend!Block
BY DEF Recommend!Part, Recommend!PartReply, Recommend!ListReply, Recommend!MoreReply,
   Recommend!ScreenBlock, Recommend!Block

(* The bindings and the controls post no answers.                           *)
LEMMA FeedPosts ==
    /\ NoAnswers(Recommend!HeaderSuccessBlocks)
    /\ NoAnswers(Recommend!HeaderErrorBlocks)
    /\ \A s : NoAnswers(Recommend!FooterStateBlocks(s))
    /\ \A b \in Recommend!ScreenBlock : NoAnswers(<<b>>)
    /\ NoAnswers(<<>>)
<1>1. ASSUME NEW b \in Recommend!ScreenBlock PROVE NoAnswers(<<b>>)
  BY FeedReplies DEF NoAnswers, HasNone, Has
<1>2. NoAnswers(<<>>)
  BY DEF NoAnswers, HasNone, Has
<1>3. {"ftrIdle", "hdrIdle", "ftrNoMore"} \subseteq Recommend!ScreenBlock
  BY DEF Recommend!ScreenBlock
<1>4. NoAnswers(<<"ftrIdle", "hdrIdle">>)
  <2>1. /\ "ftrIdle" \in Recommend!Block /\ "hdrIdle" \in Recommend!Block
        /\ \A R : "ftrIdle" \notin R /\ "hdrIdle" \notin R => HasNone(<<"ftrIdle", "hdrIdle">>, R)
    BY <1>3, FeedReplies DEF HasNone, Has
  <2> QED BY <1>3, <2>1, FeedReplies DEF NoAnswers
<1>5. \A s : NoAnswers(Recommend!FooterStateBlocks(s))
  BY <1>1, <1>2, <1>3 DEF Recommend!FooterStateBlocks
<1> QED
  BY <1>1, <1>2, <1>3, <1>4, <1>5 DEF Recommend!HeaderSuccessBlocks, Recommend!HeaderErrorBlocks

LEMMA NoAnswersConcat ==
    ASSUME NEW s, NoAnswers(s), NEW t, NoAnswers(t)
    PROVE  NoAnswers(s \o t)
BY HasConcat DEF NoAnswers, HasNone

LEMMA FeedInit == Recommend!Init => FeedOwed
<1> SUFFICES ASSUME Recommend!Init PROVE FeedOwed
  OBVIOUS
<1>1. mainQueue = <<"ftrIdle">> /\ NoAnswers(<<"ftrIdle">>)
  BY FeedPosts DEF Recommend!Init, Recommend!ScreenInit, Recommend!ScreenBlock
<1>2. \A R : HasNone(mainQueue, R) => Single(mainQueue, R)
  BY <1>1 DEF Single
<1>3. /\ page = 0 /\ loading = 0 /\ listPage = NoRequest /\ moreReq = NoRequest
      /\ listWire = {} /\ moreWire = FALSE /\ zipped = <<>> /\ itemList = <<>>
  BY DEF Recommend!Init, Recommend!NoRequest, NoRequest
<1>4. Recommend!Waiting = {}
  BY <1>3 DEF Recommend!Waiting
<1>5. AnswersOwed
  BY <1>1, <1>2, <1>3, <1>4 DEF AnswersOwed, PartOwed, OwedOnce, NoAnswers
<1>6. Recommend!ScreenTypeOK
  BY DEF Recommend!Init, Recommend!ScreenInit, Recommend!ScreenTypeOK, Recommend!HeaderState,
     Recommend!FooterState
<1>7. Recommend!TypeOK
  <2>1. mainQueue \in Seq(Recommend!Block)
    BY <1>1 DEF NoAnswers
  <2>2. itemList \in Seq(Nat \cup {Recommend!HotSection})
    BY <1>3
  <2> QED
    BY <1>3, <1>4, <1>6, <2>1, <2>2 DEF Recommend!TypeOK, Recommend!NoRequest, NoRequest
<1> QED
  BY <1>3, <1>5, <1>7 DEF FeedOwed, LoadingCountsMore

(* A step that leaves the feed alone and posts blocks of the controls.      *)
LEMMA FeedPost ==
    ASSUME FeedOwed, NEW s, NoAnswers(s), mainQueue' = mainQueue \o s,
           Recommend!ScreenTypeOK', UNCHANGED Recommend!feedVars
    PROVE  FeedOwed'
<1>1. mainQueue \in Seq(Recommend!Block) /\ s \in Seq(Recommend!Block)
  BY DEF FeedOwed, Recommend!TypeOK, NoAnswers
<1>2. mainQueue' \in Seq(Recommend!Block)
  BY <1>1
<1>3. UNCHANGED <<page, itemList, listPage, listWire, zipped, moreReq, moreWire, loading>>
  BY DEF Recommend!feedVars
<1>4. AnswersOwed'
  <2>1. OwedOnce(mainQueue \o s, Recommend!MoreReply, moreReq, moreWire)
    BY <1>1, OwedPost DEF FeedOwed, AnswersOwed, NoAnswers
  <2>2. ASSUME NEW part \in Recommend!Part PROVE PartOwed(part)'
    <3> DEFINE R == Recommend!PartReply(part)
               wire == part \in listWire \/ part \in Recommend!Waiting
    <3>1. OwedOnce(mainQueue, R, listPage, wire) /\ HasNone(s, R)
      BY DEF FeedOwed, AnswersOwed, PartOwed, NoAnswers
    <3>2. OwedOnce(mainQueue \o s, R, listPage, wire)
      <4> HIDE DEF R, wire
      <4> QED BY <1>1, <3>1, OwedPost
    <3> QED
      BY <1>3, <3>2 DEF FeedOwed, AnswersOwed, PartOwed, Recommend!Waiting, OwedOnce
  <2> QED
    BY <1>3, <2>1, <2>2 DEF AnswersOwed
<1> QED
  BY <1>2, <1>3, <1>4 DEF FeedOwed, Recommend!TypeOK, Recommend!Waiting, LoadingCountsMore

(* A step that runs a block which answers no part, and posts blocks of the  *)
(* controls; a load of more ends when its answer runs.                      *)
LEMMA FeedRun ==
    ASSUME FeedOwed, mainQueue # <<>>, Head(mainQueue) \notin Recommend!ListReply,
           NEW s, NoAnswers(s), mainQueue' = Tail(mainQueue) \o s,
           moreReq' = IF Head(mainQueue) \in Recommend!MoreReply THEN NoRequest ELSE moreReq,
           UNCHANGED <<listPage, listWire, zipped, moreWire>>
    PROVE  mainQueue' \in Seq(Recommend!Block) /\ AnswersOwed'
<1> DEFINE t == Tail(mainQueue)
<1>1. /\ mainQueue \in Seq(Recommend!Block) /\ s \in Seq(Recommend!Block)
      /\ t \in Seq(Recommend!Block) /\ moreWire \in BOOLEAN
  BY HasTail DEF FeedOwed, Recommend!TypeOK, NoAnswers
<1>2. OwedOnce(t, Recommend!MoreReply, moreReq', moreWire)
  BY <1>1, OwedTail DEF FeedOwed, AnswersOwed
<1>3. ASSUME NEW part \in Recommend!Part PROVE PartOwed(part)'
  <2> DEFINE R == Recommend!PartReply(part)
             wire == part \in listWire \/ part \in Recommend!Waiting
  <2>1. /\ OwedOnce(mainQueue, R, listPage, wire) /\ HasNone(s, R) /\ wire \in BOOLEAN
        /\ Head(mainQueue) \notin R
    BY FeedReplies DEF FeedOwed, AnswersOwed, PartOwed, NoAnswers
  <2> HIDE DEF R, wire, t
  <2>2. OwedOnce(t, R, listPage, wire)
    BY <1>1, <2>1, OwedTail DEF t
  <2>3. OwedOnce(t \o s, R, listPage, wire)
    BY <1>1, <2>1, <2>2, OwedPost
  <2>4. ~(part \in listWire /\ part \in Recommend!Waiting)
    BY DEF FeedOwed, AnswersOwed, PartOwed
  <2> QED
    BY <2>3, <2>4 DEF t, R, wire, PartOwed, Recommend!Waiting, OwedOnce
<1> HIDE DEF t
<1>4. OwedOnce(t \o s, Recommend!MoreReply, moreReq', moreWire)
  BY <1>1, <1>2, OwedPost DEF NoAnswers
<1> QED
  BY <1>1, <1>3, <1>4 DEF t, AnswersOwed

(* The user, UIKit and the blocks of the controls.                          *)
LEMMA FeedScreen ==
    ASSUME FeedOwed,
           \/ Recommend!ScrollToFooter \/ Recommend!PullDown \/ Recommend!Gesture
           \/ Recommend!Draw \/ Recommend!EndAnimation
    PROVE  /\ Recommend!ScreenTypeOK'
           /\ UNCHANGED Recommend!feedVars
           /\ \E s : NoAnswers(s) /\ mainQueue' = mainQueue \o s
<1>t. Recommend!ScreenTypeOK /\ mainQueue \in Seq(Recommend!Block)
  BY DEF FeedOwed, Recommend!TypeOK
<1>e. mainQueue = mainQueue \o <<>> /\ NoAnswers(<<>>)
  BY <1>t, FeedPosts
<1>b. \A b \in {"hdrAnimate", "hdrCallback", "hdrIdle", "ftrCallback"} : NoAnswers(<<b>>)
  BY FeedPosts DEF Recommend!ScreenBlock
<1>u. UNCHANGED Recommend!feedVars
  BY DEF Recommend!ScrollToFooter, Recommend!PullDown, Recommend!Gesture, Recommend!Draw,
     Recommend!EndAnimation
<1>1. Recommend!ScreenTypeOK'
  <2> USE <1>t DEF Recommend!ScreenTypeOK, Recommend!HeaderState, Recommend!FooterState
  <2>1. CASE Recommend!ScrollToFooter
    BY <2>1 DEF Recommend!ScrollToFooter, Recommend!ReachFooter
  <2>2. CASE Recommend!PullDown \/ Recommend!Gesture
    BY <2>2 DEF Recommend!PullDown, Recommend!Gesture, Recommend!PullHeader,
       Recommend!UnpullHeader, Recommend!ReleaseHeader, Recommend!Appear, Recommend!Disappear,
       Recommend!BeginHeader
  <2>3. CASE Recommend!Draw \/ Recommend!EndAnimation
    BY <2>3 DEF Recommend!Draw, Recommend!EndAnimation, Recommend!DrawHeader,
       Recommend!AnimationDone, Recommend!BeginHeader
  <2> QED BY <2>1, <2>2, <2>3
<1>2. \/ mainQueue' = mainQueue
      \/ mainQueue' = mainQueue \o <<>>
      \/ \E b \in {"hdrAnimate", "hdrCallback", "hdrIdle", "ftrCallback"} :
           mainQueue' = mainQueue \o <<b>>
  BY DEF Recommend!ScrollToFooter, Recommend!PullDown, Recommend!Gesture, Recommend!Draw,
     Recommend!EndAnimation, Recommend!ReachFooter, Recommend!PullHeader,
     Recommend!UnpullHeader, Recommend!ReleaseHeader, Recommend!Appear, Recommend!Disappear,
     Recommend!DrawHeader, Recommend!AnimationDone, Recommend!BeginHeader, Recommend!Post
<1> QED
  BY <1>e, <1>b, <1>u, <1>1, <1>2

(* A block of a control, or an answer of a request that is disposed of.     *)
LEMMA FeedControl ==
    ASSUME FeedOwed, Recommend!ControlBlock \/ Recommend!DisposedReply
    PROVE  FeedOwed'
<1>1. /\ mainQueue # <<>> /\ mainQueue' = Tail(mainQueue) \o <<>>
      /\ Head(mainQueue) \in Recommend!ScreenBlock \cup {"disposed"}
      /\ UNCHANGED Recommend!feedVars /\ Recommend!ScreenTypeOK'
  BY DEF FeedOwed, Recommend!TypeOK, Recommend!ScreenTypeOK, Recommend!HeaderState,
     Recommend!FooterState, Recommend!ControlBlock, Recommend!DisposedReply,
     Recommend!MainQueueStep, Recommend!AnimateHeader, Recommend!IdleHeader,
     Recommend!IdleFooter, Recommend!NoMoreFooter, Recommend!RunBlock, Recommend!RunAndPost,
     Recommend!ScreenBlock
<1>2. Head(mainQueue) \notin Recommend!ListReply /\ Head(mainQueue) \notin Recommend!MoreReply
  BY <1>1, FeedReplies
<1>3. UNCHANGED <<page, itemList, listPage, listWire, zipped, moreReq, moreWire, loading>>
  BY <1>1 DEF Recommend!feedVars
<1>4. mainQueue' \in Seq(Recommend!Block) /\ AnswersOwed'
  BY <1>1, <1>2, <1>3, FeedPosts, FeedRun
<1> QED
  BY <1>1, <1>3, <1>4 DEF FeedOwed, Recommend!TypeOK, Recommend!Waiting, LoadingCountsMore

(* The refreshing blocks start requests.                                    *)
LEMMA FeedStart ==
    ASSUME FeedOwed, Recommend!LoadList \/ Recommend!LoadMore
    PROVE  FeedOwed'
<1> DEFINE t == Tail(mainQueue)
<1>1. /\ mainQueue \in Seq(Recommend!Block) /\ mainQueue # <<>>
      /\ Head(mainQueue) \notin Recommend!ListReply /\ Head(mainQueue) \notin Recommend!MoreReply
      /\ moreWire \in BOOLEAN /\ page \in Nat /\ listPage \in Nat \cup {NoRequest}
  BY DEF FeedOwed, Recommend!TypeOK, Recommend!LoadList, Recommend!LoadMore, Recommend!RunBlock,
     Recommend!ListReply, Recommend!PartReply, Recommend!MoreReply, Recommend!Part,
     Recommend!NoRequest, NoRequest
<1>2. t \in Seq(Recommend!Block) /\ "disposed" \in Recommend!Block
  BY <1>1, HasTail, FeedReplies
<1>3. OwedOnce(t, Recommend!MoreReply, moreReq, moreWire)
  BY <1>1, OwedTail DEF FeedOwed, AnswersOwed
<1>4. ASSUME NEW part \in Recommend!Part
      PROVE  OwedOnce(t, Recommend!PartReply(part), listPage,
                      part \in listWire \/ part \in Recommend!Waiting)
  <2> DEFINE R == Recommend!PartReply(part)
             wire == part \in listWire \/ part \in Recommend!Waiting
  <2>1. OwedOnce(mainQueue, R, listPage, wire) /\ Head(mainQueue) \notin R /\ wire \in BOOLEAN
    BY <1>1, FeedReplies DEF FeedOwed, AnswersOwed, PartOwed
  <2> HIDE DEF R, wire
  <2>2. OwedOnce(t, R, listPage, wire)
    BY <1>1, <2>1, OwedTail
  <2> QED BY <2>2 DEF R, wire
<1> HIDE DEF t
<1>5. CASE Recommend!LoadList
  <2> DEFINE d == DisposedQueue(t, Recommend!ListReply)
  <2>1. /\ mainQueue' = d /\ listPage' = page /\ listWire' = Recommend!Part /\ zipped' = <<>>
        /\ UNCHANGED <<header, footer, footerHidden, inWindow, animating,
                       page, itemList, moreReq, moreWire, loading>>
    BY <1>5 DEF Recommend!LoadList, Recommend!DisposedQueue, DisposedQueue, t
  <2>2. /\ d \in Seq(Recommend!Block)
        /\ \A b \in Recommend!ListReply : ~Has(d, b)
    BY <1>2, HasDisposed, FeedReplies
  <2>3. OwedOnce(d, Recommend!MoreReply, moreReq, moreWire)
    <3>1. Single(d, Recommend!MoreReply)
      BY <1>2, <1>3, FeedReplies, SingleDisposed DEF OwedOnce
    <3>2. HasNone(d, Recommend!MoreReply) <=> HasNone(t, Recommend!MoreReply)
      BY <1>2, FeedReplies, HasDisposed DEF HasNone
    <3> QED BY <1>3, <3>1, <3>2 DEF OwedOnce
  <2> HIDE DEF d
  <2>4. Recommend!Waiting' = {}
    BY <2>1 DEF Recommend!Waiting
  <2>5. ASSUME NEW part \in Recommend!Part PROVE PartOwed(part)'
    <3>1. HasNone(mainQueue', Recommend!PartReply(part))
      BY <2>1, <2>2, FeedReplies DEF HasNone
    <3>2. Single(mainQueue', Recommend!PartReply(part))
      BY <3>1 DEF HasNone, Has, Single
    <3>3. listPage' # NoRequest
      BY <1>1, <2>1 DEF NoRequest
    <3> QED BY <2>1, <2>4, <3>1, <3>2, <3>3 DEF PartOwed, OwedOnce
  <2>6. AnswersOwed'
    BY <2>1, <2>3, <2>5 DEF AnswersOwed
  <2> QED
    BY <1>1, <2>1, <2>2, <2>4, <2>6
    DEF FeedOwed, Recommend!TypeOK, Recommend!ScreenTypeOK, LoadingCountsMore
<1>6. CASE Recommend!LoadMore
  <2> DEFINE d == DisposedQueue(t, Recommend!MoreReply)
  <2>1. /\ mainQueue' = d /\ page' = page + 1 /\ moreReq' = page + 1 /\ moreWire' = TRUE
        /\ loading' = IF moreReq = NoRequest THEN loading + 1 ELSE loading
        /\ UNCHANGED <<header, footer, footerHidden, inWindow, animating,
                       itemList, listPage, listWire, zipped>>
    BY <1>6 DEF Recommend!LoadMore, Recommend!DisposedQueue, DisposedQueue, t,
       Recommend!NoRequest, NoRequest
  <2>2. /\ d \in Seq(Recommend!Block)
        /\ HasNone(d, Recommend!MoreReply)
    BY <1>2, HasDisposed, FeedReplies DEF HasNone
  <2>3. ASSUME NEW part \in Recommend!Part PROVE PartOwed(part)'
    <3> DEFINE R == Recommend!PartReply(part)
               wire == part \in listWire \/ part \in Recommend!Waiting
    <3>1. OwedOnce(t, R, listPage, wire) /\ R \cap Recommend!MoreReply = {} /\ "disposed" \notin R
      BY <1>4, FeedReplies
    <3>2. OwedOnce(d, R, listPage, wire)
      <4> HIDE DEF R, wire
      <4>1. Single(d, R)
        BY <1>2, <3>1, FeedReplies, SingleDisposed DEF OwedOnce
      <4>2. HasNone(d, R) <=> HasNone(t, R)
        BY <1>2, <3>1, HasDisposed DEF HasNone
      <4> QED BY <3>1, <4>1, <4>2 DEF OwedOnce
    <3>3. ~(part \in listWire /\ part \in Recommend!Waiting)
      BY DEF FeedOwed, AnswersOwed, PartOwed
    <3> HIDE DEF d
    <3> QED BY <2>1, <3>2, <3>3 DEF PartOwed, Recommend!Waiting, OwedOnce
  <2> HIDE DEF d
  <2>4. moreReq' # NoRequest /\ moreReq' \in Nat
    BY <1>1, <2>1 DEF NoRequest
  <2>5. OwedOnce(mainQueue', Recommend!MoreReply, moreReq', moreWire')
    BY <2>1, <2>2, <2>4 DEF OwedOnce, HasNone, Has, Single
  <2>6. AnswersOwed'
    BY <2>3, <2>5 DEF AnswersOwed
  <2>7. loading' \in Nat /\ LoadingCountsMore'
    BY <2>1, <2>4 DEF FeedOwed, Recommend!TypeOK, LoadingCountsMore
  <2> QED
    BY <1>1, <2>1, <2>2, <2>4, <2>6, <2>7
    DEF FeedOwed, Recommend!TypeOK, Recommend!ScreenTypeOK, Recommend!Waiting
<1> QED
  BY <1>5, <1>6

(* The network answers each part, and a load of more, once.                 *)
LEMMA FeedAnswer ==
    ASSUME FeedOwed,
           \/ \E part \in Recommend!Part : Recommend!PartAnswered(part)
           \/ Recommend!MoreAnswered
    PROVE  FeedOwed'
<1>t. mainQueue \in Seq(Recommend!Block)
  BY DEF FeedOwed, Recommend!TypeOK
<1>1. ASSUME NEW part \in Recommend!Part, NEW r \in Recommend!PartReply(part),
             Recommend!AnswerPart(part, r)
      PROVE  FeedOwed'
  <2>1. /\ part \in listWire /\ listWire' = listWire \ {part}
        /\ mainQueue' = mainQueue \o <<r>>
        /\ UNCHANGED <<header, footer, footerHidden, inWindow, animating>>
        /\ UNCHANGED <<page, itemList, listPage, zipped, moreReq, moreWire, loading>>
    BY <1>1 DEF Recommend!AnswerPart, Recommend!Post
  <2>2. /\ r \in Recommend!Block /\ <<r>> \in Seq(Recommend!Block)
        /\ HasNone(<<r>>, Recommend!MoreReply)
        /\ \A p \in Recommend!Part \ {part} : HasNone(<<r>>, Recommend!PartReply(p))
    BY FeedReplies DEF HasNone, Has
  <2>3. OwedOnce(mainQueue', Recommend!MoreReply, moreReq', moreWire')
    BY <1>t, <2>1, <2>2, OwedPost DEF FeedOwed, AnswersOwed
  <2>4. ASSUME NEW p \in Recommend!Part PROVE PartOwed(p)'
    <3> DEFINE R == Recommend!PartReply(p)
               wire == p \in listWire \/ p \in Recommend!Waiting
    <3>1. OwedOnce(mainQueue, R, listPage, wire) /\ ~(p \in listWire /\ p \in Recommend!Waiting)
      BY DEF FeedOwed, AnswersOwed, PartOwed
    <3>2. CASE p = part
      <4>1. HasNone(mainQueue, R) /\ listPage # NoRequest /\ r \in R
        BY <2>1, <3>1, <3>2 DEF OwedOnce
      <4>2. OwedOnce(mainQueue \o <<r>>, R, listPage, FALSE)
        <5> HIDE DEF R
        <5> QED BY <1>t, <2>2, <4>1, OwedAnswer
      <4>3. p \notin listWire' /\ p \notin Recommend!Waiting'
        BY <2>1, <3>1, <3>2 DEF Recommend!Waiting
      <4> QED BY <2>1, <4>2, <4>3 DEF PartOwed, OwedOnce
    <3>3. CASE p # part
      <4>1. OwedOnce(mainQueue \o <<r>>, R, listPage, wire)
        <5>1. HasNone(<<r>>, R)
          BY <2>2, <3>3
        <5> HIDE DEF R, wire
        <5> QED BY <1>t, <2>2, <3>1, <5>1, OwedPost
      <4> QED BY <2>1, <3>1, <3>3, <4>1 DEF PartOwed, Recommend!Waiting, OwedOnce
    <3> QED BY <3>2, <3>3
  <2>5. mainQueue' \in Seq(Recommend!Block)
    BY <1>t, <2>1, <2>2
  <2> QED
    BY <2>1, <2>3, <2>4, <2>5 DEF FeedOwed, AnswersOwed, Recommend!TypeOK,
       Recommend!ScreenTypeOK, Recommend!Waiting, LoadingCountsMore
<1>2. ASSUME NEW r \in Recommend!MoreReply, Recommend!AnswerMore(r)
      PROVE  FeedOwed'
  <2>1. /\ moreWire /\ moreWire' = FALSE
        /\ mainQueue' = mainQueue \o <<r>>
        /\ UNCHANGED <<header, footer, footerHidden, inWindow, animating>>
        /\ UNCHANGED <<page, itemList, listPage, listWire, zipped, moreReq, loading>>
    BY <1>2 DEF Recommend!AnswerMore, Recommend!Post
  <2>2. /\ r \in Recommend!Block /\ <<r>> \in Seq(Recommend!Block)
        /\ \A p \in Recommend!Part : HasNone(<<r>>, Recommend!PartReply(p))
    BY FeedReplies DEF HasNone, Has
  <2>3. HasNone(mainQueue, Recommend!MoreReply) /\ moreReq # NoRequest
    BY <2>1 DEF FeedOwed, AnswersOwed, OwedOnce
  <2>4. OwedOnce(mainQueue', Recommend!MoreReply, moreReq', moreWire')
    BY <1>t, <2>1, <2>2, <2>3, OwedAnswer
  <2>5. ASSUME NEW p \in Recommend!Part PROVE PartOwed(p)'
    <3> DEFINE R == Recommend!PartReply(p)
               wire == p \in listWire \/ p \in Recommend!Waiting
    <3>1. /\ OwedOnce(mainQueue, R, listPage, wire) /\ HasNone(<<r>>, R)
          /\ ~(p \in listWire /\ p \in Recommend!Waiting)
      BY <2>2 DEF FeedOwed, AnswersOwed, PartOwed
    <3>2. OwedOnce(mainQueue \o <<r>>, R, listPage, wire)
      <4> HIDE DEF R, wire
      <4> QED BY <1>t, <2>2, <3>1, OwedPost
    <3> QED BY <2>1, <3>1, <3>2 DEF PartOwed, Recommend!Waiting, OwedOnce
  <2>6. mainQueue' \in Seq(Recommend!Block)
    BY <1>t, <2>1, <2>2
  <2> QED
    BY <2>1, <2>4, <2>5, <2>6 DEF FeedOwed, AnswersOwed, Recommend!TypeOK,
       Recommend!ScreenTypeOK, Recommend!Waiting, LoadingCountsMore
<1> QED
  BY <1>1, <1>2 DEF Recommend!PartAnswered, Recommend!MoreAnswered

(* The answer to a part runs: a refresh is under way, the part is neither   *)
(* on the wire nor in the zip, and no other answer to it is queued.         *)
LEMMA PartRuns ==
    ASSUME FeedOwed, NEW part \in Recommend!Part, NEW r \in Recommend!PartReply(part),
           Recommend!RunBlock(r)
    PROVE  /\ mainQueue # <<>> /\ Tail(mainQueue) \in Seq(Recommend!Block)
           /\ listPage # NoRequest /\ part \notin listWire /\ part \notin Recommend!Waiting
           /\ Single(Tail(mainQueue), Recommend!PartReply(part))
           /\ HasNone(Tail(mainQueue), Recommend!PartReply(part))
           /\ OwedOnce(Tail(mainQueue), Recommend!MoreReply, moreReq, moreWire)
           /\ \A p \in Recommend!Part \ {part} :
                OwedOnce(Tail(mainQueue), Recommend!PartReply(p), listPage,
                         p \in listWire \/ p \in Recommend!Waiting)
<1>1. /\ mainQueue # <<>> /\ mainQueue \in Seq(Recommend!Block) /\ moreWire \in BOOLEAN
      /\ Head(mainQueue) = r /\ r \notin Recommend!MoreReply
      /\ \A p \in Recommend!Part \ {part} : r \notin Recommend!PartReply(p)
  BY FeedReplies DEF Recommend!RunBlock, FeedOwed, Recommend!TypeOK
<1>2. OwedOnce(Tail(mainQueue), Recommend!MoreReply, moreReq, moreWire)
  BY <1>1, OwedTail DEF FeedOwed, AnswersOwed
<1>3. ASSUME NEW p \in Recommend!Part
      PROVE  /\ p # part => OwedOnce(Tail(mainQueue), Recommend!PartReply(p), listPage,
                                     p \in listWire \/ p \in Recommend!Waiting)
             /\ p = part => /\ listPage # NoRequest
                            /\ p \notin listWire /\ p \notin Recommend!Waiting
                            /\ OwedOnce(Tail(mainQueue), Recommend!PartReply(p), NoRequest, FALSE)
  <2> DEFINE R == Recommend!PartReply(p)
             wire == p \in listWire \/ p \in Recommend!Waiting
  <2>1. OwedOnce(mainQueue, R, listPage, wire) /\ wire \in BOOLEAN
    BY DEF FeedOwed, AnswersOwed, PartOwed
  <2>2. p = part <=> Head(mainQueue) \in R
    BY <1>1
  <2> HIDE DEF R, wire
  <2>3. /\ p # part => OwedOnce(Tail(mainQueue), R, listPage, wire)
        /\ p = part => /\ listPage # NoRequest /\ ~wire
                       /\ OwedOnce(Tail(mainQueue), R, NoRequest, wire)
    BY <1>1, <2>1, <2>2, OwedTail
  <2> QED BY <2>3 DEF R, wire, OwedOnce
<1>4. OwedOnce(Tail(mainQueue), Recommend!PartReply(part), NoRequest, FALSE)
  BY <1>3
<1>5. /\ Single(Tail(mainQueue), Recommend!PartReply(part))
      /\ HasNone(Tail(mainQueue), Recommend!PartReply(part))
  BY <1>4 DEF OwedOnce
<1> QED
  BY <1>1, <1>2, <1>3, <1>5, HasTail

(* The zip holds an answer back ...                                         *)
LEMMA FeedPartArrives ==
    ASSUME FeedOwed, NEW part \in Recommend!Part, NEW r \in Recommend!ListReply,
           Recommend!PartArrives(part, r)
    PROVE  FeedOwed'
<1>1. /\ r \in Recommend!PartReply(part) /\ Recommend!RunBlock(r)
      /\ mainQueue' = Tail(mainQueue) \o <<>>
      /\ zipped' = [p \in Recommend!Waiting \cup {part} |->
                      IF p = part THEN r \in Recommend!Succeeded ELSE zipped[p]]
      /\ UNCHANGED <<header, footer, footerHidden, inWindow, animating>>
      /\ UNCHANGED <<page, itemList, listPage, listWire, moreReq, moreWire, loading>>
  BY DEF Recommend!PartArrives, Recommend!RunAndPost
<1>2. Tail(mainQueue) \in Seq(Recommend!Block)
  BY <1>1, PartRuns
<1>3. mainQueue' = Tail(mainQueue)
  BY <1>1, <1>2
<1>4. Recommend!Waiting' = Recommend!Waiting \cup {part}
  BY <1>1 DEF Recommend!Waiting
<1>5. ASSUME NEW p \in Recommend!Part PROVE PartOwed(p)'
  <2>1. CASE p = part
    <3>1. p \in Recommend!Waiting' /\ p \notin listWire'
      BY <1>1, <1>4, <2>1, PartRuns
    <3>2. listPage' # NoRequest /\ Single(mainQueue', Recommend!PartReply(p))
          /\ HasNone(mainQueue', Recommend!PartReply(p))
      BY <1>1, <1>3, <2>1, PartRuns
    <3> QED BY <3>1, <3>2 DEF PartOwed, OwedOnce
  <2>2. CASE p # part
    <3>1. OwedOnce(mainQueue', Recommend!PartReply(p), listPage,
                   p \in listWire \/ p \in Recommend!Waiting)
      BY <1>1, <1>3, <2>2, PartRuns
    <3>2. ~(p \in listWire /\ p \in Recommend!Waiting)
      BY DEF FeedOwed, AnswersOwed, PartOwed
    <3> QED BY <1>1, <1>4, <2>2, <3>1, <3>2 DEF PartOwed, OwedOnce
  <2> QED BY <2>1, <2>2
<1>6. AnswersOwed'
  BY <1>1, <1>3, <1>5, PartRuns DEF AnswersOwed
<1>7. /\ Recommend!Waiting' \subseteq Recommend!Part
      /\ \A p \in Recommend!Waiting' : zipped'[p] \in BOOLEAN
  <2>1. ASSUME NEW p \in Recommend!Waiting' PROVE zipped'[p] \in BOOLEAN
    <3>1. CASE p = part
      <4>1. zipped'[p] = (r \in Recommend!Succeeded)
        BY <1>1, <1>4, <3>1
      <4> QED BY <4>1
    <3>2. CASE p # part
      <4>1. zipped'[p] = zipped[p] /\ p \in Recommend!Waiting
        BY <1>1, <1>4, <2>1, <3>2
      <4> QED BY <4>1 DEF FeedOwed, Recommend!TypeOK
    <3> QED BY <3>1, <3>2
  <2> QED BY <1>4, <2>1 DEF FeedOwed, Recommend!TypeOK
<1> QED
  BY <1>1, <1>2, <1>3, <1>6, <1>7
  DEF FeedOwed, Recommend!TypeOK, Recommend!ScreenTypeOK, LoadingCountsMore

(* ... and delivers with the last, when nothing of the refresh is left.     *)
LEMMA FeedListDelivered ==
    ASSUME FeedOwed, NumHot \in Nat, NEW part \in Recommend!Part, NEW r \in Recommend!ListReply,
           Recommend!ListDelivered(part, r)
    PROVE  FeedOwed'
<1> DEFINE s == Recommend!HeaderSuccessBlocks \o Recommend!FooterStateBlocks("default")
           ok(p) == IF p = part THEN r \in Recommend!Succeeded ELSE zipped[p]
           hot == IF ok("hot") THEN Recommend!HotSections ELSE <<>>
           category == IF ok("category") THEN Recommend!Items(listPage) ELSE <<>>
<1>1. /\ r \in Recommend!PartReply(part) /\ Recommend!RunBlock(r)
      /\ Recommend!Waiting \cup {part} = Recommend!Part
      /\ itemList' = itemList \o hot \o category
      /\ Recommend!BindFooterState("default")
      /\ mainQueue' = Tail(mainQueue) \o s
      /\ listPage' = NoRequest /\ zipped' = <<>>
      /\ UNCHANGED <<header, inWindow, animating>>
      /\ UNCHANGED <<page, listWire, moreReq, moreWire, loading>>
  BY DEF Recommend!ListDelivered, Recommend!RunAndPost, Recommend!NoRequest, NoRequest
<1>2. NoAnswers(s)
  BY FeedPosts, NoAnswersConcat
<1>3. itemList' \in Seq(Nat \cup {Recommend!HotSection})
  <2> DEFINE T == Nat \cup {Recommend!HotSection}
  <2>1. itemList \in Seq(T) /\ listPage \in T
    BY DEF FeedOwed, Recommend!TypeOK, Recommend!NoRequest, Recommend!HotSection
  <2>2. hot \in Seq(T)
    <3>1. Recommend!HotSections \in [1..NumHot -> T]
      BY DEF Recommend!HotSections
    <3>2. Recommend!HotSections \in Seq(T)
      BY <3>1
    <3> QED BY <3>2
  <2>3. category \in Seq(T)
    <3> HIDE DEF T
    <3>1. Recommend!Items(listPage) \in Seq(T) /\ <<>> \in Seq(T)
      BY <2>1 DEF Recommend!Items
    <3> HIDE DEF ok
    <3> QED BY <3>1
  <2> HIDE DEF hot, category, T
  <2> QED BY <1>1, <2>1, <2>2, <2>3 DEF T
<1>4. footer' \in Recommend!FooterState /\ footerHidden' \in BOOLEAN
  BY <1>1 DEF FeedOwed, Recommend!TypeOK, Recommend!ScreenTypeOK, Recommend!FooterState,
     Recommend!BindFooterState
<1> HIDE DEF s, hot, category
<1>5. Tail(mainQueue) \in Seq(Recommend!Block) /\ s \in Seq(Recommend!Block)
  BY <1>1, <1>2, PartRuns DEF NoAnswers
<1>6. Recommend!Waiting' = {}
  BY <1>1 DEF Recommend!Waiting
<1>7. ASSUME NEW p \in Recommend!Part PROVE PartOwed(p)'
  <2> DEFINE R == Recommend!PartReply(p)
  <2>1. Single(Tail(mainQueue), R) /\ HasNone(Tail(mainQueue), R) /\ p \notin listWire
    <3>1. CASE p = part
      BY <1>1, <3>1, PartRuns
    <3>2. CASE p # part
      <4>1. p \in Recommend!Waiting
        BY <1>1, <3>2
      <4>2. OwedOnce(Tail(mainQueue), R, listPage, TRUE)
        <5>1. OwedOnce(Tail(mainQueue), R, listPage, p \in listWire \/ p \in Recommend!Waiting)
          BY <1>1, <3>2, PartRuns
        <5> QED BY <4>1, <5>1 DEF OwedOnce
      <4> QED BY <4>1, <4>2 DEF OwedOnce, FeedOwed, AnswersOwed, PartOwed
    <3> QED BY <3>1, <3>2
  <2>2. HasNone(s, R)
    BY <1>2 DEF NoAnswers
  <2>3. Single(mainQueue', R) /\ HasNone(mainQueue', R)
    <3> DEFINE t == Tail(mainQueue)
    <3> HIDE DEF R, t
    <3>1. Single(t \o s, R)
      BY <1>5, <2>1, <2>2, SinglePost DEF t
    <3>2. HasNone(t \o s, R)
      BY <1>5, <2>1, <2>2, HasConcat DEF t, HasNone
    <3> QED BY <1>1, <3>1, <3>2 DEF t
  <2> QED BY <1>1, <1>6, <2>1, <2>3 DEF PartOwed, OwedOnce
<1>8. OwedOnce(mainQueue', Recommend!MoreReply, moreReq', moreWire')
  <2> DEFINE t == Tail(mainQueue)
  <2>1. OwedOnce(t, Recommend!MoreReply, moreReq, moreWire)
    BY <1>1, PartRuns
  <2>2. t \in Seq(Recommend!Block)
    BY <1>5
  <2> HIDE DEF t
  <2>3. OwedOnce(t \o s, Recommend!MoreReply, moreReq, moreWire)
    BY <1>2, <1>5, <2>1, <2>2, OwedPost DEF NoAnswers
  <2> QED BY <1>1, <2>3 DEF t
<1>9. mainQueue' \in Seq(Recommend!Block)
  BY <1>1, <1>5
<1> QED
  BY <1>1, <1>3, <1>4, <1>6, <1>7, <1>8, <1>9
  DEF FeedOwed, AnswersOwed, Recommend!TypeOK, Recommend!ScreenTypeOK, LoadingCountsMore,
      Recommend!NoRequest, NoRequest

(* A load of more is answered while it is under way.                        *)
LEMMA FeedMore ==
    ASSUME FeedOwed, Recommend!MoreLoaded \/ Recommend!MoreFailed
    PROVE  FeedOwed'
<1>1. /\ mainQueue # <<>> /\ Head(mainQueue) \in Recommend!MoreReply
      /\ Head(mainQueue) \notin Recommend!ListReply
  BY FeedReplies DEF Recommend!MoreLoaded, Recommend!MoreFailed, Recommend!RunBlock,
     Recommend!MoreReply
<1>2. /\ moreReq # NoRequest /\ mainQueue \in Seq(Recommend!Block) /\ moreWire \in BOOLEAN
      /\ itemList \in Seq(Nat \cup {Recommend!HotSection})
  <2>1. mainQueue \in Seq(Recommend!Block) /\ moreWire \in BOOLEAN
    BY DEF FeedOwed, Recommend!TypeOK
  <2>2. OwedOnce(mainQueue, Recommend!MoreReply, moreReq, moreWire)
    BY DEF FeedOwed, AnswersOwed
  <2> QED BY <1>1, <2>1, <2>2, OwedTail DEF FeedOwed, Recommend!TypeOK
<1>3. loading - 1 \in Nat /\ loading - 1 = 0
  BY <1>2 DEF FeedOwed, LoadingCountsMore
<1>4. PICK s : NoAnswers(s) /\ mainQueue' = Tail(mainQueue) \o s
  BY FeedPosts, NoAnswersConcat
  DEF Recommend!MoreLoaded, Recommend!MoreFailed, Recommend!RunAndPost
<1>5. /\ moreReq' = NoRequest /\ loading' = loading - 1
      /\ UNCHANGED <<header, inWindow, animating, page, listPage, listWire, zipped, moreWire>>
  BY DEF Recommend!MoreLoaded, Recommend!MoreFailed, Recommend!NoRequest, NoRequest
<1>6. footer' \in Recommend!FooterState /\ footerHidden' \in BOOLEAN
  <2>1. footer \in Recommend!FooterState /\ footerHidden \in BOOLEAN
    BY DEF FeedOwed, Recommend!TypeOK, Recommend!ScreenTypeOK
  <2>2. \E state : Recommend!BindFooterState(state)
    BY DEF Recommend!MoreLoaded, Recommend!MoreFailed
  <2> QED BY <2>1, <2>2 DEF Recommend!BindFooterState, Recommend!FooterState
<1>7. itemList' \in Seq(Nat \cup {Recommend!HotSection})
  <2> DEFINE T == Nat \cup {Recommend!HotSection}
  <2>1. itemList' = itemList \/ itemList' = itemList \o Recommend!Items(moreReq)
    BY DEF Recommend!MoreLoaded, Recommend!MoreFailed
  <2>2. moreReq \in T
    BY DEF FeedOwed, Recommend!TypeOK, Recommend!NoRequest, Recommend!HotSection
  <2>3. itemList \in Seq(T)
    BY <1>2
  <2> HIDE DEF T
  <2>4. Recommend!Items(moreReq) \in Seq(T)
    BY <2>2 DEF Recommend!Items
  <2>5. itemList \o Recommend!Items(moreReq) \in Seq(T)
    BY <2>3, <2>4
  <2>6. itemList' \in Seq(T)
    BY <2>1, <2>3, <2>5
  <2> QED BY <2>6 DEF T
<1>8. mainQueue' \in Seq(Recommend!Block) /\ AnswersOwed'
  BY <1>1, <1>4, <1>5, FeedRun
<1> QED
  BY <1>2, <1>3, <1>5, <1>6, <1>7, <1>8
  DEF FeedOwed, Recommend!TypeOK, Recommend!ScreenTypeOK, Recommend!Waiting, LoadingCountsMore,
      Recommend!NoRequest, NoRequest

LEMMA FeedStep ==
    ASSUME FeedOwed, NumHot \in Nat, [Recommend!Next]_(Recommend!vars)
    PROVE  FeedOwed'
<1>1. CASE Recommend!ScrollToFooter \/ Recommend!PullDown \/ Recommend!Gesture
           \/ Recommend!Draw \/ Recommend!EndAnimation
  BY <1>1, FeedScreen, FeedPost
<1>2. CASE Recommend!RunMainQueue
  BY <1>2, FeedControl, FeedStart, FeedPartArrives, FeedListDelivered, FeedMore
  DEF Recommend!RunMainQueue, Recommend!PartBlock
<1>3. CASE (\E part \in Recommend!Part : Recommend!PartAnswered(part)) \/ Recommend!MoreAnswered
  BY <1>3, FeedAnswer
<1>4. CASE UNCHANGED Recommend!vars
  BY <1>4 DEF Recommend!vars, Recommend!screenVars, Recommend!feedVars, FeedOwed, AnswersOwed,
     PartOwed, OwedOnce, Recommend!TypeOK, Recommend!ScreenTypeOK, Recommend!Waiting,
     LoadingCountsMore
<1> QED
  BY <1>1, <1>2, <1>3, <1>4 DEF Recommend!Next

(* A part that is owed once is in one place.                                *)
LEMMA OwedIsZipped ==
    ASSUME FeedOwed
    PROVE  Recommend!ZipOfOneRefresh
<1> SUFFICES ASSUME NEW part \in Recommend!Part
             PROVE  Recommend!QueuedParts(part) + (IF part \in listWire THEN 1 ELSE 0)
                                                + (IF part \in Recommend!Waiting THEN 1 ELSE 0)
                      = IF listPage = NoRequest THEN 0 ELSE 1
  BY DEF Recommend!ZipOfOneRefresh, Recommend!NoRequest, NoRequest
<1> DEFINE R == Recommend!PartReply(part)
           Q == {i \in 1..Len(mainQueue) : mainQueue[i] \in R}
<1>1. /\ Single(mainQueue, R)
      /\ part \in listWire \/ part \in Recommend!Waiting => HasNone(mainQueue, R)
      /\ listPage # NoRequest <=> \/ part \in listWire \/ part \in Recommend!Waiting
                                  \/ ~HasNone(mainQueue, R)
      /\ ~(part \in listWire /\ part \in Recommend!Waiting)
  BY DEF FeedOwed, AnswersOwed, PartOwed, OwedOnce
<1>q. Recommend!QueuedParts(part) = Cardinality(Q)
  BY DEF Recommend!QueuedParts, Recommend!Cardinality, Cardinality
<1>2. CASE HasNone(mainQueue, R)
  <2>1. Q = {}
    BY <1>2 DEF HasNone, Has
  <2>2. Recommend!QueuedParts(part) = 0
    <3> HIDE DEF Q
    <3> QED BY <1>q, <2>1, FS_EmptySet
  <2> QED BY <1>1, <1>2, <2>2
<1>3. CASE ~HasNone(mainQueue, R)
  <2>1. PICK i \in 1..Len(mainQueue) : mainQueue[i] \in R
    BY <1>3 DEF HasNone, Has
  <2>2. Q = {i}
    BY <1>1, <2>1 DEF Single
  <2>3. Recommend!QueuedParts(part) = 1
    <3> HIDE DEF Q
    <3> QED BY <1>q, <2>2, FS_Singleton
  <2> QED BY <1>1, <1>3, <2>3
<1> QED
  BY <1>2, <1>3

(* What a step does to the blocks that wait.                                *)
LEMMA FeedQueued ==
    ASSUME mainQueue \in Seq(Recommend!Block), NEW s \in Seq(Recommend!Block),
           NEW b
    PROVE  /\ mainQueue' = mainQueue \o s =>
                ((Has(mainQueue, b))' <=> Has(mainQueue, b) \/ Has(s, b))
           /\ mainQueue # <<>> /\ mainQueue' = Tail(mainQueue) \o s =>
                /\ Has(mainQueue, b) => (Has(mainQueue, b))' \/ Head(mainQueue) = b
                /\ Has(s, b) => (Has(mainQueue, b))'
           /\ mainQueue # <<>> /\ b \notin Recommend!ListReply \cup Recommend!MoreReply
              /\ b # "disposed"
              /\ (\/ mainQueue' = DisposedQueue(Tail(mainQueue), Recommend!ListReply)
                  \/ mainQueue' = DisposedQueue(Tail(mainQueue), Recommend!MoreReply)) =>
                (Has(mainQueue, b) => (Has(mainQueue, b))' \/ Head(mainQueue) = b)
<1> DEFINE t == Tail(mainQueue)
<1>1. mainQueue' = mainQueue \o s => ((Has(mainQueue, b))' <=> Has(mainQueue, b) \/ Has(s, b))
  BY HasConcat
<1>2. mainQueue # <<>> => /\ t \in Seq(Recommend!Block)
                          /\ Has(mainQueue, b) => Has(t, b) \/ Head(mainQueue) = b
  BY HasTail
<1>d. "disposed" \in Recommend!Block
  BY FeedReplies
<1> HIDE DEF t
<1>3. mainQueue # <<>> => (Has(t \o s, b) <=> Has(t, b) \/ Has(s, b))
  BY <1>2, HasConcat
<1>4. mainQueue # <<>> /\ b # "disposed" =>
        /\ b \notin Recommend!ListReply =>
             (Has(DisposedQueue(t, Recommend!ListReply), b) <=> Has(t, b))
        /\ b \notin Recommend!MoreReply =>
             (Has(DisposedQueue(t, Recommend!MoreReply), b) <=> Has(t, b))
  BY <1>2, <1>d, HasDisposed
<1> QED
  BY <1>1, <1>2, <1>3, <1>4 DEF t

LEMMA FeedSpinnerStep ==
    ASSUME FeedOwed, Recommend!HeaderSpinnerIsBacked, [Recommend!Next]_(Recommend!vars)
    PROVE  Recommend!HeaderSpinnerIsBacked'
<1> USE DEF Recommend!HeaderSpinnerIsBacked, Recommend!NoRequest
<1> DEFINE Start == {"hdrAnimate", "hdrCallback", "hdrIdle"}
<1>t. mainQueue \in Seq(Recommend!Block) /\ animating \in Nat
  BY DEF FeedOwed, Recommend!TypeOK, Recommend!ScreenTypeOK
<1>s. Start \subseteq Recommend!ScreenBlock /\ Recommend!ScreenBlock \subseteq Recommend!Block
  BY FeedReplies DEF Recommend!ScreenBlock
<1>h. \A b : /\ Recommend!Queued(b) <=> Has(mainQueue, b)
             /\ Recommend!Queued(b)' <=> (Has(mainQueue, b))'
  BY DEF Recommend!Queued, Recommend!Has, Has
<1>1. \A s \in Seq(Recommend!Block) : \A b :
        mainQueue' = mainQueue \o s =>
          (Recommend!Queued(b)' <=> Recommend!Queued(b) \/ Has(s, b))
  BY <1>t, <1>h, FeedQueued
<1>2. \A s \in Seq(Recommend!Block) : \A b :
        mainQueue # <<>> /\ mainQueue' = Tail(mainQueue) \o s =>
          /\ Recommend!Queued(b) => Recommend!Queued(b)' \/ Head(mainQueue) = b
          /\ Has(s, b) => Recommend!Queued(b)'
  BY <1>t, <1>h, FeedQueued
<1>3. \A b \in Start :
        /\ mainQueue # <<>>
        /\ \/ mainQueue' = DisposedQueue(Tail(mainQueue), Recommend!ListReply)
           \/ mainQueue' = DisposedQueue(Tail(mainQueue), Recommend!MoreReply)
        => (Recommend!Queued(b) => Recommend!Queued(b)' \/ Head(mainQueue) = b)
  <2>1. \A b \in Start : b \notin Recommend!ListReply \cup Recommend!MoreReply /\ b # "disposed"
    BY <1>s, FeedReplies
  <2>2. <<>> \in Seq(Recommend!Block)
    OBVIOUS
  <2> HIDE DEF Start
  <2> QED BY <1>t, <1>h, <2>1, <2>2, FeedQueued
<1>b. \A b \in Recommend!Block : <<b>> \in Seq(Recommend!Block) /\ Has(<<b>>, b)
  BY DEF Has
<1>e. <<>> \in Seq(Recommend!Block)
  OBVIOUS
<1>n. \A b \in Start : b \notin Recommend!ListReply /\ b \notin Recommend!MoreReply
  BY <1>s, FeedReplies
<1> HIDE DEF Start
<1>i. {"hdrAnimate", "hdrCallback", "hdrIdle"} = Start /\ Start \subseteq Recommend!Block
  BY <1>s DEF Start
<1>4. ASSUME header' = header, animating' = animating, listPage' = listPage,
             \A b \in Start : Recommend!Queued(b) => Recommend!Queued(b)'
      PROVE  Recommend!HeaderSpinnerIsBacked'
  <2>1. /\ Recommend!Queued("hdrAnimate") => Recommend!Queued("hdrAnimate")'
        /\ Recommend!Queued("hdrCallback") => Recommend!Queued("hdrCallback")'
        /\ Recommend!Queued("hdrIdle") => Recommend!Queued("hdrIdle")'
    BY <1>i, <1>4
  <2> QED BY <1>4, <2>1
<1>5. CASE Recommend!ScrollToFooter \/ Recommend!PullDown \/ Recommend!Gesture
           \/ Recommend!Draw \/ Recommend!EndAnimation
  <2>1. PICK s : NoAnswers(s) /\ mainQueue' = mainQueue \o s
    BY <1>5, FeedScreen
  <2>2. \A b : Recommend!Queued(b) => Recommend!Queued(b)'
    BY <1>1, <2>1 DEF NoAnswers
  <2>3. listPage' = listPage
    BY <1>5, FeedScreen DEF Recommend!feedVars
  <2>4. CASE header' = header /\ animating' = animating
    BY <1>4, <2>2, <2>3, <2>4
  <2>5. CASE Recommend!EndAnimation
    <3>1. mainQueue' = mainQueue \o <<"hdrCallback">>
      BY <2>5 DEF Recommend!EndAnimation, Recommend!AnimationDone, Recommend!Post
    <3>2. Recommend!Queued("hdrCallback")'
      BY <1>1, <1>b, <1>i, <3>1
    <3> QED BY <3>2
  <2>6. CASE header' = "Refreshing" /\ header # "Refreshing"
             /\ mainQueue' = mainQueue \o <<"hdrAnimate">>
    <3>1. Recommend!Queued("hdrAnimate")'
      BY <1>1, <1>b, <1>i, <2>6
    <3> QED BY <3>1
  <2>7. CASE header' # "Refreshing"
    BY <2>7
  <2> QED
    BY <1>5, <1>t, <2>4, <2>5, <2>6, <2>7
    DEF Recommend!ScrollToFooter, Recommend!PullDown, Recommend!Gesture, Recommend!Draw,
        Recommend!ReachFooter, Recommend!PullHeader, Recommend!UnpullHeader,
        Recommend!ReleaseHeader, Recommend!Appear, Recommend!Disappear, Recommend!DrawHeader,
        Recommend!BeginHeader, Recommend!Post
<1>6. CASE Recommend!ControlBlock
  <2>1. /\ mainQueue # <<>> /\ mainQueue' = Tail(mainQueue) \o <<>>
        /\ listPage' = listPage
    BY <1>6 DEF Recommend!ControlBlock, Recommend!MainQueueStep, Recommend!AnimateHeader,
       Recommend!IdleHeader, Recommend!IdleFooter, Recommend!NoMoreFooter, Recommend!RunBlock,
       Recommend!RunAndPost, Recommend!feedVars
  <2>2. \A b : Recommend!Queued(b) => Recommend!Queued(b)' \/ Head(mainQueue) = b
    BY <1>2, <1>e, <2>1
  <2>3. CASE Recommend!AnimateHeader
    BY <1>t, <2>3 DEF Recommend!AnimateHeader
  <2>4. CASE Recommend!IdleHeader
    BY <2>4 DEF Recommend!IdleHeader
  <2>5. CASE Recommend!IdleFooter \/ Recommend!NoMoreFooter
    <3>1. /\ Head(mainQueue) \notin Start
          /\ header' = header /\ animating' = animating
      BY <1>i, <2>5 DEF Recommend!IdleFooter, Recommend!NoMoreFooter, Recommend!RunBlock
    <3> QED BY <1>t, <1>4, <2>1, <2>2, <3>1
  <2> QED
    BY <1>6, <2>3, <2>4, <2>5 DEF Recommend!ControlBlock, Recommend!MainQueueStep
<1>7. CASE Recommend!LoadList
  BY <1>7 DEF FeedOwed, Recommend!TypeOK, Recommend!LoadList
<1>8. CASE Recommend!LoadMore
  <2>1. /\ mainQueue # <<>> /\ Head(mainQueue) = "ftrCallback"
        /\ mainQueue' = DisposedQueue(Tail(mainQueue), Recommend!MoreReply)
        /\ header' = header /\ animating' = animating /\ listPage' = listPage
    BY <1>8 DEF Recommend!LoadMore, Recommend!RunBlock, Recommend!DisposedQueue, DisposedQueue
  <2>2. Head(mainQueue) \notin Start
    BY <1>i, <2>1
  <2> QED BY <1>t, <1>3, <1>4, <2>1, <2>2
<1>9. CASE Recommend!PartBlock
  <2>1. PICK part \in Recommend!Part, r \in Recommend!ListReply :
          Recommend!PartArrives(part, r) \/ Recommend!ListDelivered(part, r)
    BY <1>9 DEF Recommend!PartBlock
  <2>2. mainQueue # <<>> /\ Head(mainQueue) \notin Start
    BY <1>n, <2>1 DEF Recommend!PartArrives, Recommend!ListDelivered, Recommend!RunBlock
  <2>3. CASE Recommend!PartArrives(part, r)
    <3>1. /\ mainQueue' = Tail(mainQueue) \o <<>>
          /\ header' = header /\ animating' = animating /\ listPage' = listPage
      BY <2>3 DEF Recommend!PartArrives, Recommend!RunAndPost
    <3>2. \A b \in Start : Recommend!Queued(b) => Recommend!Queued(b)'
      BY <1>2, <1>e, <2>2, <3>1
    <3> QED BY <1>t, <1>4, <3>1, <3>2
  <2>4. CASE Recommend!ListDelivered(part, r)
    <3> DEFINE s == Recommend!HeaderSuccessBlocks \o Recommend!FooterStateBlocks("default")
    <3>1. mainQueue' = Tail(mainQueue) \o s
      BY <2>4 DEF Recommend!ListDelivered, Recommend!RunAndPost
    <3>2. /\ Recommend!HeaderSuccessBlocks \in Seq(Recommend!Block)
          /\ Recommend!FooterStateBlocks("default") \in Seq(Recommend!Block)
      BY FeedPosts DEF NoAnswers
    <3>3. Has(Recommend!HeaderSuccessBlocks, "hdrIdle")
      BY DEF Recommend!HeaderSuccessBlocks, Has
    <3>4. Has(s, "hdrIdle") /\ s \in Seq(Recommend!Block)
      BY <3>2, <3>3, HasConcat
    <3> HIDE DEF s
    <3>5. Recommend!Queued("hdrIdle")'
      BY <1>2, <2>2, <3>1, <3>4
    <3> QED BY <3>5
  <2> QED BY <2>1, <2>3, <2>4
<1>10. CASE Recommend!MoreLoaded \/ Recommend!MoreFailed
  <2>1. PICK s : NoAnswers(s) /\ mainQueue' = Tail(mainQueue) \o s
    BY <1>10, FeedPosts, NoAnswersConcat
    DEF Recommend!MoreLoaded, Recommend!MoreFailed, Recommend!RunAndPost
  <2>2. /\ mainQueue # <<>> /\ Head(mainQueue) \notin Start
        /\ header' = header /\ animating' = animating /\ listPage' = listPage
    BY <1>10, <1>i DEF Recommend!MoreLoaded, Recommend!MoreFailed, Recommend!RunBlock
  <2> QED BY <1>t, <1>2, <1>4, <2>1, <2>2 DEF NoAnswers
<1>11. CASE Recommend!DisposedReply
  <2>1. /\ mainQueue # <<>> /\ Head(mainQueue) \notin Start
        /\ mainQueue' = Tail(mainQueue) \o <<>>
        /\ header' = header /\ animating' = animating /\ listPage' = listPage
    BY <1>11, <1>i DEF Recommend!DisposedReply, Recommend!RunBlock, Recommend!RunAndPost,
       Recommend!feedVars
  <2>2. \A b \in Start : Recommend!Queued(b) => Recommend!Queued(b)'
    BY <1>2, <1>e, <2>1
  <2> QED BY <1>t, <1>4, <2>1, <2>2
<1>12. CASE (\E part \in Recommend!Part : Recommend!PartAnswered(part)) \/ Recommend!MoreAnswered
  <2>1. PICK r \in Recommend!ListReply \cup Recommend!MoreReply :
          /\ mainQueue' = mainQueue \o <<r>>
          /\ header' = header /\ animating' = animating /\ listPage' = listPage
    BY <1>12, FeedReplies DEF Recommend!PartAnswered, Recommend!MoreAnswered,
       Recommend!AnswerPart, Recommend!AnswerMore, Recommend!Post
  <2>2. <<r>> \in Seq(Recommend!Block)
    BY <1>b, FeedReplies
  <2> QED BY <1>t, <1>1, <1>4, <2>1, <2>2
<1>13. CASE UNCHANGED Recommend!vars
  BY <1>13 DEF Recommend!vars, Recommend!screenVars, Recommend!feedVars, Recommend!Queued
<1> QED
  BY <1>5, <1>6, <1>7, <1>8, <1>9, <1>10, <1>11, <1>12, <1>13
  DEF Recommend!Next, Recommend!RunMainQueue

LEMMA FeedOwedInvariant ==
    ASSUME NumHot \in Nat
    PROVE  Recommend!Spec => []FeedOwed
<1>1. FeedOwed /\ [Recommend!Next]_(Recommend!vars) => FeedOwed'
  BY FeedStep
<1> QED
  BY FeedInit, <1>1, PTL DEF Recommend!Spec

(* Between any two steps of the community portal the types are right, its    *)
(* refreshing header is backed, and the zip is of one refresh, whatever     *)
(* refreshes and loads of more replace one another (LDRecommendVM).         *)
THEOREM FeedCorrect ==
    ASSUME NumHot \in Nat
    PROVE  Recommend!Spec => []Recommend!FeedInvariant
<1>1. Recommend!Init => Recommend!HeaderSpinnerIsBacked
  BY DEF Recommend!Init, Recommend!ScreenInit, Recommend!HeaderSpinnerIsBacked
<1>2. FeedOwed /\ Recommend!HeaderSpinnerIsBacked /\ [Recommend!Next]_(Recommend!vars)
        => Recommend!HeaderSpinnerIsBacked'
  BY FeedSpinnerStep
<1>3. FeedOwed /\ Recommend!HeaderSpinnerIsBacked => Recommend!FeedInvariant
  BY OwedIsZipped DEF FeedOwed, Recommend!FeedInvariant
<1> QED
  BY <1>1, <1>2, <1>3, FeedOwedInvariant, PTL DEF Recommend!Spec

(* What was shown stays shown when the list grows, and what is added shows.  *)
LEMMA ShownGrows ==
    ASSUME NEW T, NEW q \in Seq(T), NEW s \in Seq(T)
    PROVE  {q[i] : i \in 1..Len(q)} \subseteq {(q \o s)[i] : i \in 1..Len(q \o s)}
<1>1. /\ \A i \in 1..Len(q) : (q \o s)[i] = q[i]
      /\ \A i \in 1..Len(q) : i \in 1..Len(q \o s)
  OBVIOUS
<1> QED
  BY <1>1

LEMMA AddedShows ==
    ASSUME NEW T, NEW q \in Seq(T), NEW s \in Seq(T), NEW i \in 1..Len(s)
    PROVE  s[i] \in {(q \o s)[j] : j \in 1..Len(q \o s)}
<1>1. Len(q) + i \in 1..Len(q \o s) /\ (q \o s)[Len(q) + i] = s[i]
  OBVIOUS
<1> QED
  BY <1>1

LEMMA FeedPageStep ==
    ASSUME FeedOwed, NumHot \in Nat, [Recommend!Next]_(Recommend!vars), Recommend!NoPageMissing
    PROVE  \/ Recommend!NoPageMissing'
           \/ Recommend!RunBlock("moreFail")
           \/ Recommend!CategoryFails
           \/ Recommend!RunBlock("hdrCallback") /\ listPage # Recommend!NoRequest
           \/ Recommend!RunBlock("ftrCallback") /\ moreReq # Recommend!NoRequest
<1> DEFINE T == Nat \cup {Recommend!HotSection}
<1>t. /\ itemList \in Seq(T) /\ page \in Nat /\ listPage \in T /\ moreReq \in T
      /\ Recommend!NoRequest \notin Nat /\ NumPages \in Nat
  BY PagesAssumption DEF FeedOwed, Recommend!TypeOK, Recommend!NoRequest, Recommend!HotSection
<1> HIDE DEF T
(* A page that was shown or asked for still is.                             *)
<1>1. ASSUME page' = page, Recommend!Shown \subseteq Recommend!Shown',
             \A p \in Nat : p < NumPages /\ p \in Recommend!Asked =>
               p \in Recommend!Shown' \cup Recommend!Asked'
      PROVE  Recommend!NoPageMissing'
  <2> SUFFICES ASSUME NEW p \in 0..page', p < NumPages
               PROVE  p \in Recommend!Shown' \cup Recommend!Asked'
    BY DEF Recommend!NoPageMissing
  <2>1. p \in Nat /\ p \in Recommend!Shown \cup Recommend!Asked
    BY <1>t, <1>1 DEF Recommend!NoPageMissing
  <2> QED BY <1>1, <2>1
<1>2. ASSUME UNCHANGED <<page, itemList, listPage, moreReq>>
      PROVE  Recommend!NoPageMissing'
  BY <1>2 DEF Recommend!NoPageMissing, Recommend!Shown, Recommend!Asked
<1>3. CASE Recommend!LoadList
  <2>1. CASE listPage = Recommend!NoRequest
    <3>1. /\ page' = page /\ itemList' = itemList /\ moreReq' = moreReq
      BY <1>3 DEF Recommend!LoadList
    <3>2. Recommend!Shown' = Recommend!Shown
      BY <3>1 DEF Recommend!Shown
    <3>3. \A p \in Nat : p \in Recommend!Asked => p \in Recommend!Asked'
      BY <1>t, <2>1, <3>1 DEF Recommend!Asked
    <3> QED BY <1>1, <3>1, <3>2, <3>3
  <2>2. CASE listPage # Recommend!NoRequest
    BY <1>3, <2>2 DEF Recommend!LoadList
  <2> QED BY <2>1, <2>2
<1>4. CASE Recommend!LoadMore
  <2>1. CASE moreReq = Recommend!NoRequest
    <3>1. /\ page' = page + 1 /\ moreReq' = page + 1
          /\ itemList' = itemList /\ listPage' = listPage
      BY <1>4 DEF Recommend!LoadMore
    <3>2. Recommend!Shown' = Recommend!Shown
      BY <3>1 DEF Recommend!Shown
    <3>3. \A p \in Nat : p \in Recommend!Asked => p \in Recommend!Asked'
      BY <1>t, <2>1, <3>1 DEF Recommend!Asked
    <3>4. page + 1 \in Recommend!Asked'
      BY <3>1 DEF Recommend!Asked
    <3> SUFFICES ASSUME NEW p \in 0..page', p < NumPages
                 PROVE  p \in Recommend!Shown' \cup Recommend!Asked'
      BY DEF Recommend!NoPageMissing
    <3>5. p = page + 1 \/ p \in 0..page
      BY <1>t, <3>1
    <3> QED BY <1>t, <3>2, <3>3, <3>4, <3>5 DEF Recommend!NoPageMissing
  <2>2. CASE moreReq # Recommend!NoRequest
    BY <1>4, <2>2 DEF Recommend!LoadMore
  <2> QED BY <2>1, <2>2
<1>5. CASE Recommend!MoreLoaded
  <2> DEFINE s == Recommend!Items(moreReq)
  <2>1. page' = page /\ listPage' = listPage /\ itemList' = itemList \o s
    BY <1>5 DEF Recommend!MoreLoaded
  <2>2. s \in Seq(T) /\ (moreReq \in Nat /\ moreReq < NumPages => s = <<moreReq>>)
    BY <1>t DEF Recommend!Items
  <2> HIDE DEF s
  <2>3. /\ Recommend!Shown \subseteq Recommend!Shown'
        /\ {s[i] : i \in 1..Len(s)} \subseteq Recommend!Shown'
    <3>1. /\ Recommend!Shown = {itemList[i] : i \in 1..Len(itemList)}
          /\ Recommend!Shown' = {(itemList \o s)[i] : i \in 1..Len(itemList \o s)}
      BY <2>1 DEF Recommend!Shown
    <3>2. itemList \in Seq(T) /\ s \in Seq(T)
      BY <1>t, <2>2
    <3>3. {itemList[i] : i \in 1..Len(itemList)}
            \subseteq {(itemList \o s)[i] : i \in 1..Len(itemList \o s)}
      BY ONLY <3>2, ShownGrows
    <3>4. {s[i] : i \in 1..Len(s)} \subseteq {(itemList \o s)[i] : i \in 1..Len(itemList \o s)}
      <4>1. \A i \in 1..Len(s) : s[i] \in {(itemList \o s)[j] : j \in 1..Len(itemList \o s)}
        BY ONLY <3>2, AddedShows
      <4> QED BY <4>1
    <3> QED BY <3>1, <3>3, <3>4
  <2>4. moreReq \in Nat /\ moreReq < NumPages => moreReq \in Recommend!Shown'
    BY <2>2, <2>3
  <2>5. \A p \in Recommend!Asked : p = moreReq \/ p \in Recommend!Asked'
    BY <2>1 DEF Recommend!Asked
  <2> QED BY <1>1, <2>1, <2>3, <2>4, <2>5
<1>6. CASE Recommend!MoreFailed
  BY <1>6 DEF Recommend!MoreFailed
<1>7. CASE Recommend!PartBlock
  <2>1. PICK part \in Recommend!Part, r \in Recommend!ListReply :
          Recommend!PartArrives(part, r) \/ Recommend!ListDelivered(part, r)
    BY <1>7 DEF Recommend!PartBlock
  <2>2. CASE Recommend!PartArrives(part, r)
    BY <1>2, <2>2 DEF Recommend!PartArrives
  <2>3. CASE Recommend!ListDelivered(part, r)
    <3> DEFINE ok(p) == IF p = part THEN r \in Recommend!Succeeded ELSE zipped[p]
               hot == IF ok("hot") THEN Recommend!HotSections ELSE <<>>
               category == IF ok("category") THEN Recommend!Items(listPage) ELSE <<>>
    <3>1. /\ r \in Recommend!PartReply(part) /\ Recommend!RunBlock(r)
          /\ Recommend!Waiting \cup {part} = Recommend!Part
          /\ itemList' = itemList \o hot \o category
          /\ UNCHANGED <<page, moreReq>>
      BY <2>3 DEF Recommend!ListDelivered
    <3>2. CASE ~ok("category")
      <4>1. CASE part = "category"
        BY <3>1, <3>2, <4>1 DEF Recommend!CategoryFails, Recommend!PartReply,
           Recommend!Succeeded
      <4>2. CASE part # "category"
        <5>1. "category" \in Recommend!Waiting
          BY <3>1, <4>2 DEF Recommend!Part
        <5> QED BY <3>2, <4>2, <5>1 DEF Recommend!CategoryFails
      <4> QED BY <4>1, <4>2
    <3>3. CASE ok("category")
      <4>1. hot \in Seq(T)
        <5>1. Recommend!HotSections \in [1..NumHot -> T]
          BY DEF Recommend!HotSections, T
        <5>2. Recommend!HotSections \in Seq(T)
          BY <5>1
        <5> HIDE DEF ok
        <5> QED BY <5>2
      <4>2. category = Recommend!Items(listPage)
        BY <3>3
      <4> HIDE DEF hot, category, ok
      <4>3. category \in Seq(T)
        BY <1>t, <4>2 DEF Recommend!Items
      <4>8. listPage \in Nat /\ listPage < NumPages => category = <<listPage>>
        BY <4>2 DEF Recommend!Items
      <4>4. itemList \o hot \in Seq(T)
        BY <1>t, <4>1
      <4>5. /\ Recommend!Shown \subseteq {(itemList \o hot)[i] : i \in 1..Len(itemList \o hot)}
            /\ {(itemList \o hot)[i] : i \in 1..Len(itemList \o hot)} \subseteq Recommend!Shown'
            /\ {category[i] : i \in 1..Len(category)} \subseteq Recommend!Shown'
        <5> DEFINE q == itemList \o hot
        <5>1. /\ Recommend!Shown = {itemList[i] : i \in 1..Len(itemList)}
              /\ Recommend!Shown' = {(q \o category)[i] : i \in 1..Len(q \o category)}
          BY <3>1 DEF Recommend!Shown
        <5>2. {itemList[i] : i \in 1..Len(itemList)} \subseteq {q[i] : i \in 1..Len(q)}
          BY ONLY <1>t, <4>1, ShownGrows
        <5> HIDE DEF q
        <5>3. q \in Seq(T)
          BY <4>4 DEF q
        <5>4. {q[i] : i \in 1..Len(q)} \subseteq {(q \o category)[i] : i \in 1..Len(q \o category)}
          BY ONLY <4>3, <5>3, ShownGrows
        <5>5. {category[i] : i \in 1..Len(category)}
                \subseteq {(q \o category)[i] : i \in 1..Len(q \o category)}
          <6>1. \A i \in 1..Len(category) :
                  category[i] \in {(q \o category)[j] : j \in 1..Len(q \o category)}
            BY ONLY <4>3, <5>3, AddedShows
          <6> QED BY <6>1
        <5> QED BY <5>1, <5>2, <5>4, <5>5 DEF q
      <4>6. listPage \in Nat /\ listPage < NumPages => listPage \in Recommend!Shown'
        BY <4>8, <4>5
      <4>7. \A p \in Recommend!Asked : p = listPage \/ p \in Recommend!Asked'
        BY <3>1 DEF Recommend!Asked
      <4> QED BY <1>1, <3>1, <4>5, <4>6, <4>7
    <3> QED BY <3>2, <3>3
  <2> QED BY <2>1, <2>2, <2>3
<1>8. CASE \/ Recommend!ScrollToFooter \/ Recommend!PullDown \/ Recommend!Gesture
           \/ Recommend!Draw \/ Recommend!EndAnimation \/ Recommend!ControlBlock
           \/ Recommend!DisposedReply
           \/ \E part \in Recommend!Part : Recommend!PartAnswered(part)
           \/ Recommend!MoreAnswered \/ UNCHANGED Recommend!vars
  <2>1. UNCHANGED <<page, itemList, listPage, moreReq>>
    BY <1>8 DEF Recommend!ScrollToFooter, Recommend!PullDown, Recommend!Gesture,
       Recommend!Draw, Recommend!EndAnimation, Recommend!ControlBlock,
       Recommend!DisposedReply, Recommend!PartAnswered, Recommend!AnswerPart,
       Recommend!MoreAnswered, Recommend!AnswerMore, Recommend!vars, Recommend!feedVars
  <2> QED BY <1>2, <2>1
<1> QED
  BY <1>3, <1>4, <1>5, <1>6, <1>7, <1>8 DEF Recommend!Next, Recommend!RunMainQueue

(* A page up to the one the feed is at goes missing only when the request   *)
(* for it fails or is replaced by another (LDRecommendVM.transform).        *)
THEOREM PagesLostOnlySo ==
    ASSUME NumHot \in Nat
    PROVE  Recommend!Spec => Recommend!PageLostOnlyByFailureOrReplacement
<1>1. FeedOwed /\ [Recommend!Next]_(Recommend!vars) =>
        [Recommend!NoPageMissing /\ ~Recommend!NoPageMissing' =>
           \/ Recommend!RunBlock("moreFail")
           \/ Recommend!CategoryFails
           \/ Recommend!RunBlock("hdrCallback") /\ listPage # Recommend!NoRequest
           \/ Recommend!RunBlock("ftrCallback") /\ moreReq # Recommend!NoRequest]_(Recommend!vars)
  BY FeedPageStep
<1> QED
  BY <1>1, FeedOwedInvariant, PTL
  DEF Recommend!Spec, Recommend!PageLostOnlyByFailureOrReplacement

-----------------------------------------------------------------------------
(***************************************************************************)
(* The portals of the college tab and of today's recommendations.          *)
(***************************************************************************)
CONSTANT MaxRefreshes

VARIABLES refreshes, shown, bannerList

Portal == INSTANCE PortalFeed

(* The refresh under way, as the lemmas on answers name one.                *)
RefreshOwed == IF listReq = Portal!NoRequest THEN NoRequest ELSE listReq

(* As on the community portal, each part is owed exactly once.              *)
PortalPartOwed(part) ==
    /\ OwedOnce(mainQueue, Portal!PartReply(part), RefreshOwed,
                part \in listWire \/ part \in Portal!Waiting)
    /\ ~(part \in listWire /\ part \in Portal!Waiting)

(* The refresh under way is a later one than the page shows, the zip holds  *)
(* only what it brought, and the placeholder has been set up by the time a  *)
(* refresh can deliver.                                                     *)
RefreshInOrder ==
    /\ listReq # Portal!NoRequest => listReq > shown /\ emptyDataSetSource
    /\ shown > 0 => emptyDataSetSource
    /\ \A part \in Portal!Waiting : zipped[part] \in {Portal!Nothing, listReq}

PortalOwed ==
    /\ Portal!TypeOK
    /\ \A part \in Portal!Part : PortalPartOwed(part)
    /\ RefreshInOrder

PortalInv == PortalOwed /\ Portal!EmptyPageSaysSo

NoReplies(s) ==
    /\ s \in Seq(Portal!Block)
    /\ \A part \in Portal!Part : HasNone(s, Portal!PartReply(part))

LEMMA PortalReplies ==
    /\ \A part \in Portal!Part :
         /\ "disposed" \notin Portal!PartReply(part)
         /\ Portal!PartReply(part) \subseteq Portal!ListReply
         /\ \A p \in Portal!Part \ {part} : Portal!PartReply(part) \cap Portal!PartReply(p) = {}
    /\ Portal!ListReply \cap Portal!ScreenBlock = {}
    /\ "disposed" \notin Portal!ListReply
    /\ Portal!ListReply \subseteq Portal!Block
    /\ Portal!ScreenBlock \subseteq Portal!Block
    /\ "disposed" \in Portal!Block
BY DEF Portal!Part, Portal!PartReply, Portal!ListReply, Portal!ScreenBlock, Portal!Block

LEMMA PortalPosts ==
    /\ \A b \in Portal!ScreenBlock : NoReplies(<<b>>)
    /\ NoReplies(<<>>)
    /\ NoReplies(Portal!DeliveredBlocks)
<1>1. ASSUME NEW b \in Portal!ScreenBlock PROVE NoReplies(<<b>>)
  BY PortalReplies DEF NoReplies, HasNone, Has
<1>2. NoReplies(<<>>)
  BY DEF NoReplies, HasNone, Has
<1>3. "hdrIdle" \in Portal!ScreenBlock
  BY DEF Portal!ScreenBlock
<1> QED
  BY <1>1, <1>2, <1>3 DEF Portal!DeliveredBlocks

LEMMA PortalInit == Portal!Init => PortalInv
<1> SUFFICES ASSUME Portal!Init PROVE PortalInv
  OBVIOUS
<1>1. /\ mainQueue = <<>> /\ zipped = <<>> /\ listWire = {} /\ refreshes = 0 /\ listReq = 0
      /\ shown = 0 /\ bannerList = 0 /\ itemList = 0
  BY DEF Portal!Init, Portal!NoRequest, Portal!Nothing
<1>2. Portal!Waiting = {} /\ Portal!Part # {}
  BY <1>1 DEF Portal!Waiting, Portal!Part
<1>3. \A part \in Portal!Part : PortalPartOwed(part)
  BY <1>1, <1>2 DEF PortalPartOwed, OwedOnce, Single, HasNone, Has, RefreshOwed, Portal!NoRequest
<1>4. Portal!TypeOK
  <2>1. Portal!ScreenTypeOK /\ Portal!EmptyTypeOK
    BY DEF Portal!Init, Portal!ScreenTypeOK, Portal!HeaderState, Portal!FooterState,
       Portal!EmptyTypeOK, Portal!EmptyInit
  <2> QED BY <1>1, <1>2, <2>1 DEF Portal!TypeOK
<1> QED
  BY <1>1, <1>2, <1>3, <1>4
  DEF PortalInv, PortalOwed, RefreshInOrder, Portal!EmptyPageSaysSo, Portal!NoRequest

(* A step that leaves the requests alone, runs no answer to one and posts   *)
(* none.                                                                    *)
LEMMA PortalQuiet ==
    ASSUME PortalInv, NEW s, NoReplies(s),
           \/ mainQueue' = mainQueue \o s
           \/ /\ mainQueue # <<>> /\ Head(mainQueue) \notin Portal!ListReply
              /\ mainQueue' = Tail(mainQueue) \o s,
           Portal!ScreenTypeOK',
           UNCHANGED <<Portal!emptyVars, Portal!requestVars, Portal!pageVars>>
    PROVE  PortalInv'
<1>1. UNCHANGED <<emptyDataSetSource, placeholder, isScrollEnabled, refreshes, listReq, listWire,
                  zipped, shown, bannerList, itemList>>
  BY DEF Portal!emptyVars, Portal!requestVars, Portal!pageVars
<1>2. mainQueue \in Seq(Portal!Block) /\ s \in Seq(Portal!Block)
  BY DEF PortalInv, PortalOwed, Portal!TypeOK, NoReplies
<1>3. PICK q \in Seq(Portal!Block) :
        /\ mainQueue' = q \o s
        /\ \/ q = mainQueue
           \/ q = Tail(mainQueue) /\ mainQueue # <<>> /\ Head(mainQueue) \notin Portal!ListReply
  <2>1. CASE mainQueue' = mainQueue \o s
    BY <1>2, <2>1
  <2>2. CASE mainQueue' # mainQueue \o s
    <3>1. mainQueue # <<>> /\ Head(mainQueue) \notin Portal!ListReply
          /\ mainQueue' = Tail(mainQueue) \o s
      BY <2>2
    <3>2. Tail(mainQueue) \in Seq(Portal!Block)
      BY <1>2, <3>1, HasTail
    <3> QED BY <3>1, <3>2
  <2> QED BY <2>1, <2>2
<1>4. mainQueue' \in Seq(Portal!Block)
  BY <1>2, <1>3
<1>5. ASSUME NEW part \in Portal!Part PROVE PortalPartOwed(part)'
  <2> DEFINE R == Portal!PartReply(part)
             wire == part \in listWire \/ part \in Portal!Waiting
  <2>1. /\ OwedOnce(mainQueue, R, RefreshOwed, wire) /\ HasNone(s, R) /\ wire \in BOOLEAN
        /\ R \subseteq Portal!ListReply
    BY PortalReplies DEF PortalInv, PortalOwed, PortalPartOwed, NoReplies
  <2> HIDE DEF R, wire
  <2>2. OwedOnce(q, R, RefreshOwed, wire)
    <3>1. CASE q = mainQueue
      BY <2>1, <3>1
    <3>2. CASE q = Tail(mainQueue) /\ mainQueue # <<>> /\ Head(mainQueue) \notin Portal!ListReply
      BY <1>2, <2>1, <3>2, OwedTail
    <3> QED BY <1>3, <3>1, <3>2
  <2>3. OwedOnce(q \o s, R, RefreshOwed, wire)
    BY <1>2, <2>1, <2>2, OwedPost
  <2>4. ~(part \in listWire /\ part \in Portal!Waiting)
    BY DEF PortalInv, PortalOwed, PortalPartOwed
  <2> QED
    BY <1>1, <1>3, <2>3, <2>4 DEF R, wire, PortalPartOwed, Portal!Waiting, OwedOnce, RefreshOwed
<1>6. Portal!TypeOK'
  BY <1>1, <1>4 DEF PortalInv, PortalOwed, Portal!TypeOK, Portal!EmptyTypeOK, Portal!Waiting
<1> QED
  BY <1>1, <1>5, <1>6
  DEF PortalInv, PortalOwed, RefreshInOrder, Portal!EmptyPageSaysSo, Portal!Waiting

(* The user, UIKit, the blocks of the controls and answers disposed of.     *)
LEMMA PortalScreen ==
    ASSUME PortalInv,
           \/ Portal!PullPage \/ Portal!Gesture \/ Portal!Draw \/ Portal!EndAnimation
           \/ Portal!ControlBlock \/ Portal!DisposedReply
    PROVE  PortalInv'
<1>t. Portal!ScreenTypeOK /\ mainQueue \in Seq(Portal!Block)
  BY DEF PortalInv, PortalOwed, Portal!TypeOK
<1>e. mainQueue = mainQueue \o <<>>
  BY <1>t
<1>b. \A b \in {"hdrAnimate", "hdrCallback", "hdrIdle"} : NoReplies(<<b>>)
  BY PortalPosts DEF Portal!ScreenBlock
<1>u. UNCHANGED <<Portal!emptyVars, Portal!requestVars, Portal!pageVars>>
  BY DEF Portal!PullPage, Portal!Gesture, Portal!Draw, Portal!EndAnimation,
     Portal!ControlBlock, Portal!DisposedReply
<1>1. Portal!ScreenTypeOK'
  <2> USE <1>t DEF Portal!ScreenTypeOK, Portal!HeaderState, Portal!FooterState
  <2>1. CASE Portal!PullPage \/ Portal!Gesture
    BY <2>1 DEF Portal!PullPage, Portal!Gesture, Portal!PullHeader,
       Portal!UnpullHeader, Portal!ReleaseHeader, Portal!Appear, Portal!Disappear,
       Portal!BeginHeader
  <2>2. CASE Portal!Draw \/ Portal!EndAnimation
    BY <2>2 DEF Portal!Draw, Portal!EndAnimation, Portal!DrawHeader,
       Portal!AnimationDone, Portal!BeginHeader
  <2>3. CASE Portal!ControlBlock \/ Portal!DisposedReply
    BY <2>3 DEF Portal!ControlBlock, Portal!DisposedReply, Portal!AnimateHeader,
       Portal!IdleHeader
  <2> QED BY <2>1, <2>2, <2>3
<1>2. CASE Portal!PullPage \/ Portal!Gesture \/ Portal!Draw \/ Portal!EndAnimation
  <2>1. \/ mainQueue' = mainQueue
        \/ mainQueue' = mainQueue \o <<>>
        \/ \E b \in {"hdrAnimate", "hdrCallback", "hdrIdle"} : mainQueue' = mainQueue \o <<b>>
    BY <1>2 DEF Portal!PullPage, Portal!Gesture, Portal!PullHeader, Portal!UnpullHeader,
       Portal!ReleaseHeader, Portal!Appear, Portal!Disappear, Portal!BeginHeader,
       Portal!Draw, Portal!EndAnimation, Portal!DrawHeader, Portal!AnimationDone, Portal!Post
  <2> QED BY <1>e, <1>b, <1>u, <1>1, <2>1, PortalPosts, PortalQuiet
<1>3. CASE Portal!ControlBlock \/ Portal!DisposedReply
  <2>1. /\ mainQueue # <<>> /\ mainQueue' = Tail(mainQueue) \o <<>>
        /\ Head(mainQueue) \in Portal!ScreenBlock \cup {"disposed"}
    BY <1>3 DEF Portal!ControlBlock, Portal!DisposedReply, Portal!AnimateHeader,
       Portal!IdleHeader, Portal!RunBlock, Portal!RunAndPost, Portal!ScreenBlock
  <2>2. Head(mainQueue) \notin Portal!ListReply
    BY <2>1, PortalReplies
  <2> QED BY <1>u, <1>1, <2>1, <2>2, PortalPosts, PortalQuiet
<1> QED
  BY <1>2, <1>3

(* A refresh replaces the one under way: its answers are disposed of.       *)
LEMMA PortalStart ==
    ASSUME PortalInv, Portal!LoadList
    PROVE  PortalInv'
<1> DEFINE t == Tail(mainQueue)
           d == DisposedQueue(t, Portal!ListReply)
<1>1. /\ mainQueue \in Seq(Portal!Block) /\ mainQueue # <<>>
      /\ refreshes \in Nat /\ listReq \in 0..refreshes /\ shown \in 0..refreshes
      /\ bannerList \in 0..refreshes /\ itemList \in 0..refreshes
  BY DEF PortalInv, PortalOwed, Portal!TypeOK, Portal!LoadList, Portal!RunBlock
<1>2. t \in Seq(Portal!Block) /\ "disposed" \in Portal!Block
  BY <1>1, HasTail, PortalReplies
<1> HIDE DEF t
<1>3. /\ mainQueue' = d /\ refreshes' = refreshes + 1 /\ listReq' = refreshes'
      /\ listWire' = Portal!Part /\ zipped' = <<>> /\ emptyDataSetSource' = TRUE
      /\ UNCHANGED <<header, footer, footerHidden, inWindow, animating>>
      /\ UNCHANGED <<shown, bannerList, itemList, placeholder, isScrollEnabled>>
  BY DEF Portal!LoadList, Portal!DisposedQueue, DisposedQueue, t, Portal!pageVars
<1>4. d \in Seq(Portal!Block) /\ \A b \in Portal!ListReply : ~Has(d, b)
  BY <1>2, HasDisposed, PortalReplies
<1> HIDE DEF d
<1>5. Portal!Waiting' = {} /\ Portal!Part # {}
  BY <1>3 DEF Portal!Waiting, Portal!Part
<1>6. ASSUME NEW part \in Portal!Part PROVE PortalPartOwed(part)'
  <2>1. HasNone(mainQueue', Portal!PartReply(part))
    BY <1>3, <1>4, PortalReplies DEF HasNone
  <2>2. Single(mainQueue', Portal!PartReply(part))
    BY <2>1 DEF HasNone, Has, Single
  <2>3. RefreshOwed' # NoRequest
    BY <1>1, <1>3 DEF NoRequest, RefreshOwed, Portal!NoRequest
  <2> QED BY <1>3, <1>5, <2>1, <2>2, <2>3 DEF PortalPartOwed, OwedOnce
<1>7. Portal!TypeOK'
  <2>1. /\ refreshes' \in Nat /\ listReq' \in 0..refreshes' /\ shown' \in 0..refreshes'
        /\ bannerList' \in 0..refreshes' /\ itemList' \in 0..refreshes'
    BY <1>1, <1>3
  <2>2. Portal!ScreenTypeOK' /\ Portal!EmptyTypeOK'
    BY <1>3 DEF PortalInv, PortalOwed, Portal!TypeOK, Portal!ScreenTypeOK, Portal!EmptyTypeOK
  <2> QED BY <1>3, <1>4, <1>5, <2>1, <2>2 DEF Portal!TypeOK
<1>8. RefreshInOrder'
  BY <1>1, <1>3, <1>5 DEF RefreshInOrder
<1> QED
  BY <1>3, <1>6, <1>7, <1>8 DEF PortalInv, PortalOwed, Portal!EmptyPageSaysSo

(* The network answers each part once.                                      *)
LEMMA PortalAnswer ==
    ASSUME PortalInv, NEW part \in Portal!Part, NEW r \in Portal!PartReply(part),
           Portal!AnswerPart(part, r)
    PROVE  PortalInv'
<1>t. mainQueue \in Seq(Portal!Block)
  BY DEF PortalInv, PortalOwed, Portal!TypeOK
<1>1. /\ part \in listWire /\ listWire' = listWire \ {part}
      /\ mainQueue' = mainQueue \o <<r>>
      /\ UNCHANGED <<header, footer, footerHidden, inWindow, animating>>
      /\ UNCHANGED <<emptyDataSetSource, placeholder, isScrollEnabled,
                     refreshes, listReq, zipped, shown, bannerList, itemList>>
  BY DEF Portal!AnswerPart, Portal!Post, Portal!emptyVars, Portal!pageVars
<1>2. /\ r \in Portal!Block /\ <<r>> \in Seq(Portal!Block)
      /\ \A p \in Portal!Part \ {part} : HasNone(<<r>>, Portal!PartReply(p))
  BY PortalReplies DEF HasNone, Has
<1>3. ASSUME NEW p \in Portal!Part PROVE PortalPartOwed(p)'
  <2> DEFINE R == Portal!PartReply(p)
             wire == p \in listWire \/ p \in Portal!Waiting
  <2>1. OwedOnce(mainQueue, R, RefreshOwed, wire) /\ ~(p \in listWire /\ p \in Portal!Waiting)
    BY DEF PortalInv, PortalOwed, PortalPartOwed
  <2>2. CASE p = part
    <3>1. HasNone(mainQueue, R) /\ RefreshOwed # NoRequest /\ r \in R
      BY <1>1, <2>1, <2>2 DEF OwedOnce
    <3>2. OwedOnce(mainQueue \o <<r>>, R, RefreshOwed, FALSE)
      <4> HIDE DEF R
      <4> QED BY <1>t, <1>2, <3>1, OwedAnswer
    <3>3. p \notin listWire' /\ p \notin Portal!Waiting'
      BY <1>1, <2>1, <2>2 DEF Portal!Waiting
    <3> QED BY <1>1, <3>2, <3>3 DEF PortalPartOwed, OwedOnce, RefreshOwed
  <2>3. CASE p # part
    <3>1. OwedOnce(mainQueue \o <<r>>, R, RefreshOwed, wire)
      <4>1. HasNone(<<r>>, R)
        BY <1>2, <2>3
      <4> HIDE DEF R, wire
      <4> QED BY <1>t, <1>2, <2>1, <4>1, OwedPost
    <3> QED BY <1>1, <2>1, <2>3, <3>1 DEF PortalPartOwed, Portal!Waiting, OwedOnce, RefreshOwed
  <2> QED BY <2>2, <2>3
<1>4. mainQueue' \in Seq(Portal!Block)
  BY <1>t, <1>1, <1>2
<1> QED
  BY <1>1, <1>3, <1>4
  DEF PortalInv, PortalOwed, Portal!TypeOK, Portal!ScreenTypeOK, Portal!EmptyTypeOK,
      RefreshInOrder, Portal!Waiting, Portal!EmptyPageSaysSo

(* The answer to a part runs: a refresh is under way, the part is neither   *)
(* on the wire nor in the zip, and no other answer to it is queued.         *)
LEMMA PortalPartRuns ==
    ASSUME PortalInv, NEW part \in Portal!Part, NEW r \in Portal!PartReply(part),
           Portal!RunBlock(r)
    PROVE  /\ mainQueue # <<>> /\ Tail(mainQueue) \in Seq(Portal!Block)
           /\ listReq # Portal!NoRequest
           /\ part \notin listWire /\ part \notin Portal!Waiting
           /\ Single(Tail(mainQueue), Portal!PartReply(part))
           /\ HasNone(Tail(mainQueue), Portal!PartReply(part))
           /\ \A p \in Portal!Part \ {part} :
                OwedOnce(Tail(mainQueue), Portal!PartReply(p), RefreshOwed,
                         p \in listWire \/ p \in Portal!Waiting)
<1>1. /\ mainQueue # <<>> /\ mainQueue \in Seq(Portal!Block) /\ Head(mainQueue) = r
      /\ \A p \in Portal!Part \ {part} : r \notin Portal!PartReply(p)
  BY PortalReplies DEF Portal!RunBlock, PortalInv, PortalOwed, Portal!TypeOK
<1>2. ASSUME NEW p \in Portal!Part
      PROVE  /\ p # part => OwedOnce(Tail(mainQueue), Portal!PartReply(p), RefreshOwed,
                                     p \in listWire \/ p \in Portal!Waiting)
             /\ p = part => /\ RefreshOwed # NoRequest
                            /\ p \notin listWire /\ p \notin Portal!Waiting
                            /\ OwedOnce(Tail(mainQueue), Portal!PartReply(p), NoRequest, FALSE)
  <2> DEFINE R == Portal!PartReply(p)
             wire == p \in listWire \/ p \in Portal!Waiting
  <2>1. OwedOnce(mainQueue, R, RefreshOwed, wire) /\ wire \in BOOLEAN
    BY DEF PortalInv, PortalOwed, PortalPartOwed
  <2>2. p = part <=> Head(mainQueue) \in R
    BY <1>1
  <2> HIDE DEF R, wire
  <2>3. /\ p # part => OwedOnce(Tail(mainQueue), R, RefreshOwed, wire)
        /\ p = part => /\ RefreshOwed # NoRequest /\ ~wire
                       /\ OwedOnce(Tail(mainQueue), R, NoRequest, wire)
    BY <1>1, <2>1, <2>2, OwedTail
  <2> QED BY <2>3 DEF R, wire, OwedOnce
<1>3. /\ RefreshOwed # NoRequest
      /\ OwedOnce(Tail(mainQueue), Portal!PartReply(part), NoRequest, FALSE)
  BY <1>2
<1>4. /\ listReq # Portal!NoRequest
      /\ Single(Tail(mainQueue), Portal!PartReply(part))
      /\ HasNone(Tail(mainQueue), Portal!PartReply(part))
  BY <1>3 DEF OwedOnce, RefreshOwed
<1> QED
  BY <1>1, <1>2, <1>4, HasTail

(* What an answer brings is of the refresh under way.                       *)
LEMMA BroughtOfRefresh ==
    ASSUME PortalInv, NEW r
    PROVE  Portal!Brought(r) \in {Portal!Nothing, listReq} /\ Portal!Brought(r) \in 0..refreshes
BY DEF Portal!Brought, PortalInv, PortalOwed, Portal!TypeOK, Portal!Nothing

(* The zip holds an answer back ...                                         *)
LEMMA PortalPartArrives ==
    ASSUME PortalInv, NEW part \in Portal!Part, NEW r, Portal!PartArrives(part, r)
    PROVE  PortalInv'
<1>1. /\ r \in Portal!PartReply(part) /\ Portal!RunBlock(r)
      /\ Portal!Waiting \cup {part} # Portal!Part
      /\ mainQueue' = Tail(mainQueue) \o <<>>
      /\ zipped' = [p \in Portal!Waiting \cup {part} |->
                      IF p = part THEN Portal!Brought(r) ELSE zipped[p]]
      /\ UNCHANGED <<header, footer, footerHidden, inWindow, animating>>
      /\ UNCHANGED <<emptyDataSetSource, placeholder, isScrollEnabled,
                     refreshes, listReq, listWire, shown, bannerList, itemList>>
  BY DEF Portal!PartArrives, Portal!RunAndPost, Portal!emptyVars, Portal!pageVars
<1>2. Tail(mainQueue) \in Seq(Portal!Block)
  BY <1>1, PortalPartRuns
<1>3. mainQueue' = Tail(mainQueue)
  BY <1>1, <1>2
<1>4. Portal!Waiting' = Portal!Waiting \cup {part}
  BY <1>1 DEF Portal!Waiting
<1>5. ASSUME NEW p \in Portal!Part PROVE PortalPartOwed(p)'
  <2>1. CASE p = part
    <3>1. p \in Portal!Waiting' /\ p \notin listWire'
      BY <1>1, <1>4, <2>1, PortalPartRuns
    <3>2. RefreshOwed' # NoRequest
      BY <1>1, PortalPartRuns DEF PortalInv, PortalOwed, Portal!TypeOK, RefreshOwed, NoRequest,
         Portal!NoRequest
    <3>3. /\ Single(mainQueue', Portal!PartReply(p))
          /\ HasNone(mainQueue', Portal!PartReply(p))
      BY <1>1, <1>3, <2>1, PortalPartRuns
    <3> QED BY <3>1, <3>2, <3>3 DEF PortalPartOwed, OwedOnce
  <2>2. CASE p # part
    <3>1. OwedOnce(mainQueue', Portal!PartReply(p), RefreshOwed,
                   p \in listWire \/ p \in Portal!Waiting)
      BY <1>1, <1>3, <2>2, PortalPartRuns
    <3>2. ~(p \in listWire /\ p \in Portal!Waiting)
      BY DEF PortalInv, PortalOwed, PortalPartOwed
    <3> QED BY <1>1, <1>4, <2>2, <3>1, <3>2 DEF PortalPartOwed, OwedOnce, RefreshOwed
  <2> QED BY <2>1, <2>2
<1>6. ASSUME NEW p \in Portal!Waiting'
      PROVE  zipped'[p] \in 0..refreshes /\ zipped'[p] \in {Portal!Nothing, listReq}
  <2>1. CASE p = part
    <3>1. zipped'[p] = Portal!Brought(r)
      BY <1>1, <1>4, <2>1
    <3> QED BY <3>1, BroughtOfRefresh
  <2>2. CASE p # part
    <3>1. zipped'[p] = zipped[p] /\ p \in Portal!Waiting
      BY <1>1, <1>4, <1>6, <2>2
    <3> QED BY <3>1 DEF PortalInv, PortalOwed, Portal!TypeOK, RefreshInOrder
  <2> QED BY <2>1, <2>2
<1>7. Portal!Waiting' \subseteq Portal!Part /\ Portal!Waiting' # Portal!Part
  BY <1>1, <1>4 DEF PortalInv, PortalOwed, Portal!TypeOK
<1>8. Portal!TypeOK'
  BY <1>1, <1>2, <1>3, <1>6, <1>7
  DEF PortalInv, PortalOwed, Portal!TypeOK, Portal!ScreenTypeOK, Portal!EmptyTypeOK
<1>9. RefreshInOrder'
  BY <1>1, <1>6 DEF PortalInv, PortalOwed, RefreshInOrder
<1> QED
  BY <1>1, <1>5, <1>8, <1>9 DEF PortalInv, PortalOwed, Portal!EmptyPageSaysSo

(* ... and the last delivers banners and sections of one refresh, a later   *)
(* one than the page shows.                                                 *)
LEMMA PortalDelivers ==
    ASSUME PortalInv, NEW part \in Portal!Part, NEW r, Portal!ListDelivered(part, r)
    PROVE  /\ PortalInv'
           /\ shown' \in Nat /\ shown' > shown
           /\ bannerList' \in {0, shown'} /\ itemList' \in {0, shown'}
<1> DEFINE brought(p) == IF p = part THEN Portal!Brought(r) ELSE zipped[p]
<1>1. /\ r \in Portal!PartReply(part) /\ Portal!RunBlock(r)
      /\ Portal!Waiting \cup {part} = Portal!Part
      /\ shown' = listReq
      /\ bannerList' = brought("banner") /\ itemList' = brought("category")
      /\ mainQueue' = Tail(mainQueue) \o Portal!DeliveredBlocks
      /\ listReq' = Portal!NoRequest /\ zipped' = <<>>
      /\ UNCHANGED <<header, footer, footerHidden, inWindow, animating>>
      /\ UNCHANGED <<emptyDataSetSource, refreshes, listWire>>
  BY DEF Portal!ListDelivered, Portal!RunAndPost
<1>2. ASSUME NEW p \in Portal!Part
      PROVE  brought(p) \in {0, listReq} /\ brought(p) \in 0..refreshes
  <2>1. CASE p = part
    BY <2>1, BroughtOfRefresh DEF Portal!Nothing
  <2>2. CASE p # part
    <3>1. p \in Portal!Waiting
      BY <1>1, <2>2
    <3> QED BY <2>2, <3>1 DEF PortalInv, PortalOwed, Portal!TypeOK, RefreshInOrder, Portal!Nothing
  <2> QED BY <2>1, <2>2
<1> HIDE DEF brought
<1>3. /\ bannerList' \in {0, shown'} /\ itemList' \in {0, shown'}
      /\ bannerList' \in 0..refreshes /\ itemList' \in 0..refreshes
  BY <1>1, <1>2 DEF Portal!Part
<1>4. /\ shown' \in Nat /\ shown' > shown /\ shown' \in 0..refreshes
      /\ emptyDataSetSource
  BY <1>1, PortalPartRuns DEF PortalInv, PortalOwed, Portal!TypeOK, RefreshInOrder
<1>5. /\ placeholder' \in BOOLEAN /\ isScrollEnabled' \in BOOLEAN
      /\ placeholder' <=> itemList' = Portal!Nothing
  <2>1. Portal!ReloadPage
    BY DEF Portal!ListDelivered
  <2> QED
    BY <1>4, <2>1 DEF Portal!ReloadPage, Portal!ReloadEmptyDataSet, Portal!Invalidate,
       Portal!EmptyDataSetShouldAllowScroll, PortalInv, PortalOwed, Portal!TypeOK,
       Portal!EmptyTypeOK
<1>6. Tail(mainQueue) \in Seq(Portal!Block) /\ NoReplies(Portal!DeliveredBlocks)
  BY <1>1, PortalPartRuns, PortalPosts
<1>7. Portal!Waiting' = {} /\ Portal!Part # {}
  BY <1>1 DEF Portal!Waiting, Portal!Part
<1>8. ASSUME NEW p \in Portal!Part PROVE PortalPartOwed(p)'
  <2> DEFINE R == Portal!PartReply(p)
  <2>1. p \notin listWire /\ Single(Tail(mainQueue), R) /\ HasNone(Tail(mainQueue), R)
    <3>1. CASE p = part
      BY <1>1, <3>1, PortalPartRuns
    <3>2. CASE p # part
      <4>1. p \in Portal!Waiting
        BY <1>1, <3>2
      <4>2. OwedOnce(Tail(mainQueue), R, RefreshOwed, p \in listWire \/ p \in Portal!Waiting)
        BY <1>1, <3>2, PortalPartRuns
      <4> QED BY <4>1, <4>2 DEF OwedOnce, PortalInv, PortalOwed, PortalPartOwed
    <3> QED BY <3>1, <3>2
  <2>2. HasNone(Portal!DeliveredBlocks, R) /\ Portal!DeliveredBlocks \in Seq(Portal!Block)
    BY <1>6 DEF NoReplies
  <2> HIDE DEF R
  <2>3. OwedOnce(Tail(mainQueue), R, NoRequest, FALSE)
    BY <2>1 DEF OwedOnce
  <2>4. OwedOnce(mainQueue', R, NoRequest, FALSE)
    BY <1>1, <1>6, <2>2, <2>3, OwedPost
  <2> QED BY <1>1, <1>7, <2>1, <2>4 DEF R, PortalPartOwed, OwedOnce, RefreshOwed
<1>9. mainQueue' \in Seq(Portal!Block)
  BY <1>1, <1>6 DEF NoReplies
<1>10. Portal!TypeOK'
  BY <1>1, <1>3, <1>4, <1>5, <1>7, <1>9
  DEF PortalInv, PortalOwed, Portal!TypeOK, Portal!ScreenTypeOK, Portal!EmptyTypeOK,
      Portal!NoRequest
<1>11. RefreshInOrder'
  BY <1>1, <1>4, <1>7 DEF RefreshInOrder
<1> QED
  BY <1>3, <1>4, <1>5, <1>8, <1>10, <1>11 DEF PortalInv, PortalOwed, Portal!EmptyPageSaysSo

(* Each step keeps the invariant, and replaces the page by one of a later   *)
(* refresh or leaves it.                                                    *)
LEMMA PortalStep ==
    ASSUME PortalInv, [Portal!Next]_(Portal!vars)
    PROVE  /\ PortalInv'
           /\ \/ UNCHANGED <<shown, bannerList, itemList>>
              \/ /\ shown' \in Nat /\ shown' > shown
                 /\ bannerList' \in {0, shown'} /\ itemList' \in {0, shown'}
<1>1. CASE \/ Portal!PullPage \/ Portal!Gesture \/ Portal!Draw \/ Portal!EndAnimation
           \/ Portal!ControlBlock \/ Portal!DisposedReply
  <2>1. UNCHANGED <<shown, bannerList, itemList>>
    BY <1>1 DEF Portal!PullPage, Portal!Gesture, Portal!Draw, Portal!EndAnimation,
       Portal!ControlBlock, Portal!DisposedReply, Portal!pageVars
  <2> QED BY <1>1, <2>1, PortalScreen
<1>2. CASE Portal!LoadList
  BY <1>2, PortalStart DEF Portal!LoadList, Portal!pageVars
<1>3. CASE Portal!PartBlock
  <2>0. PICK part \in Portal!Part :
               \E r : Portal!PartArrives(part, r) \/ Portal!ListDelivered(part, r)
    BY <1>3 DEF Portal!PartBlock
  <2>1. PICK r : Portal!PartArrives(part, r) \/ Portal!ListDelivered(part, r)
    BY <2>0
  <2>2. CASE Portal!PartArrives(part, r)
    BY <2>2, PortalPartArrives DEF Portal!PartArrives, Portal!pageVars
  <2>3. CASE Portal!ListDelivered(part, r)
    BY <2>3, PortalDelivers
  <2> QED BY <2>1, <2>2, <2>3
<1>4. CASE \E part \in Portal!Part : Portal!PartAnswered(part)
  <2>1. PICK part \in Portal!Part : Portal!PartAnswered(part)
    BY <1>4
  <2>2. PICK r \in Portal!PartReply(part) : Portal!AnswerPart(part, r)
    BY <2>1 DEF Portal!PartAnswered
  <2> QED BY <2>2, PortalAnswer DEF Portal!AnswerPart, Portal!pageVars
<1>5. CASE UNCHANGED Portal!vars
  BY <1>5
  DEF Portal!vars, Portal!screenVars, Portal!emptyVars, Portal!requestVars, Portal!pageVars,
      PortalInv, PortalOwed, Portal!TypeOK, Portal!ScreenTypeOK, Portal!EmptyTypeOK,
      PortalPartOwed, RefreshOwed, RefreshInOrder, Portal!Waiting, OwedOnce,
      Portal!EmptyPageSaysSo
<1> QED
  BY <1>1, <1>2, <1>3, <1>4, <1>5 DEF Portal!Next, Portal!RunMainQueue

LEMMA PortalInvariant == Portal!Spec => []PortalInv
<1>1. PortalInv /\ [Portal!Next]_(Portal!vars) => PortalInv'
  BY PortalStep
<1> QED
  BY PortalInit, <1>1, PTL DEF Portal!Spec

(* Once a portal has delivered a refresh its placeholder shows exactly when *)
(* it has no sections, and the types are right, whatever requests fail and  *)
(* refreshes replace one another (LDCollegeVM, LDTodayRecommendVM).         *)
THEOREM PortalCorrect == Portal!Spec => []Portal!PageInvariant
<1>1. PortalInv => Portal!PageInvariant
  BY DEF PortalInv, PortalOwed, Portal!PageInvariant
<1> QED
  BY <1>1, PortalInvariant, PTL

(* A portal implements PortalPage: it never mixes the banners of one        *)
(* refresh with the sections of another, nor goes back to an older one,     *)
(* in whatever order the answers come (flatMapLatest, Driver.zip).          *)
THEOREM PortalIsPage == Portal!Spec => Portal!ImplementsPage
<1>1. Portal!Init => Portal!Page!Init
  BY DEF Portal!Init, Portal!Page!Init, Portal!Nothing, Portal!Page!Nothing
<1>2. PortalInv /\ [Portal!Next]_(Portal!vars) => [Portal!Page!Replace]_(Portal!Page!pageVars)
  BY PortalStep DEF Portal!Page!Replace, Portal!Page!pageVars, Portal!Page!Nothing
<1> QED
  BY <1>1, <1>2, PortalInvariant, PTL DEF Portal!Spec, Portal!ImplementsPage, Portal!Page!Spec
=============================================================================
