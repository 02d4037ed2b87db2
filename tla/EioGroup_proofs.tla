--------------------------- MODULE EioGroup_proofs ---------------------------
(***************************************************************************)
(* The invariants of EioGroup, for any number of requests, groups and      *)
(* nested calls: what the client's call stack may look like, from which    *)
(* follows that a group is finished once, after its members, and that its  *)
(* list is in order whatever callbacks and feeders do in the middle.       *)
(***************************************************************************)
EXTENDS EioGroup, TLAPS

(* The calls of eio_finish, one of which at most is under way; the others  *)
(* have finished their group and are only left to destroy their request.   *)
Fin == {"finish", "callback", "dec", "decd", "destroy"}

(* The requests being finished. *)
Ending(x) == \E p \in Fin : Frame(p, x) \in Frames

(* The call stack, from the innermost call: the client's own calls, below  *)
(* them the one eio_finish that is under way, below it those that wait for *)
(* it, and eio_poll below them all.                                        *)
Innermost == \A i \in 1..Len(stack) :
  /\ stack[i].at = "poll" => Len(stack) = 1
  /\ stack[i].at \in {"finish", "dec", "feed"} => i = 1
  /\ stack[i].at = "polled" => i = Len(stack)
  /\ stack[i].at \in Fin => i < Len(stack)

Arguments == \A i \in 1..Len(stack) :
  /\ stack[i].at \in {"feed", "feeder"} => stack[i].req \in Grps
  /\ stack[i].at \in Fin \union {"cancel"} => stack[i].req \in Nodes

OneFinish == \A i, j \in 1..Len(stack) : i < j =>
  /\ stack[i].at \in Fin => stack[j].at \in {"destroy", "polled"}
  /\ stack[i].at \in Fin /\ stack[j].at \in Fin => stack[i].req # stack[j].req
  /\ stack[j].at = "cancel" => stack[i].at = "cancel"

(* An eio_finish waits for the eio_finish of its request's group. *)
Waiting == \A i \in 2..Len(stack) :
  /\ stack[i].at \in {"destroy", "polled"} => stack[i-1].at \in Fin
  /\ stack[i].at = "destroy" => /\ grp[stack[i].req] \in Grps
                                /\ grp[stack[i].req] = stack[i-1].req

Stacked == Innermost /\ Arguments /\ OneFinish /\ Waiting

(* What the places in eio_finish say of the request. *)
Marked == \A x \in Nodes :
  /\ stage[x] \in {"taken", "finishing"} => Ending(x)
  /\ Frame("finish", x) \in Frames => stage[x] = "taken" \/ (stage[x] = "delayed" /\ x \in Grps)
  /\ Frame("callback", x) \in Frames => stage[x] = "finishing"
  /\ \A p \in {"dec", "decd", "destroy"} : Frame(p, x) \in Frames =>
       stage[x] = "finishing" \/ (stage[x] = "taken" /\ x \in cancelled)
  /\ Frame("decd", x) \in Frames => grp[x] # None
  /\ stage[x] \in {"queued", "running"} => x \in Reqs
  /\ stage[x] = "delayed" => x \in Grps /\ int1[x]
  /\ x \in Grps /\ stage[x] = "done" => ~int1[x]

(* Memory that is not in use is as calloc left it. *)
Fresh == \A x \in Nodes : stage[x] = "free" =>
  /\ grp[x] = None
  /\ x \in Grps => grp_first[x] = None /\ size[x] = 0 /\ ~int1[x] /\ ~feed[x]

(* A group is there for as long as a request refers to it, and is being    *)
(* finished only when all that still do are about to be destroyed.         *)
Belong == \A x \in Nodes : grp[x] # None =>
  \/ Live(grp[x]) /\ (Ending(grp[x]) => Frame("destroy", x) \in Frames)
  \/ stack # << >> /\ Head(stack) = Frame("destroy", x)

(* eio_grp_cancel walks through lists. *)
Walking == \A x \in Nodes : Frame("cancel", x) \in Frames =>
  grp[x] \in Grps /\ Live(grp[x]) /\ x \in Members(grp[x])

GInv == /\ TypeOK /\ Stacked /\ Marked /\ Fresh /\ Belong /\ Walking
        /\ Linked /\ FinishedOnce /\ NotForgotten

-----------------------------------------------------------------------------
(* The call stack and the set of its frames. *)

FrameType == [at : Places, req : Nodes \union {None}]

(* The calls below the innermost one. *)
Rest == {stack[i] : i \in 2..Len(stack)}

LEMMA FrameEqual ==
  \A p, q, x, y : /\ Frame(p, x).at = p /\ Frame(p, x).req = x
                  /\ Frame(p, x) = Frame(q, y) <=> p = q /\ x = y
BY DEF Frame

LEMMA FrameTyped ==
  /\ \A f \in FrameType : f.at \in Places /\ f.req \in Nodes \union {None} /\ f = Frame(f.at, f.req)
  /\ \A p \in Places, x \in Nodes \union {None} : Frame(p, x) \in FrameType
BY DEF Frame, FrameType

LEMMA Pushed ==
  ASSUME NEW F, NEW s \in Seq(F), NEW f \in F
  PROVE  /\ <<f>> \o s \in Seq(F)
         /\ Len(<<f>> \o s) = Len(s) + 1
         /\ \A i \in 1..Len(s) + 1 : (<<f>> \o s)[i] = IF i = 1 THEN f ELSE s[i-1]
OBVIOUS

LEMMA Swapped ==
  ASSUME NEW F, NEW s \in Seq(F), NEW f \in F, s # << >>
  PROVE  /\ <<f>> \o Tail(s) \in Seq(F)
         /\ Len(<<f>> \o Tail(s)) = Len(s)
         /\ \A i \in 1..Len(s) : (<<f>> \o Tail(s))[i] = IF i = 1 THEN f ELSE s[i]
OBVIOUS

LEMMA SwappedTwo ==
  ASSUME NEW F, NEW s \in Seq(F), NEW f \in F, NEW h \in F, s # << >>
  PROVE  /\ <<f, h>> \o Tail(s) \in Seq(F)
         /\ Len(<<f, h>> \o Tail(s)) = Len(s) + 1
         /\ \A i \in 1..Len(s) + 1 :
              (<<f, h>> \o Tail(s))[i] = IF i = 1 THEN f ELSE IF i = 2 THEN h ELSE s[i-1]
OBVIOUS

LEMMA Popped ==
  ASSUME NEW F, NEW s \in Seq(F), s # << >>
  PROVE  /\ Tail(s) \in Seq(F)
         /\ Len(Tail(s)) = Len(s) - 1
         /\ \A i \in 1..Len(s) - 1 : Tail(s)[i] = s[i+1]
OBVIOUS

LEMMA HeadFirst ==
  ASSUME NEW F, NEW s \in Seq(F), Len(s) # 0
  PROVE  s # << >> /\ Head(s) = s[1]
OBVIOUS

LEMMA FramesCall ==
  ASSUME stack \in Seq(FrameType), NEW f \in FrameType, stack' = <<f>> \o stack
  PROVE  /\ stack' \in Seq(FrameType)
         /\ Frames' = Frames \union {f}
<1>1. /\ stack' \in Seq(FrameType) /\ Len(stack') = Len(stack) + 1
      /\ \A i \in 1..Len(stack) + 1 : stack'[i] = IF i = 1 THEN f ELSE stack[i-1]
  BY Pushed
<1>2. Len(stack) \in Nat
  OBVIOUS
<1>3. ASSUME NEW g \in Frames PROVE g \in Frames'
  <2>1. PICK i \in 1..Len(stack) : g = stack[i]
    BY DEF Frames
  <2>2. i + 1 \in 1..Len(stack) + 1 /\ stack'[i+1] = stack[i]
    BY <1>1, <1>2
  <2> QED BY <2>1, <2>2, <1>1 DEF Frames
<1>4. f \in Frames'
  BY <1>1, <1>2 DEF Frames
<1>5. ASSUME NEW g \in Frames' PROVE g = f \/ g \in Frames
  <2>1. PICK i \in 1..Len(stack) + 1 : g = stack'[i]
    BY <1>1 DEF Frames
  <2>2. CASE i = 1
    BY <2>1, <2>2, <1>1
  <2>3. CASE i # 1
    <3>1. i - 1 \in 1..Len(stack) /\ stack'[i] = stack[i-1]
      BY <2>3, <1>1, <1>2
    <3> QED BY <2>1, <3>1 DEF Frames
  <2> QED BY <2>2, <2>3
<1> QED BY <1>1, <1>3, <1>4, <1>5

LEMMA FramesTop ==
  ASSUME stack \in Seq(FrameType), stack # << >>
  PROVE  /\ Head(stack) \in FrameType /\ stack[1] = Head(stack) /\ Len(stack) \in Nat \ {0}
         /\ Frames = {Head(stack)} \union Rest
<1>1. Head(stack) \in FrameType /\ stack[1] = Head(stack) /\ Len(stack) \in Nat \ {0}
  OBVIOUS
<1>2. 1..Len(stack) = {1} \union 2..Len(stack)
  BY <1>1
<1> QED BY <1>1, <1>2 DEF Frames, Rest

LEMMA FramesGoto ==
  ASSUME stack \in Seq(FrameType), stack # << >>, NEW f \in FrameType,
         stack' = <<f>> \o Tail(stack)
  PROVE  /\ stack' \in Seq(FrameType)
         /\ Frames' = {f} \union Rest
<1>1. /\ stack' \in Seq(FrameType) /\ Len(stack') = Len(stack)
      /\ \A i \in 1..Len(stack) : stack'[i] = IF i = 1 THEN f ELSE stack[i]
  BY Swapped
<1>2. Len(stack) \in Nat \ {0}
  OBVIOUS
<1>3. 1..Len(stack) = {1} \union 2..Len(stack)
  BY <1>2
<1> QED BY <1>1, <1>2, <1>3 DEF Frames, Rest

LEMMA FramesCallThen ==
  ASSUME stack \in Seq(FrameType), stack # << >>, NEW f \in FrameType, NEW h \in FrameType,
         stack' = <<f, h>> \o Tail(stack)
  PROVE  /\ stack' \in Seq(FrameType)
         /\ Frames' = {f, h} \union Rest
<1>1. /\ stack' \in Seq(FrameType) /\ Len(stack') = Len(stack) + 1
      /\ \A i \in 1..Len(stack) + 1 :
            stack'[i] = IF i = 1 THEN f ELSE IF i = 2 THEN h ELSE stack[i-1]
  BY SwappedTwo
<1>2. Len(stack) \in Nat \ {0}
  OBVIOUS
<1>3. ASSUME NEW g \in Rest PROVE g \in Frames'
  <2>1. PICK i \in 2..Len(stack) : g = stack[i]
    BY DEF Rest
  <2>2. i + 1 \in 1..Len(stack) + 1 /\ stack'[i+1] = stack[i]
    BY <1>1, <1>2
  <2> QED BY <2>1, <2>2, <1>1 DEF Frames
<1>4. f \in Frames' /\ h \in Frames'
  <2>1. 1 \in 1..Len(stack) + 1 /\ 2 \in 1..Len(stack) + 1
    BY <1>2
  <2> QED BY <2>1, <1>1 DEF Frames
<1>5. ASSUME NEW g \in Frames' PROVE g \in {f, h} \union Rest
  <2>1. PICK i \in 1..Len(stack) + 1 : g = stack'[i]
    BY <1>1 DEF Frames
  <2>2. CASE i \in {1, 2}
    BY <2>1, <2>2, <1>1
  <2>3. CASE i \notin {1, 2}
    <3>1. i - 1 \in 2..Len(stack) /\ stack'[i] = stack[i-1]
      BY <2>3, <1>1, <1>2
    <3> QED BY <2>1, <3>1 DEF Rest
  <2> QED BY <2>2, <2>3
<1> QED BY <1>1, <1>3, <1>4, <1>5

LEMMA FramesReturn ==
  ASSUME stack \in Seq(FrameType), stack # << >>, stack' = Tail(stack)
  PROVE  /\ stack' \in Seq(FrameType)
         /\ Frames' = Rest
<1>1. /\ stack' \in Seq(FrameType) /\ Len(stack') = Len(stack) - 1
      /\ \A i \in 1..Len(stack) - 1 : stack'[i] = stack[i+1]
  BY Popped
<1>2. Len(stack) \in Nat \ {0}
  OBVIOUS
<1>3. ASSUME NEW g \in Rest PROVE g \in Frames'
  <2>1. PICK i \in 2..Len(stack) : g = stack[i]
    BY DEF Rest
  <2>2. i - 1 \in 1..Len(stack) - 1 /\ stack'[i-1] = stack[i]
    BY <1>1, <1>2
  <2> QED BY <2>1, <2>2, <1>1 DEF Frames
<1>4. ASSUME NEW g \in Frames' PROVE g \in Rest
  <2>1. PICK i \in 1..Len(stack) - 1 : g = stack'[i]
    BY <1>1 DEF Frames
  <2>2. i + 1 \in 2..Len(stack) /\ stack'[i] = stack[i+1]
    BY <1>1, <1>2
  <2> QED BY <2>1, <2>2 DEF Rest
<1> QED BY <1>1, <1>3, <1>4

-----------------------------------------------------------------------------
(* The call stack keeps its shape. *)

LEMMA StackTyped ==
  ASSUME TypeOK
  PROVE  stack \in Seq(FrameType)
BY DEF TypeOK, FrameType

LEMMA ItTyped ==
  ASSUME TypeOK, Stacked, stack # << >>
  PROVE  /\ Head(stack) = Frame(Head(stack).at, It) /\ Head(stack).at \in Places
         /\ It \in Nodes \union {None}
         /\ Head(stack).at \in Fin \union {"cancel"} => It \in Nodes
         /\ Head(stack).at \in {"feed", "feeder"} => It \in Grps
<1>1. Head(stack) \in FrameType /\ stack[1] = Head(stack) /\ Len(stack) \in Nat \ {0}
  BY StackTyped, FramesTop
<1> QED BY <1>1, FrameTyped DEF It, Stacked, Arguments

(* What the client, or its main program, may call. *)
LEMMA StackedCall ==
  ASSUME TypeOK, Stacked, NEW p, NEW x \in Nodes \union {None}, UNCHANGED grp,
         stack' = <<Frame(p, x)>> \o stack,
         \/ stack = << >> /\ p = "poll"
         \/ UserCode /\ p = "feed" /\ x \in Grps
         \/ UserCode /\ p = "cancel" /\ x \in Nodes
  PROVE  Stacked'
<1> DEFINE n == Len(stack)
<1>1. /\ Frame(p, x) \in FrameType /\ Frame(p, x).at = p /\ Frame(p, x).req = x
  BY FrameTyped, FrameEqual DEF Places
<1>2. /\ Len(stack') = n + 1
      /\ \A i \in 1..n + 1 : stack'[i] = IF i = 1 THEN Frame(p, x) ELSE stack[i-1]
  BY <1>1, StackTyped, Pushed
<1>3. n \in Nat /\ (stack = << >> <=> n = 0) /\ (stack # << >> => Head(stack) = stack[1])
  BY StackTyped
<1>4. n > 0 => stack[1].at \in UserPlaces /\ p # "poll"
  BY <1>3 DEF UserCode
<1> HIDE DEF n
<1>5. Innermost'
  BY <1>1, <1>2, <1>3, <1>4 DEF Stacked, Innermost, Fin, UserPlaces, n
<1>6. Arguments'
  BY <1>1, <1>2, <1>3, <1>4 DEF Stacked, Arguments, Fin, n
<1>7. OneFinish'
  <2>1. ASSUME NEW j \in 1..n PROVE stack[j].at # "cancel"
    BY <1>3, <1>4 DEF Stacked, OneFinish, UserPlaces, n
  <2> SUFFICES ASSUME NEW i \in 1..n+1, NEW j \in 1..n+1, i < j
               PROVE  /\ stack'[i].at \in Fin => stack'[j].at \in {"destroy", "polled"}
                      /\ stack'[i].at \in Fin /\ stack'[j].at \in Fin => stack'[i].req # stack'[j].req
                      /\ stack'[j].at = "cancel" => stack'[i].at = "cancel"
    BY <1>2 DEF OneFinish
  <2>3. j - 1 \in 1..n /\ stack'[j] = stack[j-1]
    BY <1>2, <1>3
  <2>4. CASE i = 1
    BY <2>1, <2>3, <2>4, <1>1, <1>2, <1>3 DEF Fin
  <2>5. CASE i # 1
    <3>1. i - 1 \in 1..n /\ i - 1 < j - 1 /\ stack'[i] = stack[i-1]
      BY <2>5, <1>2, <1>3
    <3>2. /\ stack[i-1].at \in Fin => stack[j-1].at \in {"destroy", "polled"}
          /\ stack[i-1].at \in Fin /\ stack[j-1].at \in Fin => stack[i-1].req # stack[j-1].req
          /\ stack[j-1].at = "cancel" => stack[i-1].at = "cancel"
      <4> DEFINE k == i - 1
                 l == j - 1
      <4>1. k \in 1..Len(stack) /\ l \in 1..Len(stack) /\ k < l
        BY <2>3, <3>1 DEF n
      <4> HIDE DEF k, l
      <4>2. /\ stack[k].at \in Fin => stack[l].at \in {"destroy", "polled"}
            /\ stack[k].at \in Fin /\ stack[l].at \in Fin => stack[k].req # stack[l].req
            /\ stack[l].at = "cancel" => stack[k].at = "cancel"
        BY <4>1 DEF Stacked, OneFinish
      <4> QED BY <4>2 DEF k, l
    <3> QED BY <2>3, <3>1, <3>2
  <2> QED BY <2>4, <2>5
<1>8. Waiting'
  BY <1>1, <1>2, <1>3, <1>4 DEF Stacked, Waiting, Fin, UserPlaces, n
<1> QED BY <1>5, <1>6, <1>7, <1>8 DEF Stacked

(* The innermost call goes on. *)
LEMMA StackedGoto ==
  ASSUME TypeOK, Stacked, stack # << >>, NEW p, UNCHANGED grp,
         stack' = <<Frame(p, It)>> \o Tail(stack),
         \/ Head(stack).at \in Fin /\ p \in Fin
         \/ Head(stack).at \in {"feed", "feeder"} /\ p \in {"feed", "feeder"}
         \/ Head(stack).at = "polled" /\ p = "poll"
  PROVE  Stacked'
<1> DEFINE n == Len(stack)
<1>1. /\ Frame(p, It) \in FrameType /\ Frame(p, It).at = p /\ Frame(p, It).req = It
  BY FrameTyped, FrameEqual, ItTyped DEF Places, Fin
<1>2. /\ Len(stack') = n
      /\ \A i \in 1..n : stack'[i] = IF i = 1 THEN Frame(p, It) ELSE stack[i]
  BY <1>1, StackTyped, Swapped
<1>3. n \in Nat \ {0} /\ Head(stack) = stack[1] /\ It = stack[1].req
  BY StackTyped, FramesTop DEF It
<1> HIDE DEF n
<1>4. ASSUME p \notin Fin
      PROVE  /\ \A j \in 2..n : stack[j].at # "cancel"
             /\ n > 1 => stack[2].at \notin {"destroy", "polled"}
  <2>1. stack[1].at \notin Fin /\ stack[1].at # "cancel"
    BY <1>3, <1>4 DEF Fin
  <2>2. ASSUME NEW j \in 2..n PROVE stack[j].at # "cancel"
    <3>1. 1 \in 1..n /\ j \in 1..n /\ 1 < j
      BY <1>3
    <3> QED BY <2>1, <3>1 DEF Stacked, OneFinish, n
  <2>3. ASSUME n > 1 PROVE stack[2].at \notin {"destroy", "polled"}
    <3>1. 2 \in 2..n /\ 2 - 1 = 1
      BY <1>3, <2>3
    <3> QED BY <2>1, <3>1 DEF Stacked, Waiting, n
  <2> QED BY <2>2, <2>3
<1>5. Innermost'
  <2>1. 1 \in 1..n
    BY <1>3
  <2>2. p \in Fin => 1 < n
    BY <1>3, <2>1 DEF Stacked, Innermost, Fin, n
  <2>3. p = "poll" => n = 1
    BY <1>3, <2>1 DEF Stacked, Innermost, Fin, n
  <2>4. p # "polled"
    BY DEF Fin
  <2> QED BY <1>1, <1>2, <1>3, <2>2, <2>3, <2>4 DEF Stacked, Innermost, n
<1>6. Arguments'
  <2>1. /\ p \in {"feed", "feeder"} => It \in Grps
        /\ p \in Fin \union {"cancel"} => It \in Nodes
    BY ItTyped DEF Fin
  <2> QED BY <2>1, <1>1, <1>2, <1>3 DEF Stacked, Arguments, n
<1>7. OneFinish'
  <2> SUFFICES ASSUME NEW i \in 1..n, NEW j \in 1..n, i < j
               PROVE  /\ stack'[i].at \in Fin => stack'[j].at \in {"destroy", "polled"}
                      /\ stack'[i].at \in Fin /\ stack'[j].at \in Fin => stack'[i].req # stack'[j].req
                      /\ stack'[j].at = "cancel" => stack'[i].at = "cancel"
    BY <1>2 DEF OneFinish
  <2>1. j \in 2..n /\ stack'[j] = stack[j]
    BY <1>2, <1>3
  <2>2. CASE p \in Fin
    <3>1. stack[1].at \in Fin
      BY <1>3, <2>2 DEF Fin
    <3> QED BY <1>1, <1>2, <1>3, <2>1, <2>2, <3>1 DEF Stacked, OneFinish, Fin, n
  <2>3. CASE p \notin Fin
    BY <1>1, <1>2, <1>3, <1>4, <2>1, <2>3 DEF Stacked, OneFinish, n
  <2> QED BY <2>2, <2>3
<1>8. Waiting'
  <2> SUFFICES ASSUME NEW i \in 2..n
               PROVE  /\ stack'[i].at \in {"destroy", "polled"} => stack'[i-1].at \in Fin
                      /\ stack'[i].at = "destroy" => /\ grp[stack'[i].req] \in Grps
                                                     /\ grp[stack'[i].req] = stack'[i-1].req
    BY <1>2 DEF Waiting
  <2>1. i - 1 \in 1..n /\ stack'[i] = stack[i]
    BY <1>2, <1>3
  <2>2. CASE i = 2
    <3>1. stack'[1].at = p /\ stack'[1].req = stack[1].req
      BY <1>1, <1>2, <1>3
    <3> QED BY <2>1, <2>2, <3>1, <1>4 DEF Stacked, Waiting, n
  <2>3. CASE i # 2
    <3>1. stack'[i-1] = stack[i-1]
      BY <2>1, <2>3, <1>2
    <3> QED BY <2>1, <3>1 DEF Stacked, Waiting, n
  <2> QED BY <2>2, <2>3
<1> QED BY <1>5, <1>6, <1>7, <1>8 DEF Stacked

(* The innermost call goes on and makes another one. *)
LEMMA StackedCallThen ==
  ASSUME TypeOK, Stacked, stack # << >>, UNCHANGED grp,
         NEW p, NEW q, NEW x \in Nodes,
         stack' = <<Frame(p, x), Frame(q, It)>> \o Tail(stack),
         \/ Head(stack).at = "poll" /\ p = "finish" /\ q = "polled"
         \/ Head(stack).at = "dec" /\ p = "feed" /\ q = "decd" /\ x \in Grps
         \/ /\ Head(stack).at = "decd" /\ p = "finish" /\ q = "destroy"
            /\ x = grp[It] /\ x \in Grps /\ ~Ending(x)
  PROVE  Stacked'
<1> DEFINE n == Len(stack)
<1>1. /\ Frame(p, x) \in FrameType /\ Frame(p, x).at = p /\ Frame(p, x).req = x
      /\ Frame(q, It) \in FrameType /\ Frame(q, It).at = q /\ Frame(q, It).req = It
  BY FrameTyped, FrameEqual, ItTyped DEF Places
<1>2. /\ Len(stack') = n + 1
      /\ \A i \in 1..n + 1 : stack'[i] = IF i = 1 THEN Frame(p, x)
                                         ELSE IF i = 2 THEN Frame(q, It) ELSE stack[i-1]
  BY <1>1, StackTyped, SwappedTwo
<1>3. n \in Nat \ {0} /\ Head(stack) = stack[1] /\ It = stack[1].req
  BY StackTyped, FramesTop DEF It
<1>a. \A i \in 1..n : stack[i] \in FrameType
  BY StackTyped DEF n
<1> HIDE DEF n
<1>4. 1 \in 1..n /\ 1 \in 1..n+1 /\ 2 \in 1..n+1
  BY <1>3
<1>5. stack'[1].at = p /\ stack'[1].req = x /\ stack'[2].at = q /\ stack'[2].req = stack[1].req
  BY <1>1, <1>2, <1>3, <1>4
<1>6. ASSUME NEW i \in 3..n+1
      PROVE  stack'[i] = stack[i-1] /\ i - 1 \in 2..n /\ i - 1 \in 1..n
  BY <1>2, <1>3
<1>7. stack[1].at = "poll" => n = 1
  BY <1>4 DEF Stacked, Innermost, n
<1>8. stack[1].at \in Fin => 1 < n
  BY <1>4 DEF Stacked, Innermost, n
<1>9. ASSUME NEW i \in 2..n
      PROVE  /\ stack[1].at \in Fin
             /\ stack[i].at \in {"destroy", "polled"}
             /\ stack[i].at = "destroy" => stack[i].req # stack[1].req
             /\ stack[i].at = "polled" => i = n
             /\ stack[i].at = "destroy" => i < n
  <2>1. i \in 1..n /\ 1 < i /\ n > 1
    BY <1>3
  <2>2. stack[1].at \in Fin
    BY <2>1, <1>7, <1>3 DEF Fin
  <2>3. stack[i].at \in {"destroy", "polled"}
    BY <2>1, <2>2, <1>4 DEF Stacked, OneFinish, n
  <2>4. stack[i].at = "destroy" => stack[i].req # stack[1].req
    BY <2>1, <2>2, <1>4 DEF Stacked, OneFinish, Fin, n
  <2>5. stack[i].at = "polled" => i = n
    BY <2>1 DEF Stacked, Innermost, n
  <2>6. stack[i].at = "destroy" => i < n
    BY <2>1 DEF Stacked, Innermost, Fin, n
  <2> QED BY <2>2, <2>3, <2>4, <2>5, <2>6
<1>10. ASSUME p = "finish" /\ q = "destroy", NEW i \in 1..n, stack[i].at \in Fin
       PROVE  stack[i].req # x
  <2>1. stack[i] \in Frames /\ stack[i] = Frame(stack[i].at, stack[i].req)
    BY <1>a, FrameTyped DEF Frames, n
  <2>2. ~Ending(x)
    BY <1>10
  <2> QED BY <2>1, <2>2, <1>10 DEF Ending
<1>11. Innermost'
  <2> SUFFICES ASSUME NEW i \in 1..n+1
               PROVE  /\ stack'[i].at = "poll" => n + 1 = 1
                      /\ stack'[i].at \in {"finish", "dec", "feed"} => i = 1
                      /\ stack'[i].at = "polled" => i = n + 1
                      /\ stack'[i].at \in Fin => i < n + 1
    BY <1>2 DEF Innermost
  <2>1. CASE i = 1
    BY <2>1, <1>5, <1>3 DEF Fin
  <2>2. CASE i = 2
    BY <2>2, <1>5, <1>3, <1>7, <1>8 DEF Fin
  <2>3. CASE i \in 3..n+1
    <3> DEFINE k == i - 1
    <3>0. k \in 2..n /\ stack'[i] = stack[k]
      BY <2>3, <1>6
    <3>1. i = k + 1
      BY <1>3
    <3> HIDE DEF k
    <3>2. /\ stack[k].at \in {"destroy", "polled"}
          /\ stack[k].at = "polled" => k = n
          /\ stack[k].at = "destroy" => k < n
      BY <3>0, <1>9
    <3>3. /\ stack'[i].at # "poll"
          /\ stack'[i].at \notin {"finish", "dec", "feed"}
          /\ stack'[i].at \in Fin => stack'[i].at = "destroy"
      BY <3>0, <3>2 DEF Fin
    <3>4. /\ stack'[i].at = "polled" => i = n + 1
          /\ stack'[i].at = "destroy" => i < n + 1
      <4>1. /\ stack'[i].at = "polled" => k = n
            /\ stack'[i].at = "destroy" => k < n
        BY <3>0, <3>2
      <4>2. (k = n => i = n + 1) /\ (k < n => i < n + 1)
        BY <3>0, <3>1, <1>3
      <4> QED BY <4>1, <4>2
    <3> QED BY <3>3, <3>4
  <2>4. i = 1 \/ i = 2 \/ i \in 3..n+1
    BY <1>3
  <2> QED BY <2>1, <2>2, <2>3, <2>4
<1>12. Arguments'
  <2> SUFFICES ASSUME NEW i \in 1..n+1
               PROVE  /\ stack'[i].at \in {"feed", "feeder"} => stack'[i].req \in Grps
                      /\ stack'[i].at \in Fin \union {"cancel"} => stack'[i].req \in Nodes
    BY <1>2 DEF Arguments
  <2>1. CASE i = 1
    BY <2>1, <1>5 DEF Fin
  <2>2. CASE i = 2
    <3>1. stack[1].at \in Fin => stack[1].req \in Nodes
      BY <1>4 DEF Stacked, Arguments, n
    <3>2. q # "polled" => stack[1].at \in Fin
      BY <1>3 DEF Fin
    <3> QED BY <2>2, <3>1, <3>2, <1>5 DEF Fin
  <2>3. CASE i \in 3..n+1
    <3>1. i - 1 \in 1..n /\ stack'[i] = stack[i-1]
      BY <2>3, <1>6
    <3> QED BY <3>1 DEF Stacked, Arguments, n
  <2>4. i = 1 \/ i = 2 \/ i \in 3..n+1
    BY <1>3
  <2> QED BY <2>1, <2>2, <2>3, <2>4
<1>13. OneFinish'
  <2> SUFFICES ASSUME NEW i \in 1..n+1, NEW j \in 1..n+1, i < j
               PROVE  /\ stack'[i].at \in Fin => stack'[j].at \in {"destroy", "polled"}
                      /\ stack'[i].at \in Fin /\ stack'[j].at \in Fin => stack'[i].req # stack'[j].req
                      /\ stack'[j].at = "cancel" => stack'[i].at = "cancel"
    BY <1>2 DEF OneFinish
  <2>1. CASE j = 2
    <3>1. i = 1
      BY <2>1, <1>3
    <3>2. p = "finish" /\ q = "destroy" => stack[1].req # x
      BY <1>10, <1>4, <1>3 DEF Fin
    <3> QED BY <2>1, <3>1, <3>2, <1>5 DEF Fin
  <2>2. CASE j \in 3..n+1
    <3>1. j - 1 \in 2..n /\ j - 1 \in 1..n /\ stack'[j] = stack[j-1]
      BY <2>2, <1>6
    <3>2. /\ stack[1].at \in Fin
          /\ stack[j-1].at \in {"destroy", "polled"}
          /\ stack[j-1].at = "destroy" => stack[j-1].req # stack[1].req
      BY <3>1, <1>9
    <3>3. stack[j-1].at \in Fin /\ p = "finish" => stack[j-1].req # x
      BY <3>1, <3>2, <1>10, <1>3 DEF Fin
    <3>4. CASE i = 1
      BY <3>1, <3>2, <3>3, <3>4, <1>5 DEF Fin
    <3>5. CASE i = 2
      BY <3>1, <3>2, <3>5, <1>5 DEF Fin
    <3>6. CASE i \in 3..n+1
      <4> DEFINE k == i - 1
                 l == j - 1
      <4>1. k \in 1..n /\ stack'[i] = stack[k]
        BY <3>6, <1>6
      <4>2. l \in 1..n /\ stack'[j] = stack[l]
        BY <3>1
      <4>3. k < l
        BY <1>3
      <4> HIDE DEF k, l
      <4>4. /\ stack[k].at \in Fin => stack[l].at \in {"destroy", "polled"}
            /\ stack[k].at \in Fin /\ stack[l].at \in Fin => stack[k].req # stack[l].req
            /\ stack[l].at = "cancel" => stack[k].at = "cancel"
        BY <4>1, <4>2, <4>3 DEF Stacked, OneFinish, n
      <4> QED BY <4>1, <4>2, <4>4
    <3>7. i = 1 \/ i = 2 \/ i \in 3..n+1
      BY <1>3
    <3> QED BY <3>4, <3>5, <3>6, <3>7
  <2>3. j = 2 \/ j \in 3..n+1
    BY <1>3
  <2> QED BY <2>1, <2>2, <2>3
<1>14. Waiting'
  <2> SUFFICES ASSUME NEW i \in 2..n+1
               PROVE  /\ stack'[i].at \in {"destroy", "polled"} => stack'[i-1].at \in Fin
                      /\ stack'[i].at = "destroy" => /\ grp[stack'[i].req] \in Grps
                                                     /\ grp[stack'[i].req] = stack'[i-1].req
    BY <1>2 DEF Waiting
  <2>1. CASE i = 2
    <3>1. i - 1 = 1
      BY <2>1
    <3> QED BY <2>1, <3>1, <1>5, <1>3 DEF Fin
  <2>2. CASE i = 3
    <3>0. i \in 3..n+1 /\ i - 1 = 2 /\ 2 \in 2..n
      BY <2>2, <1>3
    <3>1. i - 1 = 2 /\ 2 \in 2..n /\ stack'[i] = stack[2]
      BY <3>0, <1>6
    <3>2. stack[1].at \in Fin
      BY <3>1, <1>9
    <3>3. q \in Fin
      BY <3>2, <1>3 DEF Fin
    <3>4. stack[2].at = "destroy" => /\ grp[stack[2].req] \in Grps
                                     /\ grp[stack[2].req] = stack[1].req
      BY <3>1 DEF Stacked, Waiting, n
    <3> QED BY <3>1, <3>3, <3>4, <1>5
  <2>3. CASE i \in 4..n+1
    <3> DEFINE k == i - 1
    <3>0. i \in 3..n+1 /\ k \in 3..n+1 /\ k \in 2..n
      BY <2>3, <1>3
    <3>a. stack'[i] = stack[k]
      BY <3>0, <1>6
    <3> HIDE DEF k
    <3>1. k \in 2..n /\ stack'[i] = stack[k] /\ stack'[k] = stack[k-1]
      BY <3>0, <3>a, <1>6
    <3>2. /\ stack[k].at \in {"destroy", "polled"} => stack[k-1].at \in Fin
          /\ stack[k].at = "destroy" => /\ grp[stack[k].req] \in Grps
                                        /\ grp[stack[k].req] = stack[k-1].req
      BY <3>1 DEF Stacked, Waiting, n
    <3> QED BY <3>1, <3>2 DEF k
  <2>4. i = 2 \/ i = 3 \/ i \in 4..n+1
    BY <1>3
  <2> QED BY <2>1, <2>2, <2>3, <2>4
<1> QED BY <1>11, <1>12, <1>13, <1>14 DEF Stacked

(* The innermost call returns, the last of an eio_finish by destroying its *)
(* request.                                                                *)
LEMMA StackedReturn ==
  ASSUME TypeOK, Stacked, stack # << >>, stack' = Tail(stack),
         \/ Head(stack).at \notin Fin /\ UNCHANGED grp
         \/ /\ Head(stack).at \in Fin
            /\ \A y \in Nodes : y # It => grp'[y] = grp[y]
  PROVE  Stacked'
<1> DEFINE n == Len(stack)
<1>2. /\ Len(stack') = n - 1
      /\ \A i \in 1..n - 1 : stack'[i] = stack[i+1]
  BY StackTyped, Popped
<1>3. n \in Nat \ {0} /\ Head(stack) = stack[1] /\ It = stack[1].req
  BY StackTyped, FramesTop DEF It
<1> HIDE DEF n
<1>4. ASSUME NEW i \in 1..n-1
      PROVE  \E k \in 2..n : /\ k = i + 1 /\ k \in 1..n /\ stack'[i] = stack[k]
                             /\ k < n => i < n - 1
                             /\ k = n => i = n - 1
                             /\ k # 1
  <2> DEFINE k == i + 1
  <2>1. k \in 2..n /\ k \in 1..n /\ k # 1 /\ (k < n => i < n - 1) /\ (k = n => i = n - 1)
    BY <1>3
  <2>2. stack'[i] = stack[k]
    BY <1>2
  <2> QED BY <2>1, <2>2
<1>5. Innermost'
  <2> SUFFICES ASSUME NEW i \in 1..n-1
               PROVE  /\ stack'[i].at = "poll" => n - 1 = 1
                      /\ stack'[i].at \in {"finish", "dec", "feed"} => i = 1
                      /\ stack'[i].at = "polled" => i = n - 1
                      /\ stack'[i].at \in Fin => i < n - 1
    BY <1>2 DEF Innermost
  <2>1. PICK k \in 2..n : /\ k \in 1..n /\ stack'[i] = stack[k] /\ k # 1
                          /\ k < n => i < n - 1
                          /\ k = n => i = n - 1
    BY <1>4
  <2>2. /\ stack[k].at = "poll" => n = 1
        /\ stack[k].at \in {"finish", "dec", "feed"} => k = 1
        /\ stack[k].at = "polled" => k = n
        /\ stack[k].at \in Fin => k < n
    BY <2>1 DEF Stacked, Innermost, n
  <2>3. n # 1
    BY <2>1, <1>3
  <2> QED BY <2>1, <2>2, <2>3
<1>6. Arguments'
  <2> SUFFICES ASSUME NEW i \in 1..n-1
               PROVE  /\ stack'[i].at \in {"feed", "feeder"} => stack'[i].req \in Grps
                      /\ stack'[i].at \in Fin \union {"cancel"} => stack'[i].req \in Nodes
    BY <1>2 DEF Arguments
  <2>1. PICK k \in 1..n : stack'[i] = stack[k]
    BY <1>4
  <2> QED BY <2>1 DEF Stacked, Arguments, n
<1>7. OneFinish'
  <2> SUFFICES ASSUME NEW i \in 1..n-1, NEW j \in 1..n-1, i < j
               PROVE  /\ stack'[i].at \in Fin => stack'[j].at \in {"destroy", "polled"}
                      /\ stack'[i].at \in Fin /\ stack'[j].at \in Fin => stack'[i].req # stack'[j].req
                      /\ stack'[j].at = "cancel" => stack'[i].at = "cancel"
    BY <1>2 DEF OneFinish
  <2>1. PICK k \in 1..n : stack'[i] = stack[k] /\ k = i + 1
    BY <1>4
  <2>2. PICK l \in 1..n : stack'[j] = stack[l] /\ l = j + 1
    BY <1>4
  <2>3. k < l
    BY <2>1, <2>2
  <2>4. /\ stack[k].at \in Fin => stack[l].at \in {"destroy", "polled"}
        /\ stack[k].at \in Fin /\ stack[l].at \in Fin => stack[k].req # stack[l].req
        /\ stack[l].at = "cancel" => stack[k].at = "cancel"
    BY <2>3 DEF Stacked, OneFinish, n
  <2> QED BY <2>1, <2>2, <2>4
<1>8. Waiting'
  <2> SUFFICES ASSUME NEW i \in 2..n-1
               PROVE  /\ stack'[i].at \in {"destroy", "polled"} => stack'[i-1].at \in Fin
                      /\ stack'[i].at = "destroy" => /\ grp'[stack'[i].req] \in Grps
                                                     /\ grp'[stack'[i].req] = stack'[i-1].req
    BY <1>2 DEF Waiting
  <2> DEFINE k == i + 1
  <2>1. i \in 1..n-1 /\ i-1 \in 1..n-1 /\ k \in 2..n /\ k \in 1..n /\ 1 \in 1..n /\ 1 < k
        /\ k - 1 = i /\ (i - 1) + 1 = i
    BY <1>3
  <2>2. stack'[i] = stack[k]
    BY <2>1, <1>2
  <2>3. stack'[i-1] = stack[i]
    BY <2>1, <1>2
  <2> HIDE DEF k
  <2>4. /\ stack[k].at \in {"destroy", "polled"} => stack[i].at \in Fin
        /\ stack[k].at = "destroy" => /\ grp[stack[k].req] \in Grps
                                      /\ grp[stack[k].req] = stack[i].req
    BY <2>1 DEF Stacked, Waiting, n
  <2>5. ASSUME stack[k].at = "destroy" PROVE grp'[stack[k].req] = grp[stack[k].req]
    <3>1. CASE Head(stack).at \notin Fin
      BY <3>1
    <3>2. CASE Head(stack).at \in Fin
      <4>1. stack[k].req # stack[1].req
        BY <3>2, <2>1, <2>5, <1>3 DEF Stacked, OneFinish, n, Fin
      <4>2. stack[k].req \in Nodes
        BY <2>1, <2>5 DEF Stacked, Arguments, n, Fin
      <4> QED BY <3>2, <4>1, <4>2, <1>3
    <3> QED BY <3>1, <3>2
  <2> QED BY <2>2, <2>3, <2>4, <2>5
<1> QED BY <1>5, <1>6, <1>7, <1>8 DEF Stacked

(* eio_grp_add: the new member is not being finished. *)
LEMMA StackedSame ==
  ASSUME Stacked, UNCHANGED stack, \A y \in Nodes : grp[y] \in Grps => grp'[y] = grp[y]
  PROVE  Stacked'
<1>1. Innermost' /\ Arguments' /\ OneFinish'
  BY DEF Stacked, Innermost, Arguments, OneFinish
<1>2. Waiting'
  <2> SUFFICES ASSUME NEW i \in 2..Len(stack)
               PROVE  /\ stack[i].at \in {"destroy", "polled"} => stack[i-1].at \in Fin
                      /\ stack[i].at = "destroy" => /\ grp'[stack[i].req] \in Grps
                                                    /\ grp'[stack[i].req] = stack[i-1].req
    BY DEF Waiting
  <2>1. /\ stack[i].at \in {"destroy", "polled"} => stack[i-1].at \in Fin
        /\ stack[i].at = "destroy" => /\ grp[stack[i].req] \in Grps
                                      /\ grp[stack[i].req] = stack[i-1].req
    BY DEF Stacked, Waiting
  <2>2. stack[i].at = "destroy" => stack[i].req \in Nodes
    BY DEF Stacked, Arguments, Fin
  <2> QED BY <2>1, <2>2
<1> QED BY <1>1, <1>2 DEF Stacked

(* eio_grp_cancel goes on to other members. *)
LEMMA StackedCancel ==
  ASSUME TypeOK, Stacked, stack # << >>, Head(stack).at = "cancel", UNCHANGED grp,
         NEW c \in Seq(FrameType), \A i \in 1..Len(c) : c[i].at = "cancel" /\ c[i].req \in Nodes,
         stack' = c \o Tail(stack)
  PROVE  /\ Stacked'
         /\ stack' \in Seq(FrameType)
         /\ Frames' = {c[i] : i \in 1..Len(c)} \union Rest
<1> DEFINE n == Len(stack)
           m == Len(c)
<1>1. /\ Tail(stack) \in Seq(FrameType)
      /\ Len(Tail(stack)) = n - 1
      /\ \A i \in 1..n - 1 : Tail(stack)[i] = stack[i+1]
  BY StackTyped, Popped
<1>2. /\ stack' \in Seq(FrameType) /\ Len(stack') = m + (n - 1)
      /\ \A i \in 1..m + (n - 1) : stack'[i] = IF i <= m THEN c[i] ELSE Tail(stack)[i-m]
  BY <1>1
<1>3. n \in Nat \ {0} /\ m \in Nat /\ Head(stack) = stack[1]
  BY StackTyped, FramesTop
<1> HIDE DEF n, m
<1>4. ASSUME NEW i \in 1..m
      PROVE  i \in 1..m + (n - 1) /\ stack'[i] = c[i] /\ stack'[i].at = "cancel" /\ stack'[i].req \in Nodes
  <2>1. i \in 1..m + (n - 1) /\ i <= m
    BY <1>3
  <2> QED BY <2>1, <1>2 DEF m
<1>5. ASSUME NEW i \in m+1..m + (n - 1)
      PROVE  \E k \in 2..n : /\ k = (i - m) + 1 /\ k \in 1..n /\ stack'[i] = stack[k]
                             /\ k < n => i < m + (n - 1)
                             /\ k = n => i = m + (n - 1)
                             /\ k # 1
  <2> DEFINE k == (i - m) + 1
  <2>1. /\ k \in 2..n /\ k \in 1..n /\ k # 1
        /\ (k < n => i < m + (n - 1)) /\ (k = n => i = m + (n - 1))
        /\ i \in 1..m + (n - 1) /\ i - m \in 1..n - 1 /\ ~(i <= m)
    BY <1>3
  <2>2. stack'[i] = stack[k]
    BY <2>1, <1>1, <1>2
  <2> QED BY <2>1, <2>2
<1>6. \A i \in 1..m + (n - 1) : i \in 1..m \/ i \in m+1..m + (n - 1)
  BY <1>3
<1>7. Innermost'
  <2> SUFFICES ASSUME NEW i \in 1..m + (n - 1)
               PROVE  /\ stack'[i].at = "poll" => m + (n - 1) = 1
                      /\ stack'[i].at \in {"finish", "dec", "feed"} => i = 1
                      /\ stack'[i].at = "polled" => i = m + (n - 1)
                      /\ stack'[i].at \in Fin => i < m + (n - 1)
    BY <1>2 DEF Innermost
  <2>1. CASE i \in 1..m
    BY <2>1, <1>4 DEF Fin
  <2>2. CASE i \in m+1..m + (n - 1)
    <3>1. PICK k \in 2..n : /\ k \in 1..n /\ stack'[i] = stack[k] /\ k # 1
                            /\ k < n => i < m + (n - 1)
                            /\ k = n => i = m + (n - 1)
      BY <2>2, <1>5
    <3>2. /\ stack[k].at = "poll" => n = 1
          /\ stack[k].at \in {"finish", "dec", "feed"} => k = 1
          /\ stack[k].at = "polled" => k = n
          /\ stack[k].at \in Fin => k < n
      BY <3>1 DEF Stacked, Innermost, n
    <3>3. n # 1
      BY <3>1, <1>3
    <3> QED BY <3>1, <3>2, <3>3
  <2> QED BY <2>1, <2>2, <1>6
<1>8. Arguments'
  <2> SUFFICES ASSUME NEW i \in 1..m + (n - 1)
               PROVE  /\ stack'[i].at \in {"feed", "feeder"} => stack'[i].req \in Grps
                      /\ stack'[i].at \in Fin \union {"cancel"} => stack'[i].req \in Nodes
    BY <1>2 DEF Arguments
  <2>1. CASE i \in 1..m
    BY <2>1, <1>4 DEF Fin
  <2>2. CASE i \in m+1..m + (n - 1)
    <3>1. PICK k \in 1..n : stack'[i] = stack[k]
      BY <2>2, <1>5
    <3> QED BY <3>1 DEF Stacked, Arguments, n
  <2> QED BY <2>1, <2>2, <1>6
<1>9. OneFinish'
  <2> SUFFICES ASSUME NEW i \in 1..m + (n - 1), NEW j \in 1..m + (n - 1), i < j
               PROVE  /\ stack'[i].at \in Fin => stack'[j].at \in {"destroy", "polled"}
                      /\ stack'[i].at \in Fin /\ stack'[j].at \in Fin => stack'[i].req # stack'[j].req
                      /\ stack'[j].at = "cancel" => stack'[i].at = "cancel"
    BY <1>2 DEF OneFinish
  <2>1. CASE i \in 1..m
    BY <2>1, <1>4 DEF Fin
  <2>2. CASE i \in m+1..m + (n - 1)
    <3>1. PICK k \in 1..n : stack'[i] = stack[k] /\ k = (i - m) + 1
      BY <2>2, <1>5
    <3>2. j \in m+1..m + (n - 1)
      BY <2>2, <1>3
    <3>3. PICK l \in 1..n : stack'[j] = stack[l] /\ l = (j - m) + 1
      BY <3>2, <1>5
    <3>4. k < l
      BY <3>1, <3>3, <1>3
    <3>5. /\ stack[k].at \in Fin => stack[l].at \in {"destroy", "polled"}
          /\ stack[k].at \in Fin /\ stack[l].at \in Fin => stack[k].req # stack[l].req
          /\ stack[l].at = "cancel" => stack[k].at = "cancel"
      BY <3>4 DEF Stacked, OneFinish, n
    <3> QED BY <3>1, <3>3, <3>5
  <2> QED BY <2>1, <2>2, <1>6
<1>10. Waiting'
  <2> SUFFICES ASSUME NEW i \in 2..m + (n - 1)
               PROVE  /\ stack'[i].at \in {"destroy", "polled"} => stack'[i-1].at \in Fin
                      /\ stack'[i].at = "destroy" => /\ grp[stack'[i].req] \in Grps
                                                     /\ grp[stack'[i].req] = stack'[i-1].req
    BY <1>2 DEF Waiting
  <2>1. CASE i \in 1..m
    BY <2>1, <1>4
  <2>2. CASE i = m + 1
    <3>1. i \in m+1..m + (n - 1) /\ 2 \in 2..n /\ (i - m) + 1 = 2
      BY <2>2, <1>3
    <3>2. stack'[i] = stack[2]
      BY <3>1, <1>5
    <3>3. stack[2].at \in {"destroy", "polled"} => stack[1].at \in Fin
      <4>1. 2 - 1 = 1
        OBVIOUS
      <4> QED BY <4>1, <3>1 DEF Stacked, Waiting, n
    <3> QED BY <3>2, <3>3, <1>3 DEF Fin
  <2>3. CASE i \in m+2..m + (n - 1)
    <3> DEFINE k == (i - m) + 1
               l == i - 1
    <3>1. /\ i \in m+1..m + (n - 1) /\ l \in m+1..m + (n - 1) /\ k \in 2..n
          /\ (l - m) + 1 = k - 1
      BY <2>3, <1>3
    <3>2. stack'[i] = stack[k]
      BY <3>1, <1>5
    <3> HIDE DEF k, l
    <3>3. stack'[l] = stack[k-1]
      BY <3>1, <1>5
    <3>4. /\ stack[k].at \in {"destroy", "polled"} => stack[k-1].at \in Fin
          /\ stack[k].at = "destroy" => /\ grp[stack[k].req] \in Grps
                                        /\ grp[stack[k].req] = stack[k-1].req
      BY <3>1 DEF Stacked, Waiting, n
    <3> QED BY <3>2, <3>3, <3>4 DEF l
  <2>4. i \in 1..m \/ i = m + 1 \/ i \in m+2..m + (n - 1)
    BY <1>3
  <2> QED BY <2>1, <2>2, <2>3, <2>4
<1>11. Frames' \subseteq {c[i] : i \in 1..Len(c)} \union Rest
  <2> SUFFICES ASSUME NEW i \in 1..m + (n - 1)
               PROVE  stack'[i] \in {c[j] : j \in 1..m} \union Rest
    BY <1>2 DEF Frames, m
  <2>1. CASE i \in 1..m
    BY <2>1, <1>4
  <2>2. CASE i \in m+1..m + (n - 1)
    BY <2>2, <1>5 DEF Rest, n
  <2> QED BY <2>1, <2>2, <1>6
<1>12. {c[i] : i \in 1..Len(c)} \subseteq Frames'
  BY <1>2, <1>4 DEF Frames, m
<1>13. Rest \subseteq Frames'
  <2> SUFFICES ASSUME NEW k \in 2..n PROVE stack[k] \in Frames'
    BY DEF Rest, n
  <2> DEFINE i == m + (k - 1)
  <2>1. i \in m+1..m + (n - 1) /\ i \in 1..m + (n - 1) /\ (i - m) + 1 = k
    BY <1>3
  <2>2. stack'[i] = stack[k]
    BY <2>1, <1>5
  <2> HIDE DEF i
  <2> QED BY <2>1, <2>2, <1>2 DEF Frames
<1> QED BY <1>2, <1>7, <1>8, <1>9, <1>10, <1>11, <1>12, <1>13 DEF Stacked

-----------------------------------------------------------------------------
(* What the invariant says at the places of the library. *)

LEMMA TopAlone ==
  ASSUME TypeOK, Stacked, stack # << >>, Head(stack).at \in Fin
  PROVE  /\ It \in Nodes
         /\ Frames = {Frame(Head(stack).at, It)} \union Rest
         /\ \A p \in Fin : Frame(p, It) \notin Rest
         /\ \A f \in Rest : f.at \in {"destroy", "polled"}
<1>1. /\ It \in Nodes /\ Frames = {Frame(Head(stack).at, It)} \union Rest
      /\ stack[1] = Head(stack) /\ Len(stack) \in Nat \ {0}
  BY StackTyped, FramesTop, ItTyped
<1>2. ASSUME NEW i \in 2..Len(stack)
      PROVE  /\ stack[i].at \in {"destroy", "polled"}
             /\ stack[i].at \in Fin => stack[i].req # It
  <2>1. 1 \in 1..Len(stack) /\ i \in 1..Len(stack) /\ 1 < i
    BY <1>1
  <2> QED BY <2>1, <1>1 DEF Stacked, OneFinish, It
<1>3. \A p \in Fin : Frame(p, It) \notin Rest
  BY <1>2, FrameEqual DEF Rest
<1>4. \A f \in Rest : f.at \in {"destroy", "polled"}
  BY <1>2 DEF Rest
<1> QED BY <1>1, <1>3, <1>4

LEMMA AtPlace ==
  ASSUME TypeOK, Stacked, NEW p \in Fin, In(p)
  PROVE  /\ It \in Nodes /\ stack # << >> /\ Head(stack).at = p /\ Head(stack) = Frame(p, It)
         /\ Frame(p, It) \in Frames
         /\ \A q \in Fin : Frame(q, It) \in Frames <=> q = p
         /\ \A q \in Fin \ {"destroy"}, x \in Nodes : x # It => Frame(q, x) \notin Frames
<1>1. stack # << >> /\ Head(stack).at = p
  BY DEF In
<1>2. /\ It \in Nodes /\ Frames = {Frame(p, It)} \union Rest
      /\ \A q \in Fin : Frame(q, It) \notin Rest
      /\ \A f \in Rest : f.at \in {"destroy", "polled"}
  BY <1>1, TopAlone
<1>3. Head(stack) = Frame(p, It)
  BY <1>1, ItTyped
<1>4. \A q \in Fin : Frame(q, It) \in Frames <=> q = p
  BY <1>2, FrameEqual
<1>5. ASSUME NEW q \in Fin \ {"destroy"}, NEW x \in Nodes, x # It PROVE Frame(q, x) \notin Frames
  <2>1. Frame(q, x).at = q /\ Frame(q, x) # Frame(p, It)
    BY <1>5, FrameEqual
  <2> QED BY <2>1, <1>2 DEF Fin
<1> QED BY <1>1, <1>2, <1>3, <1>4, <1>5

(* While the client's code runs, or a place is below it, no request is at  *)
(* the places that are innermost.                                          *)
LEMMA NotInnermost ==
  ASSUME TypeOK, Stacked, NEW p \in {"poll", "finish", "dec", "feed"}, stack = << >> \/ Head(stack).at # p
  PROVE  \A x : Frame(p, x) \notin Frames
<1> SUFFICES ASSUME NEW i \in 1..Len(stack), stack[i].at = p PROVE FALSE
  BY FrameEqual DEF Frames
<1>1. stack # << >> /\ Head(stack) = stack[1]
  BY StackTyped, FramesTop
<1>2. p = "poll" => Len(stack) = 1
  BY DEF Stacked, Innermost
<1>3. i = 1
  BY <1>2 DEF Stacked, Innermost
<1> QED BY <1>1, <1>3

LEMMA ListFacts ==
  ASSUME TypeOK, Linked, NEW g \in Grps, Live(g)
  PROVE  /\ grp_first[g] \in Members(g) \union {None}
         /\ size[g] = 0 <=> Members(g) = {}
         /\ size[g] = 0 <=> grp_first[g] = None
         /\ \A x \in Members(g) : /\ grp_next[x] \in Members(g) \union {None}
                                  /\ grp_prev[x] \in Members(g) \union {None}
<1>1. PICK list \in [1..size[g] -> Members(g)] : ListOf(g, list)
  BY DEF Linked
<1>2. size[g] \in Nat /\ None \notin Members(g)
  BY GroupAssumption DEF TypeOK, Members, Nodes
<1>3. ASSUME size[g] # 0 PROVE list[1] \in Members(g) /\ grp_first[g] = list[1]
  <2>1. 1 \in 1..size[g]
    BY <1>2, <1>3
  <2> QED BY <2>1, <1>1, <1>3 DEF ListOf
<1>4. size[g] = 0 => Members(g) = {} /\ grp_first[g] = None
  BY <1>1 DEF ListOf
<1>5. ASSUME NEW x \in Members(g)
      PROVE  /\ grp_next[x] \in Members(g) \union {None}
             /\ grp_prev[x] \in Members(g) \union {None}
  <2>1. PICK n \in 1..size[g] : list[n] = x
    BY <1>1 DEF ListOf
  <2>2. /\ n # 1 => n - 1 \in 1..size[g]
        /\ n # size[g] => n + 1 \in 1..size[g]
    BY <1>2
  <2>3. /\ grp_prev[x] = IF n = 1 THEN None ELSE list[n-1]
        /\ grp_next[x] = IF n = size[g] THEN None ELSE list[n+1]
    BY <1>1, <2>1 DEF ListOf
  <2>4. /\ n # 1 => list[n-1] \in Members(g)
        /\ n # size[g] => list[n+1] \in Members(g)
    BY <2>2
  <2> QED BY <2>3, <2>4
<1> QED BY <1>2, <1>3, <1>4, <1>5

LEMMA WalkFacts ==
  ASSUME GInv, In("cancel")
  PROVE  /\ It \in Nodes /\ Live(It) /\ stack # << >> /\ Head(stack) = Frame("cancel", It)
         /\ grp[It] \in Grps /\ Live(grp[It])
         /\ First(It) \in Members(It) \union {None} /\ (First(It) # None => It \in Grps)
         /\ grp_next[It] \in Members(grp[It]) \union {None}
<1>1. TypeOK /\ Stacked /\ Walking /\ Linked /\ Fresh
  BY DEF GInv
<1>2. /\ It \in Nodes /\ stack # << >> /\ Head(stack) = Frame("cancel", It)
      /\ Frame("cancel", It) \in Frames
  BY <1>1, StackTyped, FramesTop, ItTyped DEF In
<1>3. grp[It] \in Grps /\ Live(grp[It]) /\ It \in Members(grp[It])
  BY <1>1, <1>2 DEF Walking
<1>4. Live(It)
  BY <1>1, <1>2, <1>3, GroupAssumption DEF Fresh, Live
<1>5. grp_next[It] \in Members(grp[It]) \union {None}
  BY <1>1, <1>3, ListFacts
<1>6. First(It) \in Members(It) \union {None} /\ (First(It) # None => It \in Grps)
  BY <1>1, <1>4, ListFacts DEF First
<1> QED BY <1>2, <1>3, <1>4, <1>5, <1>6

-----------------------------------------------------------------------------
(* The steps beside eio_finish: they change neither what is being finished *)
(* nor the lists.                                                          *)

Aside ==
  /\ UNCHANGED <<stage, res_queue, links, int1>>
  /\ cancelled \subseteq cancelled' /\ cancelled' \subseteq Nodes
  /\ \A p \in Fin, x \in Nodes : Frame(p, x) \in Frames' <=> Frame(p, x) \in Frames
  /\ stack # << >> => Head(stack).at # "destroy"
  /\ stack' \in Seq(FrameType) /\ Stacked'

LEMMA CancelCalls ==
  ASSUME NEW x \in Nodes \union {None}, NEW y \in Nodes \union {None},
         NEW c, c = (IF x = None THEN << >> ELSE <<Frame("cancel", x)>>) \o
                    (IF y = None THEN << >> ELSE <<Frame("cancel", y)>>)
  PROVE  /\ c \in Seq(FrameType)
         /\ \A i \in 1..Len(c) : c[i] \in {Frame("cancel", z) : z \in {x, y} \ {None}}
<1>1. \A z \in {x, y} : Frame("cancel", z) \in FrameType
  BY FrameTyped DEF Places
<1>2. CASE x = None /\ y = None
  <2>1. c = << >>
    BY <1>2
  <2> QED BY <2>1
<1>3. CASE x # None /\ y = None
  <2>1. c = <<Frame("cancel", x)>>
    BY <1>3
  <2> QED BY <2>1, <1>1, <1>3
<1>4. CASE x = None /\ y # None
  <2>1. c = <<Frame("cancel", y)>>
    BY <1>4
  <2> QED BY <2>1, <1>1, <1>4
<1>5. CASE x # None /\ y # None
  <2> DEFINE d == <<Frame("cancel", y)>>
  <2>1. c = <<Frame("cancel", x)>> \o d
    BY <1>5
  <2>2. d \in Seq(FrameType) /\ Len(d) = 1 /\ d[1] = Frame("cancel", y)
    BY <1>1
  <2> HIDE DEF d
  <2>3. /\ c \in Seq(FrameType) /\ Len(c) = Len(d) + 1
        /\ \A i \in 1..Len(d) + 1 : c[i] = IF i = 1 THEN Frame("cancel", x) ELSE d[i-1]
    BY <2>1, <2>2, <1>1, Pushed
  <2>4. ASSUME NEW i \in 1..Len(c) PROVE c[i] \in {Frame("cancel", x), Frame("cancel", y)}
    <3>1. i = 1 \/ i = 2
      BY <2>2, <2>3
    <3>2. 1 \in 1..Len(d) + 1 /\ 2 \in 1..Len(d) + 1 /\ 2 - 1 = 1
      BY <2>2
    <3> QED BY <3>1, <3>2, <2>2, <2>3
  <2> QED BY <2>3, <2>4, <1>5
<1> QED BY <1>2, <1>3, <1>4, <1>5

LEMMA CancelMemberFrames ==
  ASSUME GInv, CancelMember
  PROVE  /\ stack' \in Seq(FrameType) /\ Stacked'
         /\ Frames' \subseteq {Frame("cancel", x) : x \in {First(It), grp_next[It]} \ {None}} \union Rest
         /\ Rest \subseteq Frames'
         /\ Frames = {Frame("cancel", It)} \union Rest
<1> DEFINE c == (IF First(It) = None THEN << >> ELSE <<Frame("cancel", First(It))>>) \o
                (IF grp_next[It] = None THEN << >> ELSE <<Frame("cancel", grp_next[It])>>)
<1>1. TypeOK /\ Stacked /\ In("cancel")
  BY DEF GInv, CancelMember
<1>2. stack # << >> /\ Head(stack) = Frame("cancel", It) /\ Head(stack).at = "cancel"
  BY <1>1, WalkFacts, FrameEqual
<1>3. First(It) \in Nodes \union {None} /\ grp_next[It] \in Nodes \union {None}
  BY <1>1, WalkFacts DEF Members
<1>4. stack' = c \o Tail(stack)
  BY DEF CancelMember
<1>5. UNCHANGED grp
  BY DEF CancelMember, links
<1> HIDE DEF c
<1>6. /\ c \in Seq(FrameType)
      /\ \A i \in 1..Len(c) : c[i] \in {Frame("cancel", z) : z \in {First(It), grp_next[It]} \ {None}}
  BY <1>3, CancelCalls DEF c
<1>7. \A i \in 1..Len(c) : c[i].at = "cancel" /\ c[i].req \in Nodes
  BY <1>3, <1>6, FrameEqual
<1>8. /\ stack' \in Seq(FrameType) /\ Stacked'
      /\ Frames' = {c[i] : i \in 1..Len(c)} \union Rest
  BY <1>1, <1>2, <1>4, <1>5, <1>6, <1>7, StackedCancel
<1>9. Frames = {Frame("cancel", It)} \union Rest
  BY <1>1, <1>2, StackTyped, FramesTop
<1> QED BY <1>6, <1>8, <1>9

LEMMA AsideStep ==
  ASSUME GInv,
         \/ \E g \in Grps, n \in Limits : Limit(g, n)
         \/ \E x \in Nodes : Cancel(x)
         \/ Poll \/ PollEmpty \/ Polled \/ TryFeed \/ FeederReturn \/ CancelMember
  PROVE  Aside
<1>1. TypeOK /\ Stacked /\ Linked
  BY DEF GInv
<1>2. stack \in Seq(FrameType) /\ cancelled \subseteq Nodes
  BY <1>1, StackTyped DEF TypeOK
<1>3. \A f \in FrameType : f.at \notin Fin => \A p \in Fin, x \in Nodes : Frame(p, x) # f
  BY FrameEqual
<1>4. ASSUME NEW p \in Places \ Fin, NEW x \in Nodes \union {None}, Call(p, x)
      PROVE  /\ stack' \in Seq(FrameType)
             /\ \A q \in Fin, y \in Nodes : Frame(q, y) \in Frames' <=> Frame(q, y) \in Frames
  <2>1. Frame(p, x) \in FrameType /\ Frame(p, x).at = p
    BY FrameTyped, FrameEqual
  <2>2. stack' \in Seq(FrameType) /\ Frames' = Frames \union {Frame(p, x)}
    BY <1>2, <1>4, <2>1, FramesCall DEF Call
  <2> QED BY <1>3, <2>1, <2>2
<1>5. ASSUME NEW p \in Places \ Fin, Goto(p), stack # << >>, Head(stack).at \notin Fin
      PROVE  /\ stack' \in Seq(FrameType)
             /\ \A q \in Fin, y \in Nodes : Frame(q, y) \in Frames' <=> Frame(q, y) \in Frames
  <2>1. Frame(p, It) \in FrameType /\ Frame(p, It).at = p
    BY <1>1, <1>5, ItTyped, FrameTyped, FrameEqual
  <2>2. stack' \in Seq(FrameType) /\ Frames' = {Frame(p, It)} \union Rest
    BY <1>2, <1>5, <2>1, FramesGoto DEF Goto
  <2>3. Head(stack) \in FrameType /\ Frames = {Head(stack)} \union Rest
    BY <1>2, <1>5, FramesTop
  <2> QED BY <1>3, <1>5, <2>1, <2>2, <2>3
<1>6. ASSUME Return, stack # << >>, Head(stack).at \notin Fin
      PROVE  /\ stack' \in Seq(FrameType)
             /\ \A q \in Fin, y \in Nodes : Frame(q, y) \in Frames' <=> Frame(q, y) \in Frames
  <2>2. stack' \in Seq(FrameType) /\ Frames' = Rest
    BY <1>2, <1>6, FramesReturn DEF Return
  <2>3. Head(stack) \in FrameType /\ Frames = {Head(stack)} \union Rest
    BY <1>2, <1>6, FramesTop
  <2> QED BY <1>3, <1>6, <2>2, <2>3
<1>7. UserCode => (stack # << >> => Head(stack).at # "destroy")
  BY DEF UserCode, UserPlaces
<1>8. {"feed", "cancel", "poll", "polled", "feeder"} \subseteq Places \ Fin
  BY DEF Places, Fin
<1>9. ASSUME NEW g \in Grps, NEW n \in Limits, Limit(g, n) PROVE Aside
  <2>1. UserCode /\ Call("feed", g) /\ g \in Nodes
    BY <1>9 DEF Limit, MayCall, Nodes
  <2>2. UNCHANGED <<stage, res_queue, cancelled, links, int1>> /\ UNCHANGED grp
    BY <1>9 DEF Limit, links
  <2>3. Stacked'
    BY <1>1, <2>1, <2>2, StackedCall DEF Call
  <2> QED BY <1>2, <1>4, <1>7, <1>8, <2>1, <2>2, <2>3 DEF Aside
<1>10. ASSUME NEW x \in Nodes, Cancel(x) PROVE Aside
  <2>1. UserCode /\ Live(x)
    BY <1>10 DEF Cancel, MayCall
  <2>2. UNCHANGED <<stage, res_queue, links, int1>> /\ UNCHANGED grp
        /\ cancelled \subseteq cancelled' /\ cancelled' \subseteq Nodes
    BY <1>2, <1>10 DEF Cancel, links, fields
  <2>3. CASE First(x) = None
    <3>1. UNCHANGED stack
      BY <1>10, <2>3 DEF Cancel
    <3>2. Frames' = Frames
      BY <3>1 DEF Frames
    <3>3. Stacked'
      BY <1>1, <2>2, <3>1, StackedSame
    <3> QED BY <1>2, <1>7, <2>1, <2>2, <3>1, <3>2, <3>3 DEF Aside
  <2>4. CASE First(x) # None
    <3>1. First(x) \in Nodes
      BY <1>1, <2>1, <2>4, ListFacts DEF First, Members
    <3>2. Call("cancel", First(x))
      BY <1>10, <2>4 DEF Cancel
    <3>3. Stacked'
      BY <1>1, <2>1, <2>2, <3>1, <3>2, StackedCall DEF Call
    <3> QED BY <1>4, <1>7, <1>8, <2>1, <2>2, <3>1, <3>2, <3>3 DEF Aside
  <2> QED BY <2>3, <2>4
<1>11. ASSUME Poll PROVE Aside
  <2>1. stack = << >> /\ Call("poll", None) /\ UNCHANGED <<stage, res_queue, cancelled, links, int1>>
    BY <1>11 DEF Poll, fields
  <2>2. UNCHANGED grp
    BY <2>1 DEF links
  <2>3. Stacked'
    BY <1>1, <2>1, <2>2, StackedCall DEF Call
  <2> QED BY <1>2, <1>4, <1>8, <2>1, <2>3 DEF Aside
<1>12. ASSUME PollEmpty PROVE Aside
  <2>1. /\ stack # << >> /\ Head(stack).at = "poll" /\ Return
        /\ UNCHANGED <<stage, res_queue, cancelled, links, int1>>
    BY <1>12 DEF PollEmpty, In, fields
  <2>2. UNCHANGED grp
    BY <2>1 DEF links
  <2>3. Stacked'
    BY <1>1, <1>8, <2>1, <2>2, StackedReturn DEF Return
  <2> QED BY <1>2, <1>6, <1>8, <2>1, <2>3 DEF Aside
<1>13. ASSUME Polled PROVE Aside
  <2>1. /\ stack # << >> /\ Head(stack).at = "polled" /\ (Return \/ Goto("poll"))
        /\ UNCHANGED <<stage, res_queue, cancelled, links, int1>>
    BY <1>13 DEF Polled, In, fields
  <2>2. UNCHANGED grp
    BY <2>1 DEF links
  <2>3. Stacked'
    BY <1>1, <1>8, <2>1, <2>2, StackedReturn, StackedGoto DEF Return, Goto
  <2> QED BY <1>2, <1>5, <1>6, <1>8, <2>1, <2>3 DEF Aside
<1>14. ASSUME TryFeed PROVE Aside
  <2>1. /\ stack # << >> /\ Head(stack).at = "feed" /\ (Return \/ Goto("feeder"))
        /\ UNCHANGED <<stage, res_queue, cancelled, links, int1>>
    BY <1>14 DEF TryFeed, In
  <2>2. UNCHANGED grp
    BY <2>1 DEF links
  <2>3. Stacked'
    BY <1>1, <1>8, <2>1, <2>2, StackedReturn, StackedGoto DEF Return, Goto
  <2> QED BY <1>2, <1>5, <1>6, <1>8, <2>1, <2>3 DEF Aside
<1>15. ASSUME FeederReturn PROVE Aside
  <2>1. /\ stack # << >> /\ Head(stack).at = "feeder" /\ (Return \/ Goto("feed"))
        /\ UNCHANGED <<stage, res_queue, cancelled, links, int1>>
    BY <1>15 DEF FeederReturn, In
  <2>2. UNCHANGED grp
    BY <2>1 DEF links
  <2>3. Stacked'
    BY <1>1, <1>8, <2>1, <2>2, StackedReturn, StackedGoto DEF Return, Goto
  <2> QED BY <1>2, <1>5, <1>6, <1>8, <2>1, <2>3 DEF Aside
<1>16. ASSUME CancelMember PROVE Aside
  <2>1. /\ stack' \in Seq(FrameType) /\ Stacked'
        /\ Frames' \subseteq {Frame("cancel", x) : x \in {First(It), grp_next[It]} \ {None}} \union Rest
        /\ Rest \subseteq Frames'
        /\ Frames = {Frame("cancel", It)} \union Rest
    BY <1>16, CancelMemberFrames
  <2>2. \A p \in Fin, x \in Nodes : Frame(p, x) \in Frames' <=> Frame(p, x) \in Frames
    <3>1. \A p \in Fin, x, y \in Nodes \union {None} : Frame(p, x) # Frame("cancel", y)
      BY FrameEqual DEF Fin
    <3>2. First(It) \in Nodes \union {None} /\ grp_next[It] \in Nodes \union {None} /\ It \in Nodes
      BY <1>16, WalkFacts DEF CancelMember, Members
    <3> QED BY <2>1, <3>1, <3>2
  <2>3. /\ cancelled \subseteq cancelled' /\ cancelled' \subseteq Nodes
        /\ UNCHANGED <<stage, res_queue, links, int1>>
        /\ stack # << >> /\ Head(stack).at = "cancel"
    BY <1>2, <1>16, WalkFacts DEF CancelMember, fields, In
  <2> QED BY <2>1, <2>2, <2>3 DEF Aside
<1> QED BY <1>9, <1>10, <1>11, <1>12, <1>13, <1>14, <1>15, <1>16

-----------------------------------------------------------------------------
(* The steps of eio_finish. *)

(* x has come to q in eio_finish, and all others are where they were. *)
Moved(x, q) == \A p \in Fin, y \in Nodes :
  Frame(p, y) \in Frames' <=> IF y = x THEN p = q ELSE Frame(p, y) \in Frames

LEMMA GotoMoves ==
  ASSUME GInv, NEW p \in Fin, NEW q \in Fin, In(p), Goto(q), UNCHANGED grp
  PROVE  stack' \in Seq(FrameType) /\ Stacked' /\ Moved(It, q)
<1>1. TypeOK /\ Stacked /\ stack \in Seq(FrameType) /\ p \in Places /\ q \in Places
  BY StackTyped DEF GInv, Places, Fin
<1>2. /\ It \in Nodes /\ stack # << >> /\ Head(stack).at = p
      /\ Frames = {Frame(p, It)} \union Rest
      /\ \A r \in Fin : Frame(r, It) \notin Rest
  BY <1>1, AtPlace, TopAlone
<1>3. stack' \in Seq(FrameType) /\ Frames' = {Frame(q, It)} \union Rest
  BY <1>1, <1>2, FrameTyped, FramesGoto DEF Goto
<1>4. Stacked'
  BY <1>1, <1>2, StackedGoto DEF Goto
<1>5. Moved(It, q)
  BY <1>2, <1>3, FrameEqual DEF Moved
<1> QED BY <1>3, <1>4, <1>5

LEMMA FeedMoves ==
  ASSUME GInv, In("dec"), NEW g \in Grps, CallThen("feed", g, "decd"), UNCHANGED grp
  PROVE  stack' \in Seq(FrameType) /\ Stacked' /\ Moved(It, "decd") /\ Frame("feed", g) \in Frames'
<1>1. TypeOK /\ Stacked /\ stack \in Seq(FrameType) /\ "dec" \in Fin /\ g \in Nodes
      /\ {"feed", "decd"} \subseteq Places
  BY StackTyped DEF GInv, Places, Fin, Nodes
<1>2. /\ It \in Nodes /\ stack # << >> /\ Head(stack).at = "dec"
      /\ Frames = {Frame("dec", It)} \union Rest
      /\ \A r \in Fin : Frame(r, It) \notin Rest
  BY <1>1, AtPlace, TopAlone
<1>3. stack' \in Seq(FrameType) /\ Frames' = {Frame("feed", g), Frame("decd", It)} \union Rest
  BY <1>1, <1>2, FrameTyped, FramesCallThen DEF CallThen
<1>4. Stacked'
  BY <1>1, <1>2, StackedCallThen DEF CallThen
<1>5. Moved(It, "decd")
  BY <1>2, <1>3, FrameEqual DEF Moved, Fin
<1> QED BY <1>3, <1>4, <1>5

(* A group that a request is in while it leaves is not being finished. *)
LEMMA GroupThere ==
  ASSUME GInv, NEW p \in {"dec", "decd"}, In(p), grp[It] # None
  PROVE  grp[It] \in Grps /\ Live(grp[It]) /\ ~Ending(grp[It]) /\ It # grp[It]
<1>1. TypeOK /\ Stacked /\ Belong /\ p \in Fin
  BY DEF GInv, Fin
<1>2. /\ It \in Nodes /\ stack # << >> /\ Head(stack).at = p /\ Head(stack) = Frame(p, It)
      /\ Frame(p, It) \in Frames
      /\ \A q \in Fin : Frame(q, It) \in Frames <=> q = p
  BY <1>1, AtPlace
<1>3. Frame("destroy", It) \notin Frames /\ Head(stack) # Frame("destroy", It)
  BY <1>2, FrameEqual DEF Fin
<1>4. Live(grp[It]) /\ ~Ending(grp[It])
  BY <1>1, <1>2, <1>3 DEF Belong
<1>5. grp[It] \in Grps
  BY <1>1, <1>2 DEF TypeOK
<1> QED BY <1>1, <1>2, <1>4, <1>5 DEF Ending

LEMMA GroupMoves ==
  ASSUME GInv, In("decd"), CallThen("finish", grp[It], "destroy"), UNCHANGED grp
  PROVE  /\ grp[It] \in Grps /\ Live(grp[It]) /\ ~Ending(grp[It]) /\ It # grp[It]
         /\ stack' \in Seq(FrameType) /\ Stacked'
         /\ \A p \in Fin, y \in Nodes : Frame(p, y) \in Frames' <=>
              IF y = It THEN p = "destroy"
              ELSE IF y = grp[It] THEN p = "finish" ELSE Frame(p, y) \in Frames
<1> DEFINE g == grp[It]
<1>1. TypeOK /\ Stacked /\ stack \in Seq(FrameType) /\ "decd" \in Fin
      /\ {"finish", "destroy"} \subseteq Places /\ Marked
  BY StackTyped DEF GInv, Places, Fin
<1>2. /\ It \in Nodes /\ stack # << >> /\ Head(stack).at = "decd"
      /\ Frames = {Frame("decd", It)} \union Rest
      /\ \A r \in Fin : Frame(r, It) \notin Rest
      /\ Frame("decd", It) \in Frames
  BY <1>1, AtPlace, TopAlone
<1>3. g # None
  BY <1>1, <1>2 DEF Marked
<1>4. g \in Grps /\ Live(g) /\ ~Ending(g) /\ It # g /\ g \in Nodes
  BY <1>3, GroupThere DEF Nodes
<1>5. stack' \in Seq(FrameType) /\ Frames' = {Frame("finish", g), Frame("destroy", It)} \union Rest
  BY <1>1, <1>2, <1>4, FrameTyped, FramesCallThen DEF CallThen
<1>6. Stacked'
  BY <1>1, <1>2, <1>4, StackedCallThen DEF CallThen
<1>7. \A p \in Fin : Frame(p, g) \notin Rest
  BY <1>2, <1>4 DEF Ending
<1>8. ASSUME NEW p \in Fin, NEW y \in Nodes
      PROVE  Frame(p, y) \in Frames' <=>
               IF y = It THEN p = "destroy"
               ELSE IF y = grp[It] THEN p = "finish" ELSE Frame(p, y) \in Frames
  <2>1. CASE y = It
    BY <2>1, <1>2, <1>4, <1>5, FrameEqual
  <2>2. CASE y = g
    BY <2>2, <1>4, <1>5, <1>7, FrameEqual
  <2>3. CASE y # It /\ y # g
    BY <2>3, <1>2, <1>5, FrameEqual
  <2> QED BY <2>1, <2>2, <2>3
<1> QED BY <1>4, <1>5, <1>6, <1>8

LEMMA TakeMoves ==
  ASSUME GInv, In("poll"), NEW x \in Nodes, CallThen("finish", x, "polled"), UNCHANGED grp
  PROVE  /\ \A p \in Fin, y \in Nodes : Frame(p, y) \notin Frames
         /\ stack' \in Seq(FrameType) /\ Stacked' /\ Moved(x, "finish")
<1>1. TypeOK /\ Stacked /\ stack \in Seq(FrameType) /\ {"finish", "polled"} \subseteq Places
  BY StackTyped DEF GInv, Places
<1>2. /\ stack # << >> /\ Head(stack).at = "poll" /\ It \in Nodes \union {None}
      /\ stack[1] = Head(stack) /\ Len(stack) \in Nat \ {0} /\ Frames = {Head(stack)} \union Rest
  BY <1>1, ItTyped, FramesTop DEF In
<1>3. Len(stack) = 1
  BY <1>1, <1>2 DEF Stacked, Innermost
<1>4. Rest = {}
  BY <1>3 DEF Rest
<1>5. \A p \in Fin, y \in Nodes : Frame(p, y) \notin Frames
  BY <1>2, <1>4, FrameEqual DEF Fin
<1>6. /\ stack' \in Seq(FrameType)
      /\ Frames' = {Frame("finish", x), Frame("polled", It)} \union Rest
  BY <1>1, <1>2, FrameTyped, FramesCallThen DEF CallThen
<1>7. Stacked'
  BY <1>1, <1>2, StackedCallThen DEF CallThen
<1>8. Moved(x, "finish")
  BY <1>4, <1>5, <1>6, FrameEqual DEF Moved, Fin
<1> QED BY <1>5, <1>6, <1>7, <1>8

LEMMA DestroyMoves ==
  ASSUME GInv, In("destroy"), Return, \A y \in Nodes : y # It => grp'[y] = grp[y]
  PROVE  /\ stack' \in Seq(FrameType) /\ Stacked'
         /\ Frames' = Frames \ {Frame("destroy", It)}
         /\ \A p \in Fin : Frame(p, It) \notin Frames'
         /\ \A p \in Fin, y \in Nodes : Frame(p, y) \in Frames' <=> y # It /\ Frame(p, y) \in Frames
<1>1. TypeOK /\ Stacked /\ stack \in Seq(FrameType) /\ "destroy" \in Fin
  BY StackTyped DEF GInv, Fin
<1>2. /\ It \in Nodes /\ stack # << >> /\ Head(stack).at = "destroy"
      /\ Frames = {Frame("destroy", It)} \union Rest
      /\ \A r \in Fin : Frame(r, It) \notin Rest
  BY <1>1, AtPlace, TopAlone
<1>3. stack' \in Seq(FrameType) /\ Frames' = Rest
  BY <1>1, <1>2, FramesReturn DEF Return
<1>4. Stacked'
  BY <1>1, <1>2, StackedReturn DEF Return
<1>5. Frames' = Frames \ {Frame("destroy", It)}
  BY <1>1, <1>2, <1>3
<1>6. \A p \in Fin, y \in Nodes : Frame(p, y) \in Frames' <=> y # It /\ Frame(p, y) \in Frames
  BY <1>2, <1>3, FrameEqual
<1> QED BY <1>2, <1>3, <1>4, <1>5, <1>6

(* Destroying one request clears its fields and no others. *)
LEMMA DestroyFields ==
  ASSUME TypeOK, Destroy
  PROVE  /\ stage' = [y \in Nodes |-> IF y = It THEN "free" ELSE stage[y]]
         /\ cancelled' = cancelled \ {It} /\ UNCHANGED <<res_queue, res>>
         /\ grp' = [y \in Nodes |-> IF y = It THEN None ELSE grp[y]]
         /\ grp_prev' = [y \in Nodes |-> IF y = It THEN None ELSE grp_prev[y]]
         /\ grp_next' = [y \in Nodes |-> IF y = It THEN None ELSE grp_next[y]]
         /\ grp_first' = [g \in Grps |-> IF g = It THEN None ELSE grp_first[g]]
         /\ size' = [g \in Grps |-> IF g = It THEN 0 ELSE size[g]]
         /\ int1' = [g \in Grps |-> IF g = It THEN FALSE ELSE int1[g]]
         /\ int2' = [g \in Grps |-> IF g = It THEN 0 ELSE int2[g]]
         /\ feed' = [g \in Grps |-> IF g = It THEN FALSE ELSE feed[g]]
         /\ groupadd' = groupadd \ {It}
<1>1. /\ DOMAIN stage = Nodes /\ DOMAIN grp = Nodes /\ DOMAIN grp_prev = Nodes
      /\ DOMAIN grp_next = Nodes /\ DOMAIN grp_first = Grps /\ DOMAIN size = Grps
      /\ DOMAIN int1 = Grps /\ DOMAIN int2 = Grps /\ DOMAIN feed = Grps
  BY DEF TypeOK
<1>2. /\ stage' = [y \in Nodes |-> IF y = It THEN "free" ELSE stage[y]]
      /\ cancelled' = cancelled \ {It} /\ UNCHANGED <<res_queue, res>>
      /\ grp' = [y \in Nodes |-> IF y = It THEN None ELSE grp[y]]
  BY <1>1 DEF Destroy, DestroyAll
<1>3. /\ grp_prev' = [y \in Nodes |-> IF y = It THEN None ELSE grp_prev[y]]
      /\ grp_next' = [y \in Nodes |-> IF y = It THEN None ELSE grp_next[y]]
      /\ grp_first' = [g \in Grps |-> IF g = It THEN None ELSE grp_first[g]]
  BY <1>1 DEF Destroy, DestroyAll
<1>4. /\ size' = [g \in Grps |-> IF g = It THEN 0 ELSE size[g]]
      /\ int1' = [g \in Grps |-> IF g = It THEN FALSE ELSE int1[g]]
      /\ int2' = [g \in Grps |-> IF g = It THEN 0 ELSE int2[g]]
  BY <1>1 DEF Destroy, DestroyAll
<1>5. /\ feed' = [g \in Grps |-> IF g = It THEN FALSE ELSE feed[g]]
      /\ groupadd' = groupadd \ {It}
  BY <1>1 DEF Destroy, DestroyAll
<1> QED BY <1>2, <1>3, <1>4, <1>5

LEMMA DestroyGrp ==
  ASSUME GInv, Destroy
  PROVE  /\ It \in Nodes /\ \A y \in Nodes : grp'[y] = IF y = It THEN None ELSE grp[y]
         /\ stack' \in Seq(FrameType) /\ Stacked'
         /\ Frames' = Frames \ {Frame("destroy", It)}
         /\ \A p \in Fin : Frame(p, It) \notin Frames'
         /\ \A p \in Fin, y \in Nodes : Frame(p, y) \in Frames' <=> y # It /\ Frame(p, y) \in Frames
<1>1. In("destroy") /\ Return /\ grp \in [Nodes -> Grps \union {None}] /\ TypeOK /\ Stacked /\ "destroy" \in Fin
  BY DEF Destroy, GInv, TypeOK, Fin
<1>2. \A y \in Nodes : grp'[y] = IF y = It THEN None ELSE grp[y]
  BY <1>1, DestroyFields
<1>3. It \in Nodes
  BY <1>1, AtPlace
<1>4. \A y \in Nodes : y # It => grp'[y] = grp[y]
  BY <1>2
<1> QED BY <1>1, <1>2, <1>3, <1>4, DestroyMoves

LEMMA UnlinkMember ==
  ASSUME GInv, In("dec"), grp[It] # None
  PROVE  /\ It \in Nodes /\ grp[It] \in Grps /\ Live(grp[It]) /\ ~Ending(grp[It])
         /\ It # grp[It] /\ It \in Members(grp[It]) /\ size[grp[It]] \in Nat \ {0}
<1>1. TypeOK /\ Stacked /\ Linked /\ "dec" \in Fin
  BY DEF GInv, Fin
<1>2. grp[It] \in Grps /\ Live(grp[It]) /\ ~Ending(grp[It]) /\ It # grp[It]
  BY GroupThere
<1>3. It \in Nodes /\ \A q \in Fin : Frame(q, It) \in Frames <=> q = "dec"
  BY <1>1, AtPlace
<1>4. It \in Members(grp[It])
  BY <1>3 DEF Members, Fin
<1>5. size[grp[It]] \in Nat
  BY <1>1, <1>2 DEF TypeOK
<1> QED BY <1>1, <1>2, <1>3, <1>4, <1>5, ListFacts

LEMMA StackedKept ==
  ASSUME GInv, Next
  PROVE  stack' \in Seq(FrameType) /\ Stacked'
<1>0. TypeOK /\ Stacked /\ stack \in Seq(FrameType)
  BY StackTyped DEF GInv
<1>1. CASE \/ \E g \in Grps, n \in Limits : Limit(g, n)
           \/ \E x \in Nodes : Cancel(x)
           \/ Poll \/ PollEmpty \/ Polled \/ TryFeed \/ FeederReturn \/ CancelMember
  BY <1>1, AsideStep DEF Aside
<1>2. ASSUME NEW r \in Reqs, Work(r) PROVE stack' \in Seq(FrameType) /\ Stacked'
  BY <1>0, <1>2, StackedSame DEF Work, links
<1>3. ASSUME NEW x \in Nodes, Submit(x) PROVE stack' \in Seq(FrameType) /\ Stacked'
  BY <1>0, <1>3, StackedSame DEF Submit, links
<1>4. ASSUME NEW g \in Grps, NEW x \in Nodes, Add(g, x) PROVE stack' \in Seq(FrameType) /\ Stacked'
  <2>1. \A y \in Nodes : grp[y] \in Grps => grp'[y] = grp[y]
    BY <1>0, <1>4, GroupAssumption DEF Add, TypeOK
  <2> QED BY <1>0, <1>4, <2>1, StackedSame DEF Add
<1>5. ASSUME NEW x \in Nodes, PollTake(x) PROVE stack' \in Seq(FrameType) /\ Stacked'
  <2>1. In("poll") /\ UNCHANGED grp /\ (UNCHANGED stack \/ CallThen("finish", x, "polled"))
    BY <1>5 DEF PollTake, links
  <2>2. UNCHANGED stack => Stacked' /\ stack' \in Seq(FrameType)
    BY <1>0, <2>1, StackedSame
  <2> QED BY <2>1, <2>2, TakeMoves
<1>6. CASE Finish
  BY <1>6, GotoMoves DEF Finish, Fin, links
<1>7. ASSUME NEW r \in CbResults, CallbackReturn(r) PROVE stack' \in Seq(FrameType) /\ Stacked'
  BY <1>7, GotoMoves DEF CallbackReturn, Fin, links
<1>8. CASE Unlink
  <2>1. CASE grp[It] = None
    BY <1>8, <2>1, GotoMoves DEF Unlink, Fin, links
  <2>2. CASE grp[It] # None
    BY <1>8, <2>2, UnlinkMember, FeedMoves DEF Unlink, Refill
  <2> QED BY <2>1, <2>2
<1>9. CASE FinishGroup
  <2>1. CASE WasLast(grp[It])
    BY <1>9, <2>1, GroupMoves DEF FinishGroup, links
  <2>2. CASE ~WasLast(grp[It])
    BY <1>9, <2>2, GotoMoves DEF FinishGroup, Fin, links
  <2> QED BY <2>1, <2>2
<1>10. CASE Destroy
  BY <1>10, DestroyGrp
<1> QED
  BY <1>1, <1>2, <1>3, <1>4, <1>5, <1>6, <1>7, <1>8, <1>9, <1>10 DEF Next, User, Library, UserReturns

LEMMA TypeKept ==
  ASSUME GInv, Next
  PROVE  TypeOK'
<1>0. TypeOK /\ Stacked /\ Linked /\ Belong
  BY DEF GInv
<1>1. stack' \in Seq(FrameType)
  BY StackedKept
<1> DEFINE Rec == /\ stage \in [Nodes -> Stages] /\ res_queue \subseteq Nodes /\ cancelled \subseteq Nodes
                  /\ grp \in [Nodes -> Grps \union {None}]
                  /\ grp_prev \in [Nodes -> Nodes \union {None}] /\ grp_next \in [Nodes -> Nodes \union {None}]
                  /\ grp_first \in [Grps -> Nodes \union {None}] /\ size \in [Grps -> Nat]
                  /\ int1 \in [Grps -> BOOLEAN] /\ feed \in [Grps -> BOOLEAN]
                  /\ int2 \in [Grps -> Int] /\ groupadd \subseteq Grps /\ res \in Int
<1>2. Rec
  BY <1>0 DEF TypeOK
<1>3. SUFFICES Rec'
  BY <1>1 DEF TypeOK, FrameType
<1>a. Grps \subseteq Nodes /\ Reqs \subseteq Nodes /\ Limits \subseteq Int /\ CbResults \subseteq Int
  BY GroupAssumption DEF Nodes
<1>4. ASSUME NEW r \in Reqs, Work(r) PROVE Rec'
  BY <1>2, <1>4, <1>a DEF Work, links, fields, Stages
<1>5. ASSUME NEW x \in Nodes, Submit(x) PROVE Rec'
  BY <1>2, <1>5 DEF Submit, links, fields, Stages
<1>6. ASSUME NEW x \in Nodes, Cancel(x) PROVE Rec'
  BY <1>2, <1>6 DEF Cancel, links, fields
<1>7. ASSUME NEW g \in Grps, NEW x \in Nodes, Add(g, x) PROVE Rec'
  <2>1. /\ groupadd' \subseteq Grps /\ grp' \in [Nodes -> Grps \union {None}]
        /\ grp_next' \in [Nodes -> Nodes \union {None}] /\ grp_first' \in [Grps -> Nodes \union {None}]
    BY <1>2, <1>7 DEF Add
  <2>2. grp_prev' \in [Nodes -> Nodes \union {None}]
    BY <1>2, <1>7 DEF Add
  <2>3. size' \in [Grps -> Nat]
    BY <1>2, <1>7 DEF Add, Count
  <2> QED BY <1>2, <1>7, <2>1, <2>2, <2>3 DEF Add
<1>8. ASSUME NEW g \in Grps, NEW n \in Limits, Limit(g, n) PROVE Rec'
  BY <1>2, <1>8, <1>a DEF Limit, links
<1>9. CASE Poll \/ PollEmpty
  BY <1>2, <1>9 DEF Poll, PollEmpty, links, fields
<1>10. CASE Polled
  BY <1>2, <1>10 DEF Polled, links, fields
<1>11. ASSUME NEW x \in Nodes, PollTake(x) PROVE Rec'
  BY <1>2, <1>11 DEF PollTake, Delay, HasMembers, links, Stages
<1>12. CASE Finish
  BY <1>2, <1>12 DEF Finish, links, fields, Stages
<1>13. ASSUME NEW r \in CbResults, CallbackReturn(r) PROVE Rec'
  BY <1>2, <1>13, <1>a DEF CallbackReturn, links, fields
<1>14. CASE Unlink
  <2>1. CASE grp[It] = None
    BY <1>2, <1>14, <2>1 DEF Unlink, links, fields
  <2>2. CASE grp[It] # None
    <3> DEFINE g == grp[It]
    <3>1. It \in Nodes /\ g \in Grps /\ size[g] \in Nat \ {0}
      BY <1>14, <2>2, UnlinkMember DEF Unlink
    <3>2. grp_prev' \in [Nodes -> Nodes \union {None}] /\ grp_next' \in [Nodes -> Nodes \union {None}]
      BY <1>2, <1>14, <2>2, <3>1 DEF Unlink
    <3>3. grp_first' \in [Grps -> Nodes \union {None}]
      BY <1>2, <1>14, <2>2, <3>1 DEF Unlink, Behead
    <3>4. size' \in [Grps -> Nat]
      BY <1>2, <1>14, <2>2, <3>1 DEF Unlink
    <3> QED BY <1>2, <1>14, <2>2, <3>2, <3>3, <3>4 DEF Unlink, fields
  <2> QED BY <2>1, <2>2
<1>15. CASE FinishGroup
  BY <1>2, <1>15 DEF FinishGroup, links, fields
<1>16. CASE Destroy
  <2>1. /\ stage' \in [Nodes -> Stages] /\ res_queue' \subseteq Nodes /\ cancelled' \subseteq Nodes
        /\ grp' \in [Nodes -> Grps \union {None}]
    BY <1>0, <1>2, <1>16, DestroyFields DEF Stages
  <2>2. /\ grp_prev' \in [Nodes -> Nodes \union {None}] /\ grp_next' \in [Nodes -> Nodes \union {None}]
        /\ grp_first' \in [Grps -> Nodes \union {None}] /\ size' \in [Grps -> Nat]
    BY <1>0, <1>2, <1>16, DestroyFields
  <2>3. int1' \in [Grps -> BOOLEAN]
    <3>1. int1' = [g \in Grps |-> IF g = It THEN FALSE ELSE int1[g]]
      BY <1>0, <1>16, DestroyFields
    <3> QED BY <1>2, <3>1
  <2>4. feed' \in [Grps -> BOOLEAN]
    <3>1. feed' = [g \in Grps |-> IF g = It THEN FALSE ELSE feed[g]]
      BY <1>0, <1>16, DestroyFields
    <3> QED BY <1>2, <3>1
  <2>5. int2' \in [Grps -> Int] /\ groupadd' \subseteq Grps /\ res' \in Int
    BY <1>0, <1>2, <1>16, DestroyFields
  <2> QED BY <2>1, <2>2, <2>3, <2>4, <2>5
<1>17. CASE TryFeed
  BY <1>2, <1>17 DEF TryFeed, links
<1>18. CASE FeederReturn
  BY <1>2, <1>18 DEF FeederReturn, links
<1>19. CASE CancelMember
  BY <1>2, <1>19, WalkFacts DEF CancelMember, links, fields
<1> QED
  BY <1>4, <1>5, <1>6, <1>7, <1>8, <1>9, <1>10, <1>11, <1>12, <1>13, <1>14, <1>15, <1>16,
     <1>17, <1>18, <1>19 DEF Next, User, Library, UserReturns

-----------------------------------------------------------------------------
(* The other parts of the invariant, one by one. *)

LEMMA EndingSame ==
  ASSUME Aside
  PROVE  \A x \in Nodes : Ending(x)' <=> Ending(x)
BY DEF Aside, Ending

LEMMA MarkedKept ==
  ASSUME GInv, Next
  PROVE  Marked'
<1>0. TypeOK /\ Stacked /\ Marked /\ Fresh /\ Reqs \intersect Grps = {} /\ None \notin Grps
      /\ stage \in [Nodes -> Stages] /\ int1 \in [Grps -> BOOLEAN]
  BY GroupAssumption DEF GInv, TypeOK
<1> DEFINE M(x) == /\ stage[x] \in {"taken", "finishing"} => Ending(x)
                   /\ Frame("finish", x) \in Frames =>
                        stage[x] = "taken" \/ (stage[x] = "delayed" /\ x \in Grps)
                   /\ Frame("callback", x) \in Frames => stage[x] = "finishing"
                   /\ \A p \in {"dec", "decd", "destroy"} : Frame(p, x) \in Frames =>
                        stage[x] = "finishing" \/ (stage[x] = "taken" /\ x \in cancelled)
                   /\ Frame("decd", x) \in Frames => grp[x] # None
                   /\ stage[x] \in {"queued", "running"} => x \in Reqs
                   /\ stage[x] = "delayed" => x \in Grps /\ int1[x]
                   /\ x \in Grps /\ stage[x] = "done" => ~int1[x]
<1>a. SUFFICES ASSUME NEW x \in Nodes PROVE M(x)'
  BY DEF Marked
<1>b. M(x)
  BY <1>0 DEF Marked
<1>c. UNCHANGED stack => Frames' = Frames /\ (Ending(x)' <=> Ending(x))
  BY DEF Frames, Ending
<1>d. ~Ending(x) => \A p \in Fin : Frame(p, x) \notin Frames
  BY DEF Ending
<1>e. stage[x] \in {"free", "queued", "running", "done"} => ~Ending(x)
  BY <1>b DEF Ending, Fin
<1>1. CASE \/ \E g \in Grps, n \in Limits : Limit(g, n)
           \/ \E y \in Nodes : Cancel(y)
           \/ Poll \/ PollEmpty \/ Polled \/ TryFeed \/ FeederReturn \/ CancelMember
  <2>1. Aside
    BY <1>1, AsideStep
  <2>2. /\ stage'[x] = stage[x] /\ grp'[x] = grp[x] /\ int1' = int1 /\ cancelled \subseteq cancelled'
        /\ \A p \in Fin : Frame(p, x) \in Frames' <=> Frame(p, x) \in Frames
    BY <2>1 DEF Aside, links
  <2>3. Ending(x)' <=> Ending(x)
    BY <2>1, EndingSame
  <2> QED BY <1>b, <2>2, <2>3 DEF Fin
<1>2. ASSUME NEW r \in Reqs, Work(r) PROVE M(x)'
  <2>1. /\ UNCHANGED <<stack, grp, int1, cancelled>>
        /\ x # r => stage'[x] = stage[x]
        /\ stage[r] \in {"queued", "running"} /\ stage'[r] \in {"running", "done"} /\ r \in Nodes
    BY <1>0, <1>2 DEF Work, links, fields, Nodes
  <2>2. CASE x # r
    BY <1>b, <1>c, <2>1, <2>2
  <2>3. CASE x = r
    <3>1. ~Ending(x) /\ x \notin Grps /\ x \in Reqs /\ Frames' = Frames
      BY <1>0, <1>c, <1>e, <2>1, <2>3
    <3> QED BY <1>d, <2>1, <2>3, <3>1 DEF Fin
  <2> QED BY <2>2, <2>3
<1>3. ASSUME NEW y \in Nodes, Submit(y) PROVE M(x)'
  <2>1. /\ UNCHANGED <<stack, grp, int1, cancelled>>
        /\ x # y => stage'[x] = stage[x]
        /\ stage[y] = "free" /\ stage'[y] = IF y \in Grps THEN "done" ELSE "queued"
    BY <1>0, <1>3 DEF Submit, links, fields
  <2>2. CASE x # y
    BY <1>b, <1>c, <2>1, <2>2
  <2>3. CASE x = y
    <3>1. ~Ending(x) /\ Frames' = Frames /\ (x \notin Grps => x \in Reqs) /\ (x \in Grps => ~int1[x])
      BY <1>0, <1>c, <1>e, <2>1, <2>3 DEF Nodes, Fresh
    <3> QED BY <1>d, <2>1, <2>3, <3>1 DEF Fin
  <2> QED BY <2>2, <2>3
<1>4. ASSUME NEW g \in Grps, NEW y \in Nodes, Add(g, y) PROVE M(x)'
  <2>1. /\ UNCHANGED <<stack, stage, int1, cancelled>>
        /\ grp'[x] = IF x = y THEN g ELSE grp[x]
    BY <1>0, <1>4 DEF Add, TypeOK
  <2> QED BY <1>0, <1>b, <1>c, <2>1
<1>5. ASSUME NEW y \in Nodes, PollTake(y) PROVE M(x)'
  <2>1. /\ In("poll") /\ UNCHANGED <<grp, cancelled>>
        /\ x # y => stage'[x] = stage[x]
    BY <1>0, <1>5 DEF PollTake, links
  <2>2. stage[y] = "done"
    BY <1>5 DEF PollTake, GInv, FinishedOnce
  <2>3. CASE HasMembers(y)
    <3>1. /\ y \in Grps /\ UNCHANGED stack /\ stage'[y] = "delayed"
          /\ int1' = [int1 EXCEPT ![y] = TRUE]
      BY <1>0, <1>5, <2>3 DEF PollTake, HasMembers, Delay
    <3>2. CASE x # y
      <4>1. x \in Grps => int1'[x] = int1[x]
        BY <1>0, <3>1, <3>2
      <4> QED BY <1>b, <1>c, <2>1, <3>1, <3>2, <4>1
    <3>3. CASE x = y
      <4>1. ~Ending(x) /\ Frames' = Frames /\ int1'[x]
        BY <1>0, <1>c, <1>e, <2>2, <3>1, <3>3
      <4> QED BY <1>d, <3>1, <3>3, <4>1 DEF Fin
    <3> QED BY <3>2, <3>3
  <2>4. CASE ~HasMembers(y)
    <3>1. stage'[y] = "taken" /\ CallThen("finish", y, "polled") /\ UNCHANGED int1
      BY <1>0, <1>5, <2>4 DEF PollTake
    <3>2. Moved(y, "finish")
      BY <2>1, <3>1, TakeMoves
    <3>3. CASE x # y
      <4>1. /\ \A p \in Fin : Frame(p, x) \in Frames' <=> Frame(p, x) \in Frames
            /\ Ending(x)' <=> Ending(x)
        BY <3>2, <3>3 DEF Moved, Ending
      <4> QED BY <1>b, <2>1, <3>1, <3>3, <4>1 DEF Fin
    <3>4. CASE x = y
      <4>1. (\A p \in Fin : Frame(p, x) \in Frames' <=> p = "finish") /\ Ending(x)'
        BY <3>2, <3>4 DEF Moved, Ending, Fin
      <4> QED BY <3>1, <3>4, <4>1 DEF Fin
    <3> QED BY <3>3, <3>4
  <2> QED BY <2>3, <2>4
<1>f. ASSUME NEW q \in Fin, Moved(It, q)
      PROVE  /\ x # It => /\ \A p \in Fin : Frame(p, x) \in Frames' <=> Frame(p, x) \in Frames
                          /\ Ending(x)' <=> Ending(x)
             /\ x = It => /\ \A p \in Fin : Frame(p, x) \in Frames' <=> p = q
                          /\ Ending(x)'
  BY <1>f DEF Moved, Ending
<1>6. CASE Finish
  <2>1. /\ In("finish") /\ UNCHANGED <<grp, cancelled, int1>> /\ It \in Nodes
        /\ x # It => stage'[x] = stage[x]
    BY <1>0, <1>6, AtPlace DEF Finish, links, fields, Fin
  <2>2. CASE It \in cancelled
    <3>1. Moved(It, "dec") /\ stage'[It] = "taken"
      BY <1>0, <1>6, <2>1, <2>2, GotoMoves DEF Finish, EIO_CANCELLED, Fin
    <3> QED BY <1>b, <1>f, <2>1, <2>2, <3>1 DEF Fin
  <2>3. CASE It \notin cancelled
    <3>1. Moved(It, "callback") /\ stage'[It] = "finishing"
      BY <1>0, <1>6, <2>1, <2>3, GotoMoves DEF Finish, EIO_CANCELLED, Fin
    <3> QED BY <1>b, <1>f, <2>1, <3>1 DEF Fin
  <2> QED BY <2>2, <2>3
<1>7. ASSUME NEW r \in CbResults, CallbackReturn(r) PROVE M(x)'
  <2>1. In("callback") /\ Goto("dec") /\ UNCHANGED <<stage, grp, cancelled, int1>>
    BY <1>7 DEF CallbackReturn, links, fields
  <2>2. Moved(It, "dec") /\ Frame("callback", It) \in Frames
    BY <1>0, <2>1, GotoMoves, AtPlace DEF Fin
  <2> QED BY <1>b, <1>f, <2>1, <2>2 DEF Fin
<1>8. CASE Unlink
  <2>1. In("dec") /\ UNCHANGED <<stage, grp, cancelled, int1>> /\ Frame("dec", It) \in Frames
    BY <1>0, <1>8, AtPlace DEF Unlink, links, fields, Fin
  <2>2. CASE grp[It] = None
    <3>1. Moved(It, "destroy")
      BY <1>8, <2>1, <2>2, GotoMoves DEF Unlink, Fin
    <3> QED BY <1>b, <1>f, <2>1, <3>1 DEF Fin
  <2>3. CASE grp[It] # None
    <3>1. Moved(It, "decd")
      BY <1>8, <2>1, <2>3, UnlinkMember, FeedMoves DEF Unlink, Refill
    <3> QED BY <1>b, <1>f, <2>1, <2>3, <3>1 DEF Fin
  <2> QED BY <2>2, <2>3
<1>9. CASE FinishGroup
  <2>1. In("decd") /\ UNCHANGED <<stage, grp, cancelled, int1>> /\ Frame("decd", It) \in Frames
    BY <1>0, <1>9, AtPlace DEF FinishGroup, links, fields, Fin
  <2>2. CASE ~WasLast(grp[It])
    <3>1. Moved(It, "destroy")
      BY <1>9, <2>1, <2>2, GotoMoves DEF FinishGroup, Fin
    <3> QED BY <1>b, <1>f, <2>1, <3>1 DEF Fin
  <2>3. CASE WasLast(grp[It])
    <3> DEFINE g == grp[It]
    <3>1. /\ g \in Grps /\ Live(g) /\ ~Ending(g) /\ It # g
          /\ \A p \in Fin, y \in Nodes : Frame(p, y) \in Frames' <=>
               IF y = It THEN p = "destroy"
               ELSE IF y = g THEN p = "finish" ELSE Frame(p, y) \in Frames
      BY <1>9, <2>1, <2>3, GroupMoves DEF FinishGroup
    <3>2. g \in Nodes /\ g \notin Reqs /\ int1[g]
      BY <1>0, <2>3, <3>1 DEF Nodes, WasLast
    <3> HIDE DEF g
    <3>3. stage[g] = "delayed"
      BY <1>0, <3>1, <3>2 DEF Marked, Live, Stages
    <3>4. CASE x = It
      <4>1. (\A p \in Fin : Frame(p, x) \in Frames' <=> p = "destroy") /\ Ending(x)'
        BY <3>1, <3>4 DEF Ending, Fin
      <4> QED BY <1>b, <2>1, <3>4, <4>1 DEF Fin
    <3>5. CASE x = g
      <4>1. (\A p \in Fin : Frame(p, x) \in Frames' <=> p = "finish") /\ Ending(x)'
        BY <3>1, <3>5 DEF Ending, Fin
      <4> QED BY <1>b, <2>1, <3>1, <3>3, <3>5, <4>1 DEF Fin
    <3>6. CASE x # It /\ x # g
      <4>1. /\ \A p \in Fin : Frame(p, x) \in Frames' <=> Frame(p, x) \in Frames
            /\ Ending(x)' <=> Ending(x)
        BY <3>1, <3>6 DEF Ending
      <4> QED BY <1>b, <2>1, <4>1 DEF Fin
    <3> QED BY <3>4, <3>5, <3>6
  <2> QED BY <2>2, <2>3
<1>10. CASE Destroy
  <2>1. \A p \in Fin : Frame(p, x) \in Frames' <=> x # It /\ Frame(p, x) \in Frames
    BY <1>10, DestroyGrp
  <2>2. /\ stage'[x] = IF x = It THEN "free" ELSE stage[x]
        /\ grp'[x] = IF x = It THEN None ELSE grp[x]
        /\ cancelled' = cancelled \ {It}
    BY <1>0, <1>10, DestroyFields
  <2>3. x # It /\ x \in Grps => int1'[x] = int1[x]
    BY <1>0, <1>10, DestroyFields
  <2>4. CASE x = It
    BY <2>1, <2>2, <2>4 DEF Fin
  <2>5. CASE x # It
    <3>1. Ending(x)' <=> Ending(x)
      BY <2>1, <2>5 DEF Ending
    <3> QED BY <1>b, <2>1, <2>2, <2>3, <2>5, <3>1 DEF Fin
  <2> QED BY <2>4, <2>5
<1> QED
  BY <1>1, <1>2, <1>3, <1>4, <1>5, <1>6, <1>7, <1>8, <1>9, <1>10 DEF Next, User, Library, UserReturns

(* A group's members come by eio_grp_add, leave in eio_finish, and no      *)
(* other step changes who they are.                                        *)
LEMMA MembersMoved ==
  ASSUME NEW x, NEW q \in Fin, Moved(x, q), UNCHANGED grp
  PROVE  \A g \in Grps : Members(g)' =
           {m \in Nodes : /\ grp[m] = g
                          /\ IF m = x THEN q \notin {"decd", "destroy"} ELSE m \in Members(g)}
BY DEF Moved, Members, Fin

LEMMA UserFinishesNone ==
  ASSUME GInv, UserCode, NEW x \in Nodes, stage[x] \in {"queued", "running", "done", "delayed"}
  PROVE  ~Ending(x)
<1>1. TypeOK /\ Stacked /\ Marked
  BY DEF GInv
<1>2. Frame("finish", x) \notin Frames
  BY <1>1, NotInnermost DEF UserCode, UserPlaces
<1> QED BY <1>1, <1>2 DEF Marked, Ending, Fin

LEMMA MembersAdd ==
  ASSUME GInv, NEW h \in Grps, NEW y \in Nodes, Add(h, y)
  PROVE  /\ \A g \in Grps : Members(g)' = IF g = h THEN Members(g) \union {y} ELSE Members(g)
         /\ \A g \in Grps : y \notin Members(g)
<1>1. /\ UNCHANGED stack /\ grp[y] = None /\ grp' = [grp EXCEPT ![y] = h]
      /\ UserCode /\ stage[y] \in {"queued", "running", "done", "delayed"}
      /\ grp \in [Nodes -> Grps \union {None}] /\ None \notin Grps
  BY GroupAssumption DEF Add, GInv, TypeOK
<1>2. Frames' = Frames
  BY <1>1 DEF Frames
<1>3. Frame("decd", y) \notin Frames /\ Frame("destroy", y) \notin Frames
  BY <1>1, UserFinishesNone DEF Ending, Fin
<1>4. \A g \in Grps : y \notin Members(g)
  BY <1>1 DEF Members
<1>5. ASSUME NEW g \in Grps
      PROVE  Members(g)' = IF g = h THEN Members(g) \union {y} ELSE Members(g)
  BY <1>1, <1>2, <1>3 DEF Members
<1> QED BY <1>4, <1>5

LEMMA MembersUnlink ==
  ASSUME GInv, Unlink, grp[It] # None
  PROVE  \A g \in Grps : Members(g)' = Members(g) \ {It}
<1>1. In("dec") /\ UNCHANGED grp /\ "decd" \in Fin
  BY DEF Unlink, Fin
<1>2. Moved(It, "decd")
  BY <1>1, UnlinkMember, FeedMoves DEF Unlink, Refill
<1>3. ASSUME NEW g \in Grps PROVE Members(g)' = Members(g) \ {It}
  <2>1. Members(g)' = {m \in Nodes : /\ grp[m] = g
                          /\ IF m = It THEN "decd" \notin {"decd", "destroy"} ELSE m \in Members(g)}
    BY <1>1, <1>2, MembersMoved
  <2> QED BY <2>1 DEF Members
<1> QED BY <1>3

LEMMA MembersElse ==
  ASSUME GInv, Next, ~\E g \in Grps, x \in Nodes : Add(g, x), ~(Unlink /\ grp[It] # None)
  PROVE  \A g \in Grps : Members(g)' = Members(g)
<1>0. TypeOK /\ Stacked /\ None \notin Grps /\ grp \in [Nodes -> Grps \union {None}]
  BY GroupAssumption DEF GInv, TypeOK
<1>a. UNCHANGED <<stack, grp>> => \A g \in Grps : Members(g)' = Members(g)
  BY DEF Frames, Members
<1>1. CASE \/ \E g \in Grps, n \in Limits : Limit(g, n)
           \/ \E y \in Nodes : Cancel(y)
           \/ Poll \/ PollEmpty \/ Polled \/ TryFeed \/ FeederReturn \/ CancelMember
  BY <1>1, AsideStep DEF Aside, links, Members, Fin
<1>2. ASSUME NEW r \in Reqs, Work(r) PROVE \A g \in Grps : Members(g)' = Members(g)
  BY <1>2, <1>a DEF Work, links
<1>3. ASSUME NEW y \in Nodes, Submit(y) PROVE \A g \in Grps : Members(g)' = Members(g)
  BY <1>3, <1>a DEF Submit, links
<1>4. ASSUME NEW y \in Nodes, PollTake(y) PROVE \A g \in Grps : Members(g)' = Members(g)
  <2>1. In("poll") /\ UNCHANGED grp /\ (UNCHANGED stack \/ CallThen("finish", y, "polled"))
    BY <1>4 DEF PollTake, links
  <2>2. CASE CallThen("finish", y, "polled")
    <3>1. Moved(y, "finish") /\ \A p \in Fin, x \in Nodes : Frame(p, x) \notin Frames
      BY <2>1, <2>2, TakeMoves
    <3>2. \A g \in Grps : Members(g)' =
           {m \in Nodes : grp[m] = g /\ IF m = y THEN "finish" \notin {"decd", "destroy"} ELSE m \in Members(g)}
      BY <2>1, <3>1, MembersMoved DEF Fin
    <3> QED BY <3>1, <3>2 DEF Members, Fin
  <2> QED BY <2>1, <2>2, <1>a
<1>5. ASSUME NEW p \in {"finish", "callback"}, NEW q \in {"callback", "dec"}, In(p), Goto(q), UNCHANGED grp
      PROVE  \A g \in Grps : Members(g)' = Members(g)
  <2>1. Moved(It, q) /\ p \in Fin /\ q \in Fin
    BY <1>5, GotoMoves DEF Fin
  <2>2. \A r \in Fin : Frame(r, It) \in Frames <=> r = p
    BY <1>0, <1>5, <2>1, AtPlace
  <2>3. \A g \in Grps : Members(g)' =
           {m \in Nodes : grp[m] = g /\ IF m = It THEN q \notin {"decd", "destroy"} ELSE m \in Members(g)}
    BY <1>5, <2>1, MembersMoved
  <2> QED BY <2>2, <2>3 DEF Members, Fin
<1>6. CASE Finish
  BY <1>5, <1>6 DEF Finish, links
<1>7. ASSUME NEW r \in CbResults, CallbackReturn(r) PROVE \A g \in Grps : Members(g)' = Members(g)
  BY <1>5, <1>7 DEF CallbackReturn, links
<1>8. CASE Unlink
  <2>1. In("dec") /\ grp[It] = None /\ Goto("destroy") /\ UNCHANGED grp
    BY <1>8 DEF Unlink, links
  <2>2. Moved(It, "destroy")
    BY <2>1, GotoMoves DEF Fin
  <2>3. \A g \in Grps : Members(g)' =
           {m \in Nodes : grp[m] = g /\ IF m = It THEN "destroy" \notin {"decd", "destroy"} ELSE m \in Members(g)}
    BY <2>1, <2>2, MembersMoved DEF Fin
  <2> QED BY <1>0, <2>1, <2>3 DEF Members
<1>9. CASE FinishGroup
  <2>1. In("decd") /\ UNCHANGED grp
    BY <1>9 DEF FinishGroup, links
  <2>2. \A r \in Fin : Frame(r, It) \in Frames <=> r = "decd"
    BY <1>0, <2>1, AtPlace DEF Fin
  <2>3. CASE ~WasLast(grp[It])
    <3>1. Moved(It, "destroy")
      BY <1>9, <2>1, <2>3, GotoMoves DEF FinishGroup, Fin
    <3>2. \A g \in Grps : Members(g)' =
           {m \in Nodes : grp[m] = g /\ IF m = It THEN "destroy" \notin {"decd", "destroy"} ELSE m \in Members(g)}
      BY <2>1, <3>1, MembersMoved DEF Fin
    <3> QED BY <2>2, <3>2 DEF Members, Fin
  <2>4. CASE WasLast(grp[It])
    <3>1. /\ ~Ending(grp[It])
          /\ \A p \in Fin, y \in Nodes : Frame(p, y) \in Frames' <=>
               IF y = It THEN p = "destroy"
               ELSE IF y = grp[It] THEN p = "finish" ELSE Frame(p, y) \in Frames
      BY <1>9, <2>1, <2>4, GroupMoves DEF FinishGroup
    <3>2. \A p \in Fin : Frame(p, grp[It]) \notin Frames
      BY <3>1 DEF Ending
    <3> QED BY <2>1, <2>2, <3>1, <3>2 DEF Members, Fin
  <2> QED BY <2>3, <2>4
<1>10. CASE Destroy
  <2>1. /\ \A p \in Fin, y \in Nodes : Frame(p, y) \in Frames' <=> y # It /\ Frame(p, y) \in Frames
        /\ \A y \in Nodes : grp'[y] = IF y = It THEN None ELSE grp[y]
    BY <1>10, DestroyGrp
  <2>2. Frame("destroy", It) \in Frames
    BY <1>0, <1>10, AtPlace DEF Destroy, Fin
  <2> QED BY <1>0, <2>1, <2>2 DEF Members, Fin
<1> QED
  BY <1>1, <1>2, <1>3, <1>4, <1>6, <1>7, <1>8, <1>9, <1>10 DEF Next, User, Library, UserReturns

LEMMA FreshKept ==
  ASSUME GInv, Next
  PROVE  Fresh'
<1>0. TypeOK /\ Fresh /\ stage \in [Nodes -> Stages] /\ grp \in [Nodes -> Grps \union {None}]
      /\ grp_first \in [Grps -> Nodes \union {None}] /\ size \in [Grps -> Nat]
      /\ int1 \in [Grps -> BOOLEAN] /\ feed \in [Grps -> BOOLEAN] /\ Grps \subseteq Nodes
  BY DEF GInv, TypeOK, Nodes
<1> DEFINE Blank(x) == /\ grp[x] = None
                       /\ x \in Grps => grp_first[x] = None /\ size[x] = 0 /\ ~int1[x] /\ ~feed[x]
<1>a. SUFFICES ASSUME NEW x \in Nodes, stage'[x] = "free" PROVE Blank(x)'
  BY DEF Fresh
<1>b. stage[x] = "free" => Blank(x)
  BY <1>0 DEF Fresh
<1>1. ASSUME NEW g \in Grps, NEW n \in Limits, Limit(g, n) PROVE Blank(x)'
  <2>1. stage[x] = "free" /\ x # g
    BY <1>a, <1>1 DEF Limit, Open
  <2> QED BY <1>0, <1>1, <1>b, <2>1 DEF Limit, links
<1>2. CASE \/ \E y \in Nodes : Cancel(y) \/ Submit(y)
           \/ Poll \/ PollEmpty \/ Polled \/ TryFeed \/ CancelMember \/ FinishGroup
  <2>1. UNCHANGED <<links, int1, feed>>
    BY <1>2 DEF Cancel, Submit, Poll, PollEmpty, Polled, TryFeed, CancelMember, FinishGroup, fields
  <2>2. stage[x] = "free"
    <3>1. ASSUME NEW y \in Nodes, Submit(y) PROVE stage[x] = "free"
      BY <1>0, <1>a, <3>1 DEF Submit
    <3>2. CASE \/ \E y \in Nodes : Cancel(y)
               \/ Poll \/ PollEmpty \/ Polled \/ TryFeed \/ CancelMember \/ FinishGroup
      BY <1>a, <3>2 DEF Cancel, Poll, PollEmpty, Polled, TryFeed, CancelMember, FinishGroup
    <3> QED BY <1>2, <3>1, <3>2
  <2> QED BY <1>b, <2>1, <2>2 DEF links
<1>3. ASSUME NEW r \in Reqs, Work(r) PROVE Blank(x)'
  <2>1. stage[x] = "free"
    BY <1>0, <1>a, <1>3 DEF Work, Nodes
  <2> QED BY <1>3, <1>b, <2>1 DEF Work, links, fields
<1>4. ASSUME NEW h \in Grps, NEW y \in Nodes, Add(h, y) PROVE Blank(x)'
  <2>1. stage[x] = "free" /\ x # h /\ x # y
    BY <1>a, <1>4 DEF Add, Open
  <2> QED BY <1>0, <1>4, <1>b, <2>1 DEF Add, Count
<1>5. ASSUME NEW y \in Nodes, PollTake(y) PROVE Blank(x)'
  <2>1. stage[y] = "done"
    BY <1>5 DEF PollTake, GInv, FinishedOnce
  <2>2. stage[x] = "free" /\ x # y
    BY <1>0, <1>a, <1>5, <2>1 DEF PollTake
  <2> QED BY <1>0, <1>5, <1>b, <2>2 DEF PollTake, Delay, links
<1>6. CASE Finish
  <2>1. stage[x] = "free"
    BY <1>0, <1>a, <1>6 DEF Finish
  <2> QED BY <1>6, <1>b, <2>1 DEF Finish, links, fields
<1>7. ASSUME NEW r \in CbResults, CallbackReturn(r) PROVE Blank(x)'
  BY <1>7, <1>a, <1>b DEF CallbackReturn, links, fields
<1>8. CASE Unlink
  <2>1. stage[x] = "free"
    BY <1>8, <1>a DEF Unlink
  <2>2. CASE grp[It] = None
    BY <1>8, <1>b, <2>1, <2>2 DEF Unlink, links, fields
  <2>3. CASE grp[It] # None
    <3>1. grp[It] \in Grps /\ Live(grp[It])
      BY <1>8, <2>3, UnlinkMember DEF Unlink
    <3>2. x # grp[It]
      BY <2>1, <3>1 DEF Live
    <3> QED BY <1>0, <1>8, <1>b, <2>1, <2>3, <3>1, <3>2 DEF Unlink, Behead, fields
  <2> QED BY <2>2, <2>3
<1>9. CASE FeederReturn
  BY <1>0, <1>9, <1>a, <1>b DEF FeederReturn, links
<1>10. CASE Destroy
  <2>1. /\ stage' = [y \in Nodes |-> IF y = It THEN "free" ELSE stage[y]]
        /\ grp' = [y \in Nodes |-> IF y = It THEN None ELSE grp[y]]
    BY <1>0, <1>10, DestroyFields
  <2>2. /\ grp_first' = [g \in Grps |-> IF g = It THEN None ELSE grp_first[g]]
        /\ size' = [g \in Grps |-> IF g = It THEN 0 ELSE size[g]]
        /\ int1' = [g \in Grps |-> IF g = It THEN FALSE ELSE int1[g]]
        /\ feed' = [g \in Grps |-> IF g = It THEN FALSE ELSE feed[g]]
    BY <1>0, <1>10, DestroyFields
  <2>3. CASE x = It
    BY <2>1, <2>2, <2>3
  <2>4. CASE x # It
    <3>1. stage[x] = "free"
      BY <1>a, <2>1, <2>4
    <3> QED BY <1>b, <2>1, <2>2, <2>4, <3>1
  <2> QED BY <2>3, <2>4
<1> QED
  BY <1>1, <1>2, <1>3, <1>4, <1>5, <1>6, <1>7, <1>8, <1>9, <1>10 DEF Next, User, Library, UserReturns

LEMMA OnceKept ==
  ASSUME GInv, Next
  PROVE  FinishedOnce'
<1>0. TypeOK /\ Stacked /\ Marked /\ FinishedOnce /\ stage \in [Nodes -> Stages]
  BY DEF GInv, TypeOK
<1>a. SUFFICES ASSUME NEW x \in Nodes PROVE x \in res_queue' <=> stage'[x] = "done"
  BY DEF FinishedOnce
<1>b. x \in res_queue <=> stage[x] = "done"
  BY <1>0 DEF FinishedOnce
<1>1. CASE \/ \E g \in Grps, n \in Limits : Limit(g, n)
           \/ \E y \in Nodes : Cancel(y)
           \/ Poll \/ PollEmpty \/ Polled \/ TryFeed \/ FeederReturn \/ CancelMember
  BY <1>1, <1>b, AsideStep DEF Aside
<1>2. CASE \/ \E g \in Grps, y \in Nodes : Add(g, y)
           \/ \E r \in CbResults : CallbackReturn(r)
           \/ Unlink \/ FinishGroup
  BY <1>2, <1>b DEF Add, CallbackReturn, Unlink, FinishGroup
<1>3. ASSUME NEW r \in Reqs, Work(r) PROVE x \in res_queue' <=> stage'[x] = "done"
  BY <1>0, <1>b, <1>3 DEF Work, Nodes
<1>4. ASSUME NEW y \in Nodes, Submit(y) PROVE x \in res_queue' <=> stage'[x] = "done"
  BY <1>0, <1>b, <1>4 DEF Submit
<1>5. ASSUME NEW y \in Nodes, PollTake(y) PROVE x \in res_queue' <=> stage'[x] = "done"
  BY <1>0, <1>b, <1>5 DEF PollTake
<1>6. ASSUME NEW p \in {"finish", "destroy"}, In(p) PROVE It \in Nodes /\ stage[It] # "done"
  BY <1>0, <1>6, AtPlace DEF Marked, Fin
<1>7. CASE Finish
  <2>1. stage[It] # "done" /\ It \in Nodes /\ stage'[It] # "done" /\ UNCHANGED res_queue
        /\ (x # It => stage'[x] = stage[x])
    BY <1>0, <1>6, <1>7 DEF Finish
  <2> QED BY <1>b, <2>1
<1>8. CASE Destroy
  <2>1. stage' = [y \in Nodes |-> IF y = It THEN "free" ELSE stage[y]] /\ UNCHANGED res_queue
        /\ In("destroy")
    BY <1>0, <1>8, DestroyFields DEF Destroy
  <2> QED BY <1>6, <1>b, <2>1
<1> QED
  BY <1>1, <1>2, <1>3, <1>4, <1>5, <1>7, <1>8 DEF Next, User, Library, UserReturns

(* When eio_destroy has freed a group, the request that was the last to    *)
(* leave it is the next to be destroyed.                                   *)
LEMMA DestroyNext ==
  ASSUME GInv, Destroy, NEW x \in Nodes, x # It, grp[x] = It, Frame("destroy", x) \in Frames
  PROVE  stack' # << >> /\ Head(stack') = Frame("destroy", x)
<1> DEFINE n == Len(stack)
<1>1. /\ TypeOK /\ Stacked /\ stack \in Seq(FrameType) /\ "destroy" \in Fin /\ In("destroy")
      /\ stack' = Tail(stack)
  BY StackTyped DEF GInv, Fin, Destroy, Return
<1>2. /\ stack # << >> /\ Head(stack).at = "destroy" /\ stack[1] = Head(stack) /\ It = stack[1].req
      /\ n \in Nat \ {0}
  BY <1>1, AtPlace, FramesTop DEF It
<1>3. PICK j \in 1..n : stack[j] = Frame("destroy", x)
  BY DEF Frames
<1>4. stack[j].at = "destroy" /\ stack[j].req = x
  BY <1>3, FrameEqual
<1> DEFINE k == j - 1
<1>5. j # 1
  BY <1>2, <1>4
<1>6. j \in 2..n /\ k \in 1..n /\ 1 \in 1..n /\ (k = 1 \/ 1 < k) /\ j = k + 1
  BY <1>2, <1>5
<1>7. stack[k].at \in Fin /\ stack[k].req = It
  BY <1>1, <1>4, <1>6 DEF Stacked, Waiting
<1> HIDE DEF k
<1>8. k = 1
  <2>1. 1 < k => stack[1].req # stack[k].req
    BY <1>1, <1>2, <1>6, <1>7 DEF Stacked, OneFinish
  <2> QED BY <1>2, <1>6, <1>7, <2>1
<1>9. j = 2 /\ n > 1
  BY <1>6, <1>8
<1>10. /\ stack' \in Seq(FrameType) /\ Len(stack') = n - 1
       /\ \A i \in 1..n - 1 : stack'[i] = stack[i+1]
  BY <1>1, <1>2, Popped
<1> HIDE DEF n
<1>11. 1 \in 1..n - 1 /\ 1 + 1 = 2
  BY <1>2, <1>9
<1>12. stack'[1] = stack[2] /\ Len(stack') # 0
  BY <1>10, <1>11
<1>13. stack' # << >> /\ Head(stack') = stack'[1]
  BY <1>10, <1>12, HeadFirst
<1> QED BY <1>3, <1>9, <1>12, <1>13

LEMMA BelongKept ==
  ASSUME GInv, Next
  PROVE  Belong'
<1>0. /\ TypeOK /\ Stacked /\ Marked /\ Belong /\ Linked /\ Reqs \intersect Grps = {} /\ None \notin Grps
      /\ stage \in [Nodes -> Stages] /\ grp \in [Nodes -> Grps \union {None}] /\ Grps \subseteq Nodes
      /\ size \in [Grps -> Nat]
  BY GroupAssumption DEF GInv, TypeOK, Nodes
<1> DEFINE B(x) == grp[x] # None =>
             \/ Live(grp[x]) /\ (Ending(grp[x]) => Frame("destroy", x) \in Frames)
             \/ stack # << >> /\ Head(stack) = Frame("destroy", x)
<1>a. SUFFICES ASSUME NEW x \in Nodes PROVE B(x)'
  BY DEF Belong
<1>b. B(x)
  BY <1>0 DEF Belong
<1>c. grp[x] # None => grp[x] \in Grps /\ grp[x] \in Nodes
  BY <1>0
<1>d. UNCHANGED stack => Frames' = Frames /\ \A y : Ending(y)' <=> Ending(y)
  BY DEF Frames, Ending
<1>e. \A p, y : Frame(p, y) = Frame("destroy", x) => p = "destroy" /\ y = x
  BY FrameEqual
<1>f. Frame("destroy", x).at = "destroy"
  BY FrameEqual
<1>1. CASE \/ \E g \in Grps, n \in Limits : Limit(g, n)
           \/ \E y \in Nodes : Cancel(y)
           \/ Poll \/ PollEmpty \/ Polled \/ TryFeed \/ FeederReturn \/ CancelMember
  <2>1. Aside
    BY <1>1, AsideStep
  <2>2. /\ UNCHANGED <<stage, grp>> /\ (stack # << >> => Head(stack) # Frame("destroy", x))
        /\ Frame("destroy", x) \in Frames' <=> Frame("destroy", x) \in Frames
    BY <1>f, <2>1 DEF Aside, links, Fin
  <2>3. \A y \in Nodes : Ending(y)' <=> Ending(y)
    BY <2>1, EndingSame
  <2> QED BY <1>b, <1>c, <2>2, <2>3 DEF Live
<1>2. ASSUME NEW r \in Reqs, Work(r) PROVE B(x)'
  <2>1. UNCHANGED <<stack, grp>> /\ \A y \in Nodes : Live(y) => Live(y)'
    BY <1>0, <1>2 DEF Work, links, Live
  <2> QED BY <1>b, <1>c, <1>d, <2>1
<1>3. ASSUME NEW y \in Nodes, Submit(y) PROVE B(x)'
  <2>1. UNCHANGED <<stack, grp>> /\ \A z \in Nodes : Live(z) => Live(z)'
    BY <1>0, <1>3 DEF Submit, links, Live
  <2> QED BY <1>b, <1>c, <1>d, <2>1
<1>4. ASSUME NEW h \in Grps, NEW y \in Nodes, Add(h, y) PROVE B(x)'
  <2>1. /\ UNCHANGED <<stack, stage>> /\ UserCode /\ stage[h] \in {"done", "delayed"} /\ h \in Nodes
        /\ grp'[x] = IF x = y THEN h ELSE grp[x]
    BY <1>0, <1>4 DEF Add, Open
  <2>2. Live(h) /\ ~Ending(h)
    BY <2>1, UserFinishesNone DEF Live
  <2> QED BY <1>b, <1>c, <1>d, <2>1, <2>2 DEF Live
<1>5. ASSUME NEW y \in Nodes, PollTake(y) PROVE B(x)'
  <2>1. /\ In("poll") /\ UNCHANGED grp /\ stage[y] = "done" /\ \A z \in Nodes : Live(z) => Live(z)'
        /\ (UNCHANGED stack \/ (~HasMembers(y) /\ CallThen("finish", y, "polled")))
    BY <1>0, <1>5 DEF PollTake, links, GInv, FinishedOnce, Live
  <2>2. stack # << >> /\ Head(stack) # Frame("destroy", x)
    BY <1>f, <2>1 DEF In
  <2>3. CASE UNCHANGED stack
    BY <1>b, <1>c, <1>d, <2>1, <2>2, <2>3
  <2>4. CASE ~HasMembers(y) /\ CallThen("finish", y, "polled")
    <3>1. Moved(y, "finish") /\ \A p \in Fin, z \in Nodes : Frame(p, z) \notin Frames
      BY <2>1, <2>4, TakeMoves
    <3>2. SUFFICES ASSUME grp[x] # None PROVE Live(grp[x])' /\ ~Ending(grp[x])'
      BY <2>1
    <3>3. Live(grp[x])'
      BY <1>b, <1>c, <2>1, <2>2, <3>2
    <3>4. grp[x] # y
      <4> SUFFICES ASSUME grp[x] = y PROVE FALSE
        OBVIOUS
      <4>1. y \in Grps /\ Live(y) /\ size[y] = 0
        BY <1>0, <1>c, <2>1, <2>4, <3>2 DEF HasMembers, Live
      <4>2. Members(y) = {}
        BY <1>0, <4>1, ListFacts
      <4> QED BY <3>1, <4>2 DEF Members, Fin
    <3>5. ~Ending(grp[x])'
      BY <1>c, <2>1, <3>1, <3>2, <3>4 DEF Moved, Ending
    <3> QED BY <3>3, <3>5
  <2> QED BY <2>1, <2>3, <2>4
<1>g. ASSUME NEW p \in Fin \ {"destroy"}, NEW q \in Fin, In(p), Moved(It, q), UNCHANGED grp,
             \A z \in Nodes : Live(z) => Live(z)'
      PROVE  B(x)'
  <2>1. /\ It \in Nodes /\ Head(stack) = Frame(p, It) /\ Frame(p, It) \in Frames
        /\ \A r \in Fin : Frame(r, It) \in Frames <=> r = p
    BY <1>0, <1>g, AtPlace
  <2>2. Head(stack) # Frame("destroy", x)
    BY <1>e, <2>1
  <2>3. \A y \in Nodes : Ending(y)' <=> Ending(y)
    BY <1>g, <2>1 DEF Moved, Ending
  <2>4. Frame("destroy", x) \in Frames => Frame("destroy", x) \in Frames'
    BY <1>g, <2>1 DEF Moved, Fin
  <2> QED BY <1>b, <1>c, <1>g, <2>2, <2>3, <2>4
<1>6. CASE Finish
  <2>1. In("finish") /\ UNCHANGED grp /\ \A z \in Nodes : Live(z) => Live(z)'
    BY <1>0, <1>6 DEF Finish, links, Live
  <2>2. Moved(It, "dec") \/ Moved(It, "callback")
    BY <1>6, <2>1, GotoMoves DEF Finish, Fin
  <2> QED BY <1>g, <2>1, <2>2 DEF Fin
<1>7. ASSUME NEW r \in CbResults, CallbackReturn(r) PROVE B(x)'
  <2>1. In("callback") /\ Goto("dec") /\ UNCHANGED <<stage, grp>>
    BY <1>7 DEF CallbackReturn, links
  <2>2. Moved(It, "dec")
    BY <2>1, GotoMoves DEF Fin
  <2> QED BY <1>g, <2>1, <2>2 DEF Fin, Live
<1>8. CASE Unlink
  <2>1. In("dec") /\ UNCHANGED <<stage, grp>>
    BY <1>8 DEF Unlink, links
  <2>2. CASE grp[It] = None
    <3>1. Moved(It, "destroy")
      BY <1>8, <2>1, <2>2, GotoMoves DEF Unlink, Fin
    <3> QED BY <1>g, <2>1, <3>1 DEF Fin, Live
  <2>3. CASE grp[It] # None
    <3>1. Moved(It, "decd")
      BY <1>8, <2>1, <2>3, UnlinkMember, FeedMoves DEF Unlink, Refill
    <3> QED BY <1>g, <2>1, <3>1 DEF Fin, Live
  <2> QED BY <2>2, <2>3
<1>9. CASE FinishGroup
  <2>1. In("decd") /\ UNCHANGED <<stage, grp>>
    BY <1>9 DEF FinishGroup, links
  <2>2. CASE ~WasLast(grp[It])
    <3>1. Moved(It, "destroy")
      BY <1>9, <2>1, <2>2, GotoMoves DEF FinishGroup, Fin
    <3> QED BY <1>g, <2>1, <3>1 DEF Fin, Live
  <2>3. CASE WasLast(grp[It])
    <3> DEFINE g == grp[It]
    <3>1. /\ g \in Grps /\ Live(g) /\ ~Ending(g) /\ It # g
          /\ \A p \in Fin, y \in Nodes : Frame(p, y) \in Frames' <=>
               IF y = It THEN p = "destroy"
               ELSE IF y = g THEN p = "finish" ELSE Frame(p, y) \in Frames
      BY <1>9, <2>1, <2>3, GroupMoves DEF FinishGroup
    <3>2. size[g] = 0 /\ Members(g) = {}
      BY <1>0, <2>3, <3>1, ListFacts DEF WasLast
    <3>3. /\ It \in Nodes /\ Head(stack) = Frame("decd", It)
          /\ \A r \in Fin : Frame(r, It) \in Frames <=> r = "decd"
          /\ \A q \in Fin \ {"destroy"}, y \in Nodes : y # It => Frame(q, y) \notin Frames
      BY <1>0, <2>1, AtPlace DEF Fin
    <3>4. Head(stack) # Frame("destroy", x)
      BY <1>e, <3>3
    <3> HIDE DEF g
    <3>5. SUFFICES ASSUME grp[x] # None
                   PROVE  Live(grp[x]) /\ (Ending(grp[x])' => Frame("destroy", x) \in Frames')
      BY <2>1 DEF Live
    <3>6. grp[x] \in Grps /\ grp[x] \in Nodes /\ Live(grp[x]) /\ (Ending(grp[x]) => Frame("destroy", x) \in Frames)
      BY <1>b, <1>c, <3>4, <3>5
    <3>7. CASE x = It
      BY <3>1, <3>6, <3>7 DEF Fin
    <3>8. CASE x # It /\ grp[x] = g
      <4>1. Frame("destroy", x) \in Frames
        BY <3>2, <3>3, <3>8 DEF Members, Fin
      <4>2. x # g
        BY <3>1, <4>1 DEF Ending, Fin
      <4> QED BY <3>1, <3>6, <3>8, <4>1, <4>2 DEF Fin
    <3>9. CASE x # It /\ grp[x] # g
      <4>1. Ending(grp[x])' => Ending(grp[x])
        <5>1. CASE grp[x] = It
          BY <3>3, <5>1 DEF Ending, Fin
        <5>2. CASE grp[x] # It
          BY <2>1, <3>1, <3>6, <3>9, <5>2 DEF Ending
        <5> QED BY <5>1, <5>2
      <4>2. Frame("destroy", x) \in Frames => x # g
        BY <3>1 DEF Ending, Fin
      <4>3. Frame("destroy", x) \in Frames => Frame("destroy", x) \in Frames'
        BY <3>1, <3>9, <4>2 DEF Fin
      <4> QED BY <3>6, <4>1, <4>3
    <3> QED BY <3>7, <3>8, <3>9
  <2> QED BY <2>2, <2>3
<1>10. CASE Destroy
  <2>1. /\ \A p \in Fin, y \in Nodes : Frame(p, y) \in Frames' <=> y # It /\ Frame(p, y) \in Frames
        /\ grp'[x] = IF x = It THEN None ELSE grp[x]
    BY <1>10, DestroyGrp
  <2>2. /\ It \in Nodes /\ Head(stack) = Frame("destroy", It) /\ Frame("destroy", It) \in Frames
    BY <1>0, <1>10, AtPlace DEF Destroy, Fin
  <2>3. \A y \in Nodes : y # It => stage'[y] = stage[y]
    BY <1>0, <1>10, DestroyFields
  <2>4. SUFFICES ASSUME x # It, grp[x] # None PROVE B(x)'
    BY <2>1
  <2>5. Live(grp[x]) /\ (Ending(grp[x]) => Frame("destroy", x) \in Frames)
    BY <1>b, <1>e, <2>2, <2>4
  <2>6. CASE grp[x] = It
    <3>1. Frame("destroy", x) \in Frames
      BY <2>2, <2>5, <2>6 DEF Ending, Fin
    <3> QED BY <1>10, <2>4, <2>6, <3>1, DestroyNext
  <2>7. CASE grp[x] # It
    <3>1. Live(grp[x])' /\ (Ending(grp[x])' => Ending(grp[x]))
      BY <1>c, <2>1, <2>3, <2>4, <2>5, <2>7 DEF Live, Ending
    <3>2. Frame("destroy", x) \in Frames => Frame("destroy", x) \in Frames'
      BY <2>1, <2>4 DEF Fin
    <3>3. grp'[x] = grp[x]
      BY <2>1, <2>4
    <3> QED BY <2>5, <3>1, <3>2, <3>3 DEF Ending, Live
  <2> QED BY <2>6, <2>7
<1> QED
  BY <1>1, <1>2, <1>3, <1>4, <1>5, <1>6, <1>7, <1>8, <1>9, <1>10 DEF Next, User, Library, UserReturns

(* A walk of eio_grp_cancel is always the innermost call. *)
LEMMA NoCancel ==
  ASSUME TypeOK, Stacked, stack = << >> \/ Head(stack).at # "cancel"
  PROVE  \A x : Frame("cancel", x) \notin Frames
<1> SUFFICES ASSUME NEW i \in 1..Len(stack), stack[i].at = "cancel" PROVE FALSE
  BY FrameEqual DEF Frames
<1>1. stack # << >> /\ Head(stack) = stack[1] /\ Len(stack) \in Nat \ {0}
  BY StackTyped, FramesTop
<1>2. i # 1
  BY <1>1
<1>3. 1 \in 1..Len(stack) /\ 1 < i
  BY <1>1, <1>2
<1> QED BY <1>1, <1>3 DEF Stacked, OneFinish

LEMMA NewFrames ==
  ASSUME TypeOK, Stacked
  PROVE  /\ \A p \in Places, x \in Nodes \union {None} :
              Call(p, x) => Frames' = Frames \union {Frame(p, x)}
         /\ stack # << >> => \A p \in Places :
              Goto(p) => Frames' \subseteq Frames \union {Frame(p, It)} /\ Frame(p, It) \in Frames'
         /\ stack # << >> => (Return => Frames' \subseteq Frames)
         /\ stack # << >> => \A p, q \in Places, x \in Nodes :
              CallThen(p, x, q) => /\ Frames' \subseteq Frames \union {Frame(p, x), Frame(q, It)}
                                   /\ Frame(p, x) \in Frames'
         /\ stack # << >> => \A f \in Frames : f # Head(stack) =>
              /\ \A p \in Places : Goto(p) => f \in Frames'
              /\ Return => f \in Frames'
              /\ \A p, q \in Places, x \in Nodes : CallThen(p, x, q) => f \in Frames'
<1>1. stack \in Seq(FrameType)
  BY StackTyped
<1>2. stack # << >> => Frames = {Head(stack)} \union Rest /\ It \in Nodes \union {None}
  BY <1>1, FramesTop, ItTyped
<1>3. ASSUME NEW p \in Places, NEW x \in Nodes \union {None}, Call(p, x)
      PROVE  Frames' = Frames \union {Frame(p, x)}
  BY <1>1, <1>3, FrameTyped, FramesCall DEF Call
<1>4. ASSUME stack # << >>, NEW p \in Places, Goto(p)
      PROVE  Frames' = Rest \union {Frame(p, It)}
  BY <1>1, <1>2, <1>4, FrameTyped, FramesGoto DEF Goto
<1>5. ASSUME stack # << >>, Return
      PROVE  Frames' = Rest
  BY <1>1, <1>5, FramesReturn DEF Return
<1>6. ASSUME stack # << >>, NEW p \in Places, NEW q \in Places, NEW x \in Nodes, CallThen(p, x, q)
      PROVE  Frames' = {Frame(p, x), Frame(q, It)} \union Rest
  BY <1>1, <1>2, <1>6, FrameTyped, FramesCallThen DEF CallThen
<1> QED BY <1>2, <1>3, <1>4, <1>5, <1>6

LEMMA WalkingKept ==
  ASSUME GInv, Next
  PROVE  Walking'
<1>0. /\ TypeOK /\ Stacked /\ Walking /\ Linked /\ Fresh
      /\ stage \in [Nodes -> Stages] /\ {"poll", "polled", "finish", "callback", "dec", "decd", "destroy", "feed", "feeder"} \subseteq Places
  BY DEF GInv, TypeOK, Places
<1>a. UserCode => (stack = << >> \/ Head(stack).at # "cancel")
  BY DEF UserCode, UserPlaces
<1>b. \A p, x, y : Frame("cancel", x) = Frame(p, y) => p = "cancel" /\ x = y
  BY FrameEqual
<1>c. UNCHANGED stack => Frames' = Frames
  BY DEF Frames
<1>d. ASSUME \A x : Frame("cancel", x) \notin Frames' PROVE Walking'
  BY <1>d DEF Walking
<1>1. ASSUME stack = << >> \/ Head(stack).at # "cancel",
             \/ UNCHANGED stack
             \/ \E x \in Nodes \union {None}, p \in Places \ {"cancel"} : Call(p, x)
             \/ stack # << >> /\ \E p \in Places \ {"cancel"} : Goto(p)
             \/ stack # << >> /\ Return
             \/ stack # << >> /\ \E p, q \in Places \ {"cancel"}, x \in Nodes : CallThen(p, x, q)
      PROVE  Walking'
  <2>1. \A x : Frame("cancel", x) \notin Frames
    BY <1>0, <1>1, NoCancel
  <2>2. \A x : Frame("cancel", x) \notin Frames'
    BY <1>0, <1>1, <1>b, <1>c, <2>1, NewFrames
  <2> QED BY <1>d, <2>2
<1>2. ASSUME NEW r \in Reqs, Work(r) PROVE Walking'
  <2>1. /\ UNCHANGED <<stack, grp>> /\ \A z \in Nodes : Live(z) => Live(z)'
        /\ Grps \subseteq Nodes
    BY <1>0, <1>2 DEF Work, links, Live, Nodes
  <2>2. \A g \in Grps : Members(g)' = Members(g)
    BY <2>1 DEF Members, Frames
  <2> QED BY <1>0, <1>c, <2>1, <2>2 DEF Walking
<1>3. ASSUME NEW y \in Nodes, Submit(y) PROVE Walking'
  BY <1>1, <1>3, <1>a DEF Submit
<1>4. ASSUME NEW h \in Grps, NEW y \in Nodes, Add(h, y) PROVE Walking'
  BY <1>1, <1>4, <1>a DEF Add
<1>5. ASSUME NEW g \in Grps, NEW n \in Limits, Limit(g, n) PROVE Walking'
  <2>1. UserCode /\ Call("feed", g) /\ g \in Nodes
    BY <1>5 DEF Limit, MayCall, Nodes
  <2> QED BY <1>0, <1>1, <1>a, <2>1
<1>6. ASSUME NEW y \in Nodes, Cancel(y) PROVE Walking'
  <2>1. Live(y) /\ UserCode /\ Aside
    BY <1>6, AsideStep DEF Cancel, MayCall
  <2>2. CASE First(y) = None
    BY <1>1, <1>6, <1>a, <2>1, <2>2 DEF Cancel
  <2>3. CASE First(y) # None
    <3>1. First(y) \in Members(y) /\ y \in Grps
      BY <1>0, <2>1, <2>3, ListFacts DEF First
    <3>2. First(y) \in Nodes /\ grp[First(y)] = y /\ "cancel" \in Places
      BY <3>1 DEF Members, Places
    <3>3. Frames' = Frames \union {Frame("cancel", First(y))}
      BY <1>0, <1>6, <2>3, <3>2, NewFrames DEF Cancel
    <3>4. \A x : Frame("cancel", x) \notin Frames
      BY <1>0, <1>a, <2>1, NoCancel
    <3>5. \A x : Frame("cancel", x) \in Frames' => x = First(y)
      BY <1>b, <3>3, <3>4
    <3>6. /\ UNCHANGED <<stage, grp>>
          /\ \A g \in Grps : Members(g)' = Members(g)
      BY <2>1 DEF Aside, links, Members, Fin
    <3> QED BY <2>1, <3>1, <3>2, <3>5, <3>6 DEF Walking, Live
  <2> QED BY <2>2, <2>3
<1>7. CASE CancelMember
  <2>1. In("cancel") /\ Aside
    BY <1>7, AsideStep DEF CancelMember
  <2>2. /\ It \in Nodes /\ Live(It)
        /\ grp[It] \in Grps /\ Live(grp[It])
        /\ First(It) \in Members(It) \union {None} /\ (First(It) # None => It \in Grps)
        /\ grp_next[It] \in Members(grp[It]) \union {None}
    BY <2>1, WalkFacts
  <2>3. /\ Frames' \subseteq {Frame("cancel", x) : x \in {First(It), grp_next[It]} \ {None}} \union Rest
        /\ Frames = {Frame("cancel", It)} \union Rest
    BY <1>7, CancelMemberFrames
  <2>4. /\ UNCHANGED <<stage, grp>>
        /\ \A g \in Grps : Members(g)' = Members(g)
    BY <2>1 DEF Aside, links, Members, Fin
  <2>5. ASSUME NEW x \in Nodes, Frame("cancel", x) \in Frames'
        PROVE  grp[x] \in Grps /\ Live(grp[x]) /\ x \in Members(grp[x])
    <3>1. x = First(It) \/ x = grp_next[It] \/ Frame("cancel", x) \in Frames
      BY <1>b, <2>3, <2>5
    <3>2. x # None
      BY GroupAssumption DEF Nodes
    <3>3. CASE x = First(It)
      BY <2>2, <3>2, <3>3 DEF Members
    <3>4. CASE x = grp_next[It]
      BY <2>2, <3>2, <3>4 DEF Members
    <3>5. CASE Frame("cancel", x) \in Frames
      BY <1>0, <3>5 DEF Walking
    <3> QED BY <3>1, <3>3, <3>4, <3>5
  <2> QED BY <2>4, <2>5 DEF Walking, Live
<1>8. CASE Poll
  BY <1>0, <1>1, <1>8 DEF Poll
<1>9. CASE PollEmpty
  BY <1>0, <1>1, <1>9 DEF PollEmpty, In
<1>10. CASE Polled
  BY <1>0, <1>1, <1>10 DEF Polled, In
<1>11. CASE TryFeed
  BY <1>0, <1>1, <1>11 DEF TryFeed, In
<1>12. CASE FeederReturn
  BY <1>0, <1>1, <1>12 DEF FeederReturn, In
<1>13. ASSUME NEW y \in Nodes, PollTake(y) PROVE Walking'
  BY <1>0, <1>1, <1>13 DEF PollTake, In
<1>14. CASE Finish
  BY <1>0, <1>1, <1>14 DEF Finish, In
<1>15. ASSUME NEW r \in CbResults, CallbackReturn(r) PROVE Walking'
  BY <1>0, <1>1, <1>15 DEF CallbackReturn, In
<1>16. CASE Unlink
  <2>1. stack # << >> /\ Head(stack).at # "cancel" /\ In("dec")
    BY <1>16 DEF Unlink, In
  <2>2. CASE grp[It] = None
    BY <1>0, <1>1, <1>16, <2>1, <2>2 DEF Unlink
  <2>3. CASE grp[It] # None
    <3>1. grp[It] \in Nodes /\ CallThen("feed", grp[It], "decd")
      BY <1>16, <2>1, <2>3, UnlinkMember DEF Unlink, Refill, Nodes
    <3> QED BY <1>0, <1>1, <2>1, <3>1
  <2> QED BY <2>2, <2>3
<1>17. CASE FinishGroup
  <2>1. stack # << >> /\ Head(stack).at # "cancel" /\ In("decd")
    BY <1>17 DEF FinishGroup, In
  <2>2. CASE ~WasLast(grp[It])
    BY <1>0, <1>1, <1>17, <2>1, <2>2 DEF FinishGroup
  <2>3. CASE WasLast(grp[It])
    <3>1. CallThen("finish", grp[It], "destroy") /\ UNCHANGED grp
      BY <1>17, <2>3 DEF FinishGroup, links
    <3>2. grp[It] \in Nodes
      BY <2>1, <3>1, GroupMoves DEF Nodes
    <3> QED BY <1>0, <1>1, <2>1, <3>1, <3>2
  <2> QED BY <2>2, <2>3
<1>18. CASE Destroy
  BY <1>0, <1>1, <1>18 DEF Destroy, In
<1> QED
  BY <1>2, <1>3, <1>4, <1>5, <1>6, <1>7, <1>8, <1>9, <1>10, <1>11, <1>12, <1>13, <1>14, <1>15,
     <1>16, <1>17, <1>18 DEF Next, User, Library, UserReturns

-----------------------------------------------------------------------------
(* Lists linked both ways: f is the first, prv and nxt link the members M, *)
(* n of them, in the order of l.                                           *)

IsList(M, n, f, prv, nxt, l) ==
  /\ l \in [1..n -> M]
  /\ \A m \in M : \E i \in 1..n : l[i] = m
  /\ \A i, j \in 1..n : l[i] = l[j] => i = j
  /\ f = IF n = 0 THEN None ELSE l[1]
  /\ \A i \in 1..n : /\ prv[l[i]] = IF i = 1 THEN None ELSE l[i-1]
                     /\ nxt[l[i]] = IF i = n THEN None ELSE l[i+1]

(* The links once y has come before the first, or x has left.              *)
Prepended(M, f, prv, nxt, y, prv2, nxt2) ==
  /\ prv2[y] = None /\ nxt2[y] = f
  /\ \A m \in M : prv2[m] = (IF m = f THEN y ELSE prv[m]) /\ nxt2[m] = nxt[m]

Removed(M, f, prv, nxt, x, f2, prv2, nxt2) ==
  /\ f2 = IF f = x THEN nxt[x] ELSE f
  /\ \A m \in M \ {x} : /\ prv2[m] = (IF m = nxt[x] THEN prv[x] ELSE prv[m])
                        /\ nxt2[m] = (IF m = prv[x] THEN nxt[x] ELSE nxt[m])

LEMMA ListPrepend ==
  ASSUME NEW M, NEW n \in Nat, NEW f, NEW prv, NEW nxt, NEW l,
         IsList(M, n, f, prv, nxt, l), None \notin M,
         NEW y, y \notin M, NEW prv2, NEW nxt2, Prepended(M, f, prv, nxt, y, prv2, nxt2)
  PROVE  \E k : IsList(M \union {y}, n + 1, y, prv2, nxt2, k)
<1>0. /\ prv2[y] = None /\ nxt2[y] = f
      /\ \A m \in M : prv2[m] = (IF m = f THEN y ELSE prv[m]) /\ nxt2[m] = nxt[m]
  BY DEF Prepended
<1> DEFINE k == [i \in 1..n+1 |-> IF i = 1 THEN y ELSE l[i-1]]
<1>1. /\ k \in [1..n+1 -> M \union {y}] /\ 1 \in 1..n+1 /\ k[1] = y
      /\ \A i \in 1..n : i + 1 \in 1..n+1 /\ k[i+1] = l[i] /\ l[i] \in M
  <2>1. \A i \in 1..n+1 : i # 1 => i - 1 \in 1..n
    OBVIOUS
  <2>2. \A i \in 1..n : i + 1 \in 1..n+1 /\ i + 1 # 1 /\ (i + 1) - 1 = i
    OBVIOUS
  <2>3. l \in [1..n -> M]
    BY DEF IsList
  <2>4. 1 \in 1..n+1
    OBVIOUS
  <2>5. \A i \in 1..n+1 : k[i] = IF i = 1 THEN y ELSE l[i-1]
    OBVIOUS
  <2>6. k \in [1..n+1 -> M \union {y}]
    BY <2>1, <2>3
  <2> QED BY <2>2, <2>3, <2>4, <2>5, <2>6
<1> HIDE DEF k
<1>2. ASSUME NEW i \in 1..n+1, i # 1
      PROVE  \E h \in 1..n : i = h + 1 /\ k[i] = l[h] /\ l[h] \in M
  <2>1. i - 1 \in 1..n /\ i = (i - 1) + 1
    BY <1>2
  <2> QED BY <2>1, <1>1
<1>3. \A m \in M \union {y} : \E i \in 1..n+1 : k[i] = m
  BY <1>1 DEF IsList
<1>4. ASSUME NEW i \in 1..n+1, NEW j \in 1..n+1, k[i] = k[j] PROVE i = j
  <2>1. CASE i = 1 /\ j = 1
    BY <2>1
  <2>2. CASE i = 1 /\ j # 1
    BY <2>2, <1>1, <1>2, <1>4
  <2>3. CASE i # 1 /\ j = 1
    BY <2>3, <1>1, <1>2, <1>4
  <2>4. CASE i # 1 /\ j # 1
    <3>1. PICK h1 \in 1..n : i = h1 + 1 /\ k[i] = l[h1]
      BY <2>4, <1>2
    <3>2. PICK h2 \in 1..n : j = h2 + 1 /\ k[j] = l[h2]
      BY <2>4, <1>2
    <3>3. l[h1] = l[h2]
      BY <3>1, <3>2, <1>4
    <3>4. h1 = h2
      BY <3>3 DEF IsList
    <3> QED BY <3>1, <3>2, <3>4
  <2> QED BY <2>1, <2>2, <2>3, <2>4
<1>5. y = IF n + 1 = 0 THEN None ELSE k[1]
  BY <1>1
<1>6. ASSUME NEW i \in 1..n+1
      PROVE  /\ prv2[k[i]] = IF i = 1 THEN None ELSE k[i-1]
             /\ nxt2[k[i]] = IF i = n + 1 THEN None ELSE k[i+1]
  <2>1. CASE i = 1
    <3>1. k[i] = y
      BY <1>1, <2>1
    <3>2. n = 0 => i = n + 1 /\ f = None
      BY <2>1 DEF IsList
    <3>3. n # 0 => i # n + 1 /\ 1 \in 1..n /\ i + 1 = 1 + 1
      BY <2>1
    <3>4. n # 0 => f = l[1] /\ k[i+1] = l[1]
      BY <1>1, <3>3 DEF IsList
    <3> QED BY <1>0, <2>1, <3>1, <3>2, <3>3, <3>4
  <2>2. CASE i # 1
    <3>1. PICK h \in 1..n : i = h + 1 /\ k[i] = l[h] /\ l[h] \in M
      BY <2>2, <1>2
    <3>2. /\ prv[l[h]] = IF h = 1 THEN None ELSE l[h-1]
          /\ nxt[l[h]] = IF h = n THEN None ELSE l[h+1]
      BY DEF IsList
    <3>3. l[h] = f <=> h = 1
      <4>1. 1 \in 1..n /\ n # 0
        OBVIOUS
      <4> QED BY <4>1 DEF IsList
    <3>4. prv2[k[i]] = k[i-1]
      <4>1. i - 1 = h
        BY <3>1
      <4>2. CASE h = 1
        <5>1. prv2[k[i]] = y
          BY <1>0, <3>1, <3>3, <4>2
        <5> QED BY <4>1, <4>2, <5>1, <1>1
      <4>3. CASE h # 1
        <5>1. prv2[k[i]] = l[h-1]
          BY <1>0, <3>1, <3>2, <3>3, <4>3
        <5>2. h - 1 \in 1..n /\ (h - 1) + 1 = h
          BY <4>3
        <5>3. k[h] = l[h-1]
          BY <5>2, <1>1
        <5> QED BY <4>1, <5>1, <5>3
      <4> QED BY <4>2, <4>3
    <3>5. nxt2[k[i]] = IF i = n + 1 THEN None ELSE k[i+1]
      <4>1. nxt2[k[i]] = IF h = n THEN None ELSE l[h+1]
        BY <1>0, <3>1, <3>2
      <4>2. (i = n + 1) <=> (h = n)
        BY <3>1
      <4>3. h # n => h + 1 \in 1..n /\ i + 1 = (h + 1) + 1
        BY <3>1
      <4>4. h # n => k[i+1] = l[h+1]
        BY <4>3, <1>1
      <4> QED BY <4>1, <4>2, <4>4
    <3> QED BY <2>2, <3>4, <3>5
  <2> QED BY <2>1, <2>2
<1>7. IsList(M \union {y}, n + 1, y, prv2, nxt2, k)
  BY <1>1, <1>3, <1>4, <1>5, <1>6 DEF IsList
<1> QED BY <1>7

LEMMA ListRemove ==
  ASSUME NEW M, NEW n \in Nat \ {0}, NEW f, NEW prv, NEW nxt, NEW l,
         IsList(M, n, f, prv, nxt, l), None \notin M,
         NEW x \in M, NEW f2, NEW prv2, NEW nxt2, Removed(M, f, prv, nxt, x, f2, prv2, nxt2)
  PROVE  \E s : IsList(M \ {x}, n - 1, f2, prv2, nxt2, s)
<1>0. /\ f2 = IF f = x THEN nxt[x] ELSE f
      /\ \A m \in M \ {x} : /\ prv2[m] = (IF m = nxt[x] THEN prv[x] ELSE prv[m])
                            /\ nxt2[m] = (IF m = prv[x] THEN nxt[x] ELSE nxt[m])
  BY DEF Removed
<1>1. PICK k \in 1..n : l[k] = x
  BY DEF IsList
<1> DEFINE s == [i \in 1..n-1 |-> IF i < k THEN l[i] ELSE l[i+1]]
<1>2. /\ l \in [1..n -> M]
      /\ \A i, j \in 1..n : l[i] = l[j] => i = j
      /\ \A i \in 1..n : /\ prv[l[i]] = IF i = 1 THEN None ELSE l[i-1]
                         /\ nxt[l[i]] = IF i = n THEN None ELSE l[i+1]
  BY DEF IsList
<1>3. ASSUME NEW i \in 1..n-1
      PROVE  /\ i < k => i \in 1..n /\ i # k /\ s[i] = l[i] /\ s[i] \in M \ {x}
             /\ ~(i < k) => i + 1 \in 1..n /\ i + 1 # k /\ s[i] = l[i+1] /\ s[i] \in M \ {x}
  <2>1. s[i] = IF i < k THEN l[i] ELSE l[i+1]
    OBVIOUS
  <2>2. i \in 1..n /\ i + 1 \in 1..n /\ (i < k => i # k) /\ (~(i < k) => i + 1 # k)
    OBVIOUS
  <2> QED BY <2>1, <2>2, <1>1, <1>2
<1>4. s \in [1..n-1 -> M \ {x}]
  BY <1>3
<1>5. ASSUME NEW m \in M \ {x} PROVE \E i \in 1..n-1 : s[i] = m
  <2>1. PICK j \in 1..n : l[j] = m
    BY DEF IsList
  <2>2. j # k
    BY <1>1, <2>1
  <2>3. CASE j < k
    <3>1. j \in 1..n-1
      BY <2>3
    <3> QED BY <1>3, <2>1, <2>3, <3>1
  <2>4. CASE ~(j < k)
    <3>1. j - 1 \in 1..n-1 /\ ~(j - 1 < k) /\ (j - 1) + 1 = j
      BY <2>2, <2>4
    <3> QED BY <1>3, <2>1, <3>1
  <2> QED BY <2>3, <2>4
<1> HIDE DEF s
<1>6. ASSUME NEW i \in 1..n-1, NEW j \in 1..n-1, s[i] = s[j] PROVE i = j
  <2>1. CASE i < k /\ j < k
    BY <1>2, <1>3, <1>6, <2>1
  <2>2. CASE i < k /\ ~(j < k)
    <3>1. i = j + 1
      BY <1>2, <1>3, <1>6, <2>2
    <3> QED BY <2>2, <3>1
  <2>3. CASE ~(i < k) /\ j < k
    <3>1. j = i + 1
      BY <1>2, <1>3, <1>6, <2>3
    <3> QED BY <2>3, <3>1
  <2>4. CASE ~(i < k) /\ ~(j < k)
    <3>1. i + 1 = j + 1
      BY <1>2, <1>3, <1>6, <2>4
    <3> QED BY <3>1
  <2> QED BY <2>1, <2>2, <2>3, <2>4
<1>7. /\ prv[x] = IF k = 1 THEN None ELSE l[k-1]
      /\ nxt[x] = IF k = n THEN None ELSE l[k+1]
  BY <1>1, <1>2
<1>8. f2 = IF n - 1 = 0 THEN None ELSE s[1]
  <2>1. f = l[1] /\ 1 \in 1..n
    BY DEF IsList
  <2>2. CASE k = 1
    <3>1. f2 = IF n = 1 THEN None ELSE l[2]
      BY <1>0, <1>1, <1>7, <2>1, <2>2
    <3>2. n # 1 => 1 \in 1..n-1 /\ ~(1 < k) /\ 1 + 1 = 2
      BY <2>2
    <3>3. n # 1 => s[1] = l[2]
      BY <1>3, <3>2
    <3> QED BY <3>1, <3>3
  <2>3. CASE k # 1
    <3>1. l[1] # x
      BY <1>1, <1>2, <2>1, <2>3
    <3>2. 1 \in 1..n-1 /\ 1 < k /\ n - 1 # 0
      BY <2>3
    <3>3. s[1] = l[1]
      BY <1>3, <3>2
    <3> QED BY <1>0, <2>1, <3>1, <3>2, <3>3
  <2> QED BY <2>2, <2>3
<1>9. ASSUME NEW i \in 1..n-1
      PROVE  prv2[s[i]] = IF i = 1 THEN None ELSE s[i-1]
  <2>1. s[i] \in M \ {x} /\ prv2[s[i]] = IF s[i] = nxt[x] THEN prv[x] ELSE prv[s[i]]
    BY <1>0, <1>3
  <2>2. CASE i < k
    <3>1. s[i] = l[i] /\ i \in 1..n
      BY <1>3, <2>2
    <3>2. s[i] # nxt[x]
      <4>1. k # n => k + 1 \in 1..n /\ i # k + 1
        BY <2>2
      <4>2. k # n => s[i] # l[k+1]
        BY <1>2, <3>1, <4>1
      <4> QED BY <1>7, <2>1, <4>2
    <3>3. prv2[s[i]] = IF i = 1 THEN None ELSE l[i-1]
      BY <1>2, <2>1, <3>1, <3>2
    <3>4. i # 1 => i - 1 \in 1..n-1 /\ i - 1 < k
      BY <2>2
    <3>5. i # 1 => s[i-1] = l[i-1]
      BY <1>3, <3>4
    <3> QED BY <3>3, <3>5
  <2>3. CASE i = k
    <3>1. s[i] = l[k+1] /\ k # n
      <4>1. ~(i < k) /\ i + 1 = k + 1 /\ k # n
        BY <2>3
      <4> QED BY <1>3, <4>1
    <3>2. prv2[s[i]] = IF k = 1 THEN None ELSE l[k-1]
      BY <1>7, <2>1, <3>1
    <3>3. k # 1 => i - 1 \in 1..n-1 /\ i - 1 < k /\ i - 1 = k - 1
      BY <2>3
    <3>4. k # 1 => s[i-1] = l[k-1]
      BY <1>3, <3>3
    <3> QED BY <2>3, <3>2, <3>4
  <2>4. CASE i > k
    <3> DEFINE j == i - 1
    <3>1. ~(i < k) /\ i + 1 \in 1..n /\ k + 1 # i + 1 /\ i # 1 /\ i + 1 # 1 /\ (i + 1) - 1 = i
          /\ j \in 1..n-1 /\ ~(j < k) /\ j + 1 = i
      BY <2>4
    <3>2. s[i] = l[i+1]
      BY <1>3, <3>1
    <3>3. s[i] # nxt[x]
      <4>1. k # n => k + 1 \in 1..n
        OBVIOUS
      <4>2. k # n => s[i] # l[k+1]
        BY <1>2, <3>1, <3>2, <4>1
      <4> QED BY <1>7, <2>1, <4>2
    <3>4. prv[l[i+1]] = l[i]
      BY <1>2, <3>1
    <3> HIDE DEF j
    <3>5. s[j] = l[i]
      BY <1>3, <3>1
    <3> QED BY <2>1, <3>1, <3>2, <3>3, <3>4, <3>5 DEF j
  <2> QED BY <2>2, <2>3, <2>4
<1>10. ASSUME NEW i \in 1..n-1
       PROVE  nxt2[s[i]] = IF i = n - 1 THEN None ELSE s[i+1]
  <2>1. s[i] \in M \ {x} /\ nxt2[s[i]] = IF s[i] = prv[x] THEN nxt[x] ELSE nxt[s[i]]
    BY <1>0, <1>3
  <2> DEFINE h == i + 1
  <2>a. h = i + 1 /\ h \in 1..n /\ (i # n - 1 => h \in 1..n-1) /\ h # 1
    OBVIOUS
  <2> HIDE DEF h
  <2>2. CASE h = k
    <3>1. i < k /\ k - 1 = i /\ (i = n - 1 <=> k = n) /\ k # 1 /\ ~(h < k)
      BY <2>2, <2>a
    <3>2. s[i] = l[i]
      BY <1>3, <3>1
    <3>3. nxt2[s[i]] = IF k = n THEN None ELSE l[k+1]
      BY <1>7, <2>1, <3>1, <3>2
    <3>4. i # n - 1 => s[h] = l[h+1]
      BY <1>3, <2>a, <3>1
    <3> QED BY <2>2, <2>a, <3>1, <3>3, <3>4
  <2>3. CASE h < k
    <3>1. i < k /\ i # n - 1 /\ i # n /\ i \in 1..n
      BY <2>3, <2>a
    <3>2. s[i] = l[i] /\ s[h] = l[h]
      BY <1>3, <2>3, <2>a, <3>1
    <3>3. s[i] # prv[x]
      <4>1. k # 1 => k - 1 \in 1..n /\ k - 1 # i
        BY <2>3, <2>a
      <4>2. k # 1 => s[i] # l[k-1]
        BY <1>2, <3>1, <3>2, <4>1
      <4> QED BY <1>7, <2>1, <4>2
    <3>4. nxt[l[i]] = l[h]
      BY <1>2, <2>a, <3>1
    <3> QED BY <2>1, <2>a, <3>1, <3>2, <3>3, <3>4
  <2>4. CASE h > k
    <3>1. ~(i < k) /\ ~(h < k) /\ (i = n - 1 <=> h = n)
      BY <2>4, <2>a
    <3>2. s[i] = l[h]
      BY <1>3, <2>a, <3>1
    <3>3. s[i] # prv[x]
      <4>1. k # 1 => k - 1 \in 1..n /\ k - 1 # h
        BY <2>4, <2>a
      <4>2. k # 1 => s[i] # l[k-1]
        BY <1>2, <2>a, <3>2, <4>1
      <4> QED BY <1>7, <2>1, <4>2
    <3>4. nxt[l[h]] = IF h = n THEN None ELSE l[h+1]
      BY <1>2, <2>a
    <3>5. i # n - 1 => s[h] = l[h+1]
      BY <1>3, <2>a, <3>1
    <3> QED BY <2>1, <2>a, <3>1, <3>2, <3>3, <3>4, <3>5
  <2>5. h = k \/ h < k \/ h > k
    BY <2>a
  <2> QED BY <2>2, <2>3, <2>4, <2>5
<1>11. IsList(M \ {x}, n - 1, f2, prv2, nxt2, s)
  BY <1>4, <1>5, <1>6, <1>8, <1>9, <1>10 DEF IsList
<1> QED BY <1>11


LEMMA ListSame ==
  ASSUME NEW M, NEW n, NEW f, NEW prv, NEW nxt, NEW l, IsList(M, n, f, prv, nxt, l),
         NEW prv2, NEW nxt2, \A m \in M : prv2[m] = prv[m] /\ nxt2[m] = nxt[m]
  PROVE  IsList(M, n, f, prv2, nxt2, l)
<1>1. \A i \in 1..n : l[i] \in M
  BY DEF IsList
<1> QED BY <1>1 DEF IsList

(* What Linked says of one group. *)
LinkedAt(g) ==
  \E l : IsList(Members(g), size[g], grp_first[g], grp_prev, grp_next, l)

LEMMA LinkedEach ==
  /\ Linked <=> \A g \in Grps : Live(g) => LinkedAt(g)
  /\ Linked' <=> \A g \in Grps : Live(g)' => LinkedAt(g)'
<1>1. Linked <=> \A g \in Grps : Live(g) => LinkedAt(g)
  BY DEF Linked, LinkedAt, ListOf, IsList
<1>2. Linked' <=> \A g \in Grps : Live(g)' => LinkedAt(g)'
  BY DEF Linked, LinkedAt, ListOf, IsList
<1> QED BY <1>1, <1>2

(* A step that leaves the members of a group, their links, the head and    *)
(* the count as they are leaves its list in order.                         *)
LEMMA LinkedSame ==
  ASSUME NEW g, LinkedAt(g), Members(g)' = Members(g), size'[g] = size[g], grp_first'[g] = grp_first[g],
         \A m \in Members(g) : grp_prev'[m] = grp_prev[m] /\ grp_next'[m] = grp_next[m]
  PROVE  LinkedAt(g)'
<1>1. PICK l : IsList(Members(g), size[g], grp_first[g], grp_prev, grp_next, l)
  BY DEF LinkedAt
<1>2. IsList(Members(g), size[g], grp_first[g], grp_prev', grp_next', l)
  BY <1>1, ListSame
<1> QED BY <1>2 DEF LinkedAt

LEMMA LinkedAdd ==
  ASSUME GInv, NEW h \in Grps, NEW y \in Nodes, Add(h, y), NEW g \in Grps, Live(g)
  PROVE  LinkedAt(g)'
<1>1. /\ LinkedAt(g) /\ Members(g)' = IF g = h THEN Members(g) \union {y} ELSE Members(g)
      /\ y \notin Members(g)
  BY LinkedEach, MembersAdd DEF GInv
<1>2. /\ TypeOK /\ Linked /\ Members(g) \subseteq Nodes /\ None \notin Members(g) /\ size[g] \in Nat
      /\ Live(h)
  BY GroupAssumption DEF GInv, TypeOK, Members, Nodes, Add, Open, Live
<1>3. /\ size' = [size EXCEPT ![h] = @ + 1] /\ grp_first' = [grp_first EXCEPT ![h] = y]
      /\ grp_next' = [grp_next EXCEPT ![y] = grp_first[h]]
      /\ grp_prev' = [n \in Nodes |-> IF n = y THEN None ELSE IF n = grp_first[h] THEN y ELSE grp_prev[n]]
  BY DEF Add, Count
<1>4. /\ size \in [Grps -> Nat] /\ grp_first \in [Grps -> Nodes \union {None}]
      /\ grp_next \in [Nodes -> Nodes \union {None}]
  BY <1>2 DEF TypeOK
<1>5. \A m \in Members(g) : m # y /\ grp_next'[m] = grp_next[m]
  BY <1>1, <1>2, <1>3, <1>4
<1>6. CASE g # h
  <2>1. grp_first[h] \in Members(h) \union {None}
    BY <1>2, ListFacts
  <2>2. grp_first[h] \notin Members(g)
    BY <2>1, <1>2, <1>6 DEF Members
  <2>3. \A m \in Members(g) : grp_prev'[m] = grp_prev[m]
    BY <1>2, <1>3, <1>5, <2>2
  <2>4. size'[g] = size[g] /\ grp_first'[g] = grp_first[g]
    BY <1>3, <1>4, <1>6
  <2> QED BY <1>1, <1>5, <1>6, <2>3, <2>4, LinkedSame
<1>7. CASE g = h
  <2>1. PICK l : IsList(Members(g), size[g], grp_first[g], grp_prev, grp_next, l)
    BY <1>1 DEF LinkedAt
  <2>2. size'[g] = size[g] + 1 /\ grp_first'[g] = y /\ grp_prev'[y] = None /\ grp_next'[y] = grp_first[g]
    BY <1>3, <1>4, <1>7
  <2>3. \A m \in Members(g) : /\ grp_prev'[m] = IF m = grp_first[g] THEN y ELSE grp_prev[m]
                              /\ grp_next'[m] = grp_next[m]
    BY <1>2, <1>3, <1>5, <1>7
  <2>4. Prepended(Members(g), grp_first[g], grp_prev, grp_next, y, grp_prev', grp_next')
    BY <2>2, <2>3 DEF Prepended
  <2>5. \E k : IsList(Members(g) \union {y}, size[g] + 1, y, grp_prev', grp_next', k)
    BY <1>1, <1>2, <2>1, <2>4, ListPrepend
  <2> QED BY <1>1, <1>7, <2>2, <2>5 DEF LinkedAt
<1> QED BY <1>6, <1>7

LEMMA LinkedUnlink ==
  ASSUME GInv, Unlink, grp[It] # None, NEW g \in Grps, Live(g)
  PROVE  LinkedAt(g)'
<1> DEFINE x == It
           h == grp[x]
<1>1. LinkedAt(g) /\ Members(g)' = Members(g) \ {x}
  BY LinkedEach, MembersUnlink DEF GInv
<1>2. TypeOK /\ Linked /\ Members(g) \subseteq Nodes /\ None \notin Members(g) /\ size[g] \in Nat
  BY GroupAssumption DEF GInv, TypeOK, Members, Nodes
<1>3. /\ x \in Nodes /\ h \in Grps /\ Live(h) /\ x \in Members(h) /\ size[h] \in Nat \ {0}
  BY UnlinkMember DEF Unlink
<1>4. /\ size' = [size EXCEPT ![h] = @ - 1]
      /\ grp_first' = [grp_first EXCEPT ![h] = IF @ = x THEN grp_next[x] ELSE @]
      /\ grp_prev' = [n \in Nodes |-> IF n = grp_next[x] THEN grp_prev[x] ELSE grp_prev[n]]
      /\ grp_next' = [n \in Nodes |-> IF n = grp_prev[x] THEN grp_next[x] ELSE grp_next[n]]
  BY DEF Unlink, Behead
<1>5. size \in [Grps -> Nat] /\ grp_first \in [Grps -> Nodes \union {None}]
  BY <1>2 DEF TypeOK
<1>6. /\ grp_next[x] \in Members(h) \union {None}
      /\ grp_prev[x] \in Members(h) \union {None}
  BY <1>2, <1>3, ListFacts
<1>7. CASE g # h
  <2>1. grp_next[x] \notin Members(g) /\ grp_prev[x] \notin Members(g) /\ x \notin Members(g)
    BY <1>2, <1>3, <1>6, <1>7 DEF Members
  <2>2. \A m \in Members(g) : grp_prev'[m] = grp_prev[m] /\ grp_next'[m] = grp_next[m]
    BY <1>2, <1>4, <2>1
  <2>3. size'[g] = size[g] /\ grp_first'[g] = grp_first[g]
    BY <1>4, <1>5, <1>7
  <2>4. Members(g)' = Members(g)
    BY <1>1, <2>1
  <2> QED BY <1>1, <2>2, <2>3, <2>4, LinkedSame
<1>8. CASE g = h
  <2>1. PICK l : IsList(Members(g), size[g], grp_first[g], grp_prev, grp_next, l)
    BY <1>1 DEF LinkedAt
  <2>2. /\ size'[g] = size[g] - 1
        /\ grp_first'[g] = IF grp_first[g] = x THEN grp_next[x] ELSE grp_first[g]
    BY <1>4, <1>5, <1>8
  <2>3. \A m \in Members(g) \ {x} :
          /\ grp_prev'[m] = IF m = grp_next[x] THEN grp_prev[x] ELSE grp_prev[m]
          /\ grp_next'[m] = IF m = grp_prev[x] THEN grp_next[x] ELSE grp_next[m]
    BY <1>2, <1>4
  <2>4. x \in Members(g) /\ size[g] \in Nat \ {0}
    BY <1>3, <1>8
  <2>5. \E s : IsList(Members(g) \ {x}, size[g] - 1, grp_first'[g], grp_prev', grp_next', s)
    <3>1. Removed(Members(g), grp_first[g], grp_prev, grp_next, x, grp_first'[g], grp_prev', grp_next')
      BY <2>2, <2>3 DEF Removed
    <3> HIDE DEF x, h
    <3> QED BY <1>2, <2>1, <2>4, <3>1, ListRemove
  <2> QED BY <1>1, <2>2, <2>5 DEF LinkedAt
<1> QED BY <1>7, <1>8

LEMMA LinkedKept ==
  ASSUME GInv, Next
  PROVE  Linked'
<1>0. /\ TypeOK /\ Belong /\ Fresh /\ Marked /\ Stacked
      /\ stage \in [Nodes -> Stages] /\ Grps \subseteq Nodes /\ None \notin Nodes
  BY GroupAssumption DEF GInv, TypeOK, Nodes
<1> SUFFICES ASSUME NEW g \in Grps, Live(g)' PROVE LinkedAt(g)'
  BY LinkedEach
<1>a. Live(g) => LinkedAt(g)
  BY LinkedEach DEF GInv
<1>1. ASSUME NEW h \in Grps, NEW y \in Nodes, Add(h, y) PROVE LinkedAt(g)'
  BY <1>1, LinkedAdd DEF Add, Live
<1>2. ASSUME Unlink, grp[It] # None PROVE LinkedAt(g)'
  BY <1>2, LinkedUnlink DEF Unlink, Live
<1>b. ASSUME Live(g), UNCHANGED links,
             ~\E h \in Grps, x \in Nodes : Add(h, x), ~(Unlink /\ grp[It] # None)
      PROVE  LinkedAt(g)'
  BY <1>a, <1>b, MembersElse, LinkedSame DEF links
<1>3. ASSUME NEW y \in Nodes, Submit(y) PROVE LinkedAt(g)'
  <2>1. CASE y # g
    BY <1>0, <1>1, <1>2, <1>3, <1>b, <2>1 DEF Submit, Live
  <2>2. CASE y = g
    <3>1. UserCode /\ stage[g] = "free" /\ UNCHANGED <<links, stack>>
      BY <1>3, <2>2 DEF Submit
    <3>2. size[g] = 0 /\ grp_first[g] = None
      BY <1>0, <3>1 DEF Fresh
    <3>3. ASSUME NEW m \in Nodes, grp[m] = g PROVE FALSE
      <4>1. stack # << >> /\ Head(stack) = Frame("destroy", m)
        BY <1>0, <3>1, <3>3 DEF Belong, Live
      <4> QED BY <3>1, <4>1, FrameEqual DEF UserCode, UserPlaces
    <3>4. Members(g)' = {}
      BY <3>1, <3>3 DEF Members, links
    <3>5. IsList({}, 0, None, grp_prev', grp_next', [n \in 1..0 |-> None])
      BY DEF IsList
    <3> QED BY <3>1, <3>2, <3>4, <3>5 DEF LinkedAt, links
  <2> QED BY <2>1, <2>2
<1>4. CASE Destroy
  <2>1. /\ stage' = [y \in Nodes |-> IF y = It THEN "free" ELSE stage[y]]
        /\ grp_prev' = [y \in Nodes |-> IF y = It THEN None ELSE grp_prev[y]]
        /\ grp_next' = [y \in Nodes |-> IF y = It THEN None ELSE grp_next[y]]
        /\ grp_first' = [h \in Grps |-> IF h = It THEN None ELSE grp_first[h]]
        /\ size' = [h \in Grps |-> IF h = It THEN 0 ELSE size[h]]
    BY <1>0, <1>4, DestroyFields
  <2>2. Frame("destroy", It) \in Frames
    BY <1>0, <1>4, AtPlace DEF Destroy, Fin
  <2>3. g # It /\ Live(g)
    BY <1>0, <2>1 DEF Live
  <2>4. It \notin Members(g) /\ Members(g) \subseteq Nodes
    BY <2>2 DEF Members
  <2>5. \A m \in Members(g) : grp_prev'[m] = grp_prev[m] /\ grp_next'[m] = grp_next[m]
    BY <2>1, <2>4
  <2>6. size'[g] = size[g] /\ grp_first'[g] = grp_first[g]
    BY <2>1, <2>3
  <2>7. Members(g)' = Members(g)
    <3>1. ~\E h \in Grps, x \in Nodes : Add(h, x)
      BY <1>0, <2>1, <1>4, AtPlace DEF Add, UserCode, UserPlaces, Destroy, In
    <3>2. ~Unlink
      BY <1>4 DEF Destroy, Unlink, In
    <3> QED BY <3>1, <3>2, MembersElse
  <2> QED BY <1>a, <2>3, <2>5, <2>6, <2>7, LinkedSame
<1>c. UNCHANGED stage => Live(g)
  BY DEF Live
<1>5. ASSUME \/ \E h \in Grps, n \in Limits : Limit(h, n)
             \/ \E x \in Nodes : Cancel(x)
             \/ Poll \/ PollEmpty \/ Polled \/ TryFeed \/ FeederReturn \/ CancelMember
             \/ FinishGroup \/ \E r \in CbResults : CallbackReturn(r)
      PROVE  LinkedAt(g)'
  <2>1. UNCHANGED links /\ UNCHANGED stage
    BY <1>5 DEF Limit, Cancel, Poll, PollEmpty, Polled, TryFeed, FeederReturn, CancelMember,
                FinishGroup, CallbackReturn
  <2> QED BY <1>1, <1>2, <1>b, <1>c, <2>1
<1>6. ASSUME NEW r \in Reqs, Work(r) PROVE LinkedAt(g)'
  <2>1. Live(g) /\ UNCHANGED links
    BY <1>0, <1>6, GroupAssumption DEF Work, Live, Nodes
  <2> QED BY <1>1, <1>2, <1>b, <2>1
<1>7. ASSUME NEW x \in Nodes, PollTake(x) PROVE LinkedAt(g)'
  <2>1. stage[x] = "done"
    BY <1>7 DEF PollTake, GInv, FinishedOnce
  <2>2. Live(g) /\ UNCHANGED links
    BY <1>0, <1>7, <2>1 DEF PollTake, Live
  <2> QED BY <1>1, <1>2, <1>b, <2>2
<1>8. CASE Finish
  <2>1. It \in Nodes /\ Live(It)
    BY <1>0, <1>8, AtPlace DEF Finish, Marked, Live, Fin
  <2>2. Live(g) /\ UNCHANGED links
    BY <1>0, <1>8, <2>1 DEF Finish, Live
  <2> QED BY <1>1, <1>2, <1>b, <2>2
<1>9. ASSUME Unlink, grp[It] = None PROVE LinkedAt(g)'
  <2>1. UNCHANGED links /\ UNCHANGED stage
    BY <1>9 DEF Unlink
  <2> QED BY <1>1, <1>9, <1>b, <1>c, <2>1
<1> QED
  BY <1>1, <1>2, <1>3, <1>4, <1>5, <1>6, <1>7, <1>8, <1>9 DEF Next, User, Library, UserReturns

LEMMA NotForgottenKept ==
  ASSUME GInv, Next
  PROVE  NotForgotten'
<1>0. /\ TypeOK /\ Stacked /\ Marked /\ Linked /\ FinishedOnce /\ NotForgotten
      /\ stage \in [Nodes -> Stages] /\ Grps \subseteq Nodes /\ None \notin Nodes
      /\ Reqs \intersect Grps = {} /\ grp \in [Nodes -> Grps \union {None}]
      /\ {"finish", "decd"} \subseteq Fin
  BY GroupAssumption DEF GInv, TypeOK, Nodes, Fin
<1> DEFINE N(g) == \/ Members(g) # {}
                   \/ \E x \in Nodes : grp[x] = g /\ Frame("decd", x) \in Frames
                   \/ Frame("finish", g) \in Frames
<1>s. SUFFICES ASSUME NEW g \in Grps, stage'[g] = "delayed" PROVE N(g)'
  BY DEF NotForgotten
<1>a. stage[g] = "delayed" => N(g)
  BY <1>0 DEF NotForgotten
<1>b. ASSUME stage[g] = "delayed", Members(g) \subseteq Members(g)',
             Frame("finish", g) \in Frames => Frame("finish", g) \in Frames',
             \A x \in Nodes : grp[x] = g /\ Frame("decd", x) \in Frames =>
               grp'[x] = g /\ Frame("decd", x) \in Frames'
      PROVE  N(g)'
  BY <1>a, <1>b
(* Where eio_finish is, and what is not to be forgotten there. *)
<1>c. ASSUME NEW p \in Fin, In(p)
      PROVE  /\ It \in Nodes
             /\ p # "finish" => stage[It] # "delayed"
             /\ \A r \in Fin : Frame(r, It) \in Frames <=> r = p
  BY <1>0, <1>c, AtPlace DEF Marked, Fin
<1>1. ASSUME NEW h \in Grps, NEW y \in Nodes, Add(h, y) PROVE N(g)'
  <2>1. Members(g) \subseteq Members(g)' /\ UNCHANGED <<stage, stack>> /\ grp[y] = None
        /\ grp' = [grp EXCEPT ![y] = h]
    BY <1>1, MembersAdd DEF Add
  <2>2. Frames' = Frames /\ g # None
    BY <1>0, <2>1 DEF Frames
  <2> QED BY <1>0, <1>b, <1>s, <2>1, <2>2
<1>2. ASSUME Unlink, grp[It] # None PROVE N(g)'
  <2>1. In("dec") /\ UNCHANGED <<stage, grp>> /\ Members(g)' = Members(g) \ {It}
    BY <1>2, MembersUnlink DEF Unlink
  <2>2. Moved(It, "decd") /\ It \in Nodes
    BY <1>2, <2>1, UnlinkMember, FeedMoves DEF Unlink, Refill
  <2>3. CASE g = grp[It]
    BY <1>0, <2>1, <2>2, <2>3 DEF Moved
  <2>4. CASE g # grp[It]
    <3>1. Members(g)' = Members(g)
      BY <2>1, <2>4 DEF Members
    <3>2. stage[It] # "delayed"
      BY <1>c, <2>1 DEF Fin
    <3> QED BY <1>0, <1>b, <1>s, <2>1, <2>2, <2>4, <3>1, <3>2 DEF Moved
  <2> QED BY <2>3, <2>4
<1> SUFFICES ASSUME ~\E h \in Grps, x \in Nodes : Add(h, x), ~(Unlink /\ grp[It] # None)
             PROVE  N(g)'
  BY <1>1, <1>2
<1>m. Members(g)' = Members(g)
  BY MembersElse
<1>d. ASSUME stage[g] = "delayed", UNCHANGED <<stack, grp>> PROVE N(g)'
  <2>1. Frames' = Frames
    BY <1>d DEF Frames
  <2> QED BY <1>b, <1>d, <1>m, <2>1
<1>e. ASSUME NEW p \in Fin \ {"decd"}, In(p), NEW q \in Fin, Moved(It, q), UNCHANGED grp,
             stage[g] = "delayed", p = "finish" => g # It
      PROVE  N(g)'
  <2>1. Frame("decd", It) \notin Frames /\ g # It
    BY <1>0, <1>c, <1>e
  <2> QED BY <1>0, <1>b, <1>e, <1>m, <2>1 DEF Moved
<1>3. CASE \/ \E h \in Grps, n \in Limits : Limit(h, n)
           \/ \E y \in Nodes : Cancel(y)
           \/ Poll \/ PollEmpty \/ Polled \/ TryFeed \/ FeederReturn \/ CancelMember
  BY <1>0, <1>3, <1>b, <1>m, <1>s, AsideStep DEF Aside, links
<1>4. ASSUME NEW r \in Reqs, Work(r) PROVE N(g)'
  BY <1>0, <1>4, <1>d, <1>s DEF Work, links
<1>5. ASSUME NEW y \in Nodes, Submit(y) PROVE N(g)'
  BY <1>0, <1>5, <1>d, <1>s DEF Submit, links
<1>6. ASSUME NEW y \in Nodes, PollTake(y) PROVE N(g)'
  <2>1. In("poll") /\ UNCHANGED grp /\ stage[y] = "done"
    BY <1>0, <1>6 DEF PollTake, FinishedOnce, links
  <2>2. ASSUME HasMembers(y), stage' = [stage EXCEPT ![y] = "delayed"], UNCHANGED stack PROVE N(g)'
    <3>1. CASE g = y
      <4>1. size[g] # 0 /\ Live(g)
        BY <2>1, <2>2, <3>1 DEF HasMembers, Live
      <4>2. Members(g) # {}
        BY <1>0, <4>1, ListFacts
      <4> QED BY <1>m, <4>2
    <3>2. CASE g # y
      <4>1. stage[g] = "delayed"
        BY <1>0, <1>s, <2>2, <3>2
      <4> QED BY <1>d, <2>1, <2>2, <4>1
    <3> QED BY <3>1, <3>2
  <2>3. ASSUME stage' = [stage EXCEPT ![y] = "taken"], CallThen("finish", y, "polled") PROVE N(g)'
    <3>1. stage[g] = "delayed"
      BY <1>0, <1>s, <2>3
    <3>2. \A p \in Fin, x \in Nodes : Frame(p, x) \notin Frames
      BY <2>1, <2>3, TakeMoves
    <3> QED BY <1>0, <1>b, <1>m, <3>1, <3>2
  <2> QED BY <1>6, <2>2, <2>3 DEF PollTake
<1>7. CASE Finish
  <2>1. In("finish") /\ UNCHANGED grp /\ It \in Nodes
    BY <1>7, <1>c DEF Finish, links, Fin
  <2>2. \E q \in Fin, s \in {"taken", "finishing"} : Goto(q) /\ stage' = [stage EXCEPT ![It] = s]
    <3>1. \/ Goto("dec") /\ stage' = [stage EXCEPT ![It] = "taken"]
          \/ Goto("callback") /\ stage' = [stage EXCEPT ![It] = "finishing"]
      BY <1>7 DEF Finish
    <3>2. "dec" \in Fin /\ "callback" \in Fin
      BY DEF Fin
    <3> QED BY <3>1, <3>2
  <2>3. PICK q \in Fin, s \in {"taken", "finishing"} : Goto(q) /\ stage' = [stage EXCEPT ![It] = s]
    BY <2>2
  <2>4. stage[g] = "delayed" /\ g # It
    BY <1>0, <1>s, <2>1, <2>3
  <2>5. Moved(It, q)
    BY <1>0, <2>1, <2>3, GotoMoves
  <2> QED BY <1>0, <1>e, <2>1, <2>4, <2>5
<1>8. ASSUME NEW r \in CbResults, CallbackReturn(r) PROVE N(g)'
  <2>1. In("callback") /\ UNCHANGED <<grp, stage>> /\ Moved(It, "dec")
    BY <1>8, GotoMoves DEF CallbackReturn, links, Fin
  <2> QED BY <1>e, <1>s, <2>1 DEF Fin
<1>9. ASSUME Unlink, grp[It] = None PROVE N(g)'
  <2>1. In("dec") /\ UNCHANGED <<grp, stage>> /\ Moved(It, "destroy")
    BY <1>9, GotoMoves DEF Unlink, links, Fin
  <2> QED BY <1>e, <1>s, <2>1 DEF Fin
<1>10. CASE FinishGroup
  <2>1. In("decd") /\ UNCHANGED <<grp, stage>> /\ It \in Nodes /\ stage[It] # "delayed"
    BY <1>10, <1>c DEF FinishGroup, links, Fin
  <2>2. g # It /\ stage[g] = "delayed"
    BY <1>s, <2>1
  <2>3. CASE ~WasLast(grp[It])
    <3>1. Moved(It, "destroy")
      BY <1>10, <2>1, <2>3, GotoMoves DEF FinishGroup, Fin
    <3>2. CASE g = grp[It]
      <4>1. size[g] # 0 /\ Live(g)
        BY <1>0, <2>2, <2>3, <3>2 DEF WasLast, Marked, Live
      <4> QED BY <1>0, <1>m, <4>1, ListFacts
    <3>3. CASE g # grp[It]
      BY <1>0, <1>b, <1>m, <2>1, <2>2, <3>1, <3>3 DEF Moved
    <3> QED BY <3>2, <3>3
  <2>4. CASE WasLast(grp[It])
    <3>1. \A p \in Fin, y \in Nodes : Frame(p, y) \in Frames' <=>
               IF y = It THEN p = "destroy"
               ELSE IF y = grp[It] THEN p = "finish" ELSE Frame(p, y) \in Frames
      BY <1>10, <2>1, <2>4, GroupMoves DEF FinishGroup
    <3>2. CASE g = grp[It]
      BY <1>0, <2>2, <3>1, <3>2
    <3>3. CASE g # grp[It]
      <4>1. grp[It] \in Grps /\ ~Ending(grp[It])
        BY <1>10, <2>1, <2>4, GroupMoves DEF FinishGroup
      <4>2. Frame("decd", grp[It]) \notin Frames
        BY <1>0, <4>1 DEF Ending
      <4> QED BY <1>0, <1>b, <1>m, <2>1, <2>2, <3>1, <3>3, <4>1, <4>2
    <3> QED BY <3>2, <3>3
  <2> QED BY <2>3, <2>4
<1>11. CASE Destroy
  <2>1. /\ stage' = [y \in Nodes |-> IF y = It THEN "free" ELSE stage[y]] /\ In("destroy")
        /\ \A y \in Nodes : grp'[y] = IF y = It THEN None ELSE grp[y]
        /\ \A p \in Fin, y \in Nodes : Frame(p, y) \in Frames' <=> y # It /\ Frame(p, y) \in Frames
    BY <1>0, <1>11, DestroyFields, DestroyGrp DEF Destroy
  <2>2. stage[g] = "delayed" /\ g # It
    BY <1>0, <1>s, <2>1
  <2>3. Frame("decd", It) \notin Frames
    BY <1>c, <2>1 DEF Fin
  <2> QED BY <1>0, <1>b, <1>m, <2>1, <2>2, <2>3
<1> QED
  BY <1>3, <1>4, <1>5, <1>6, <1>7, <1>8, <1>9, <1>10, <1>11 DEF Next, User, Library, UserReturns

-----------------------------------------------------------------------------
(* Feeders *)

LEMMA FeederServedKept ==
  ASSUME GInv, FeederServed, Next
  PROVE  FeederServed'
<1>0. /\ TypeOK /\ Stacked /\ Marked /\ Fresh /\ FinishedOnce
      /\ stage \in [Nodes -> Stages] /\ Grps \subseteq Nodes /\ Reqs \intersect Grps = {}
      /\ size \in [Grps -> Nat] /\ int2 \in [Grps -> Int] /\ feed \in [Grps -> BOOLEAN]
      /\ \A h \in Grps : size[h] \in Nat /\ int2[h] \in Int
      /\ {"poll", "polled", "finish", "callback", "dec", "decd", "destroy", "feed", "feeder"} \subseteq Places
  BY GroupAssumption DEF GInv, TypeOK, Places, Nodes
<1> DEFINE Served(g) == Frame("feed", g) \in Frames \/ Frame("feeder", g) \in Frames
           Due(g) == Live(g) /\ feed[g] /\ Room(g) /\ g \notin cancelled
<1>s. SUFFICES ASSUME NEW g \in Grps, Due(g)' PROVE Served(g)'
  BY DEF FeederServed
<1>a. Due(g) => Served(g)
  BY DEF FeederServed
(* What the calls of the library other than a feeder's do.                 *)
<1>b. ASSUME stack # << >>, Head(stack) \notin {Frame("feed", g), Frame("feeder", g)}, Due(g),
             \/ Return
             \/ \E p \in Places : Goto(p)
             \/ \E p, q \in Places, x \in Nodes : CallThen(p, x, q)
      PROVE  Served(g)'
  BY <1>0, <1>a, <1>b, NewFrames
<1>c. ASSUME NEW p, In(p), p \notin {"feed", "feeder"}
      PROVE  stack # << >> /\ Head(stack) \notin {Frame("feed", g), Frame("feeder", g)}
  BY <1>c, FrameEqual DEF In
<1>d. ASSUME Frames \subseteq Frames', Due(g) PROVE Served(g)'
  BY <1>a, <1>d
<1>e. UNCHANGED stack => Frames \subseteq Frames'
  BY DEF Frames
<1>f. UNCHANGED <<stage, size, int2, feed>> /\ cancelled \subseteq cancelled' => Due(g)
  BY <1>s DEF Live, Room
<1>1. ASSUME NEW h \in Grps, NEW n \in Limits, Limit(h, n) PROVE Served(g)'
  <2>1. Frames' = Frames \union {Frame("feed", h)}
    BY <1>0, <1>1, NewFrames DEF Limit
  <2>2. CASE g = h
    BY <2>1, <2>2
  <2>3. CASE g # h
    <3>1. UNCHANGED <<stage, size, cancelled>> /\ int2'[g] = int2[g] /\ feed'[g] = feed[g]
      BY <1>0, <1>1, <2>3 DEF Limit, links
    <3>2. Due(g)
      BY <1>s, <3>1 DEF Live, Room
    <3> QED BY <1>d, <2>1, <3>2
  <2> QED BY <2>2, <2>3
<1>2. ASSUME NEW y \in Nodes, Cancel(y) PROVE Served(g)'
  <2>1. Due(g)
    BY <1>2, <1>f DEF Cancel, links, fields
  <2>2. Frames \subseteq Frames'
    <3>1. CASE First(y) = None
      BY <1>2, <1>e, <3>1 DEF Cancel
    <3>2. CASE First(y) # None
      <4>1. Call("cancel", First(y)) /\ First(y) \in Nodes \union {None} /\ "cancel" \in Places
        BY <1>0, <1>2, <3>2 DEF Cancel, First, TypeOK, Places
      <4> QED BY <1>0, <4>1, NewFrames
    <3> QED BY <3>1, <3>2
  <2> QED BY <1>d, <2>1, <2>2
<1>3. ASSUME NEW y \in Nodes, Submit(y) PROVE Served(g)'
  <2>1. UNCHANGED <<size, int2, feed, cancelled, stack>> /\ stage[y] = "free" /\ (g # y => stage'[g] = stage[g])
    BY <1>0, <1>3 DEF Submit, links, fields
  <2>2. g # y
    BY <1>0, <1>s, <2>1 DEF Fresh
  <2>3. Due(g)
    BY <1>s, <2>1, <2>2 DEF Live, Room
  <2> QED BY <1>d, <1>e, <2>1, <2>3
<1>4. ASSUME NEW h \in Grps, NEW y \in Nodes, Add(h, y) PROVE Served(g)'
  <2>1. UNCHANGED <<stage, int2, feed, cancelled, stack>> /\ (size'[g] = size[g] \/ size'[g] = size[g] + 1)
    BY <1>0, <1>4 DEF Add, Count
  <2>2. Room(g)
    <3>1. int2[g] < 0 \/ size'[g] < int2[g]
      BY <1>s, <2>1 DEF Room
    <3>2. size[g] \in Nat /\ int2[g] \in Int
      BY <1>0
    <3>3. size'[g] < int2[g] => size[g] < int2[g]
      BY <2>1, <3>2
    <3> QED BY <3>1, <3>3 DEF Room
  <2>3. Due(g)
    BY <1>s, <2>1, <2>2 DEF Live
  <2> QED BY <1>d, <1>e, <2>1, <2>3
<1>5. ASSUME NEW r \in Reqs, Work(r) PROVE Served(g)'
  <2>1. UNCHANGED <<size, int2, feed, cancelled, stack>> /\ stage'[g] = stage[g]
    BY <1>0, <1>5 DEF Work, links, fields
  <2>2. Due(g)
    BY <1>s, <2>1 DEF Live, Room
  <2> QED BY <1>d, <1>e, <2>1, <2>2
<1>6. CASE Poll
  <2>1. Due(g)
    BY <1>6, <1>f DEF Poll, links, fields
  <2> QED BY <1>0, <1>6, <1>d, <2>1, NewFrames DEF Poll
<1>7. ASSUME NEW y \in Nodes, PollTake(y) PROVE Served(g)'
  <2>1. In("poll") /\ UNCHANGED <<size, int2, feed, cancelled>> /\ stage[y] = "done"
        /\ (stage'[g] = stage[g] \/ g = y)
    BY <1>0, <1>7 DEF PollTake, FinishedOnce, links
  <2>2. Due(g)
    BY <1>s, <2>1 DEF Live, Room
  <2>3. UNCHANGED stack \/ CallThen("finish", y, "polled")
    BY <1>7 DEF PollTake
  <2> QED BY <1>0, <1>b, <1>c, <1>d, <1>e, <2>1, <2>2, <2>3
<1>8. ASSUME \/ PollEmpty
             \/ Polled
             \/ \E r \in CbResults : CallbackReturn(r)
             \/ FinishGroup
             \/ Unlink /\ grp[It] = None
      PROVE  Served(g)'
  <2>1. Due(g)
    BY <1>8, <1>f DEF PollEmpty, Polled, CallbackReturn, FinishGroup, Unlink, links, fields
  <2>2. CASE PollEmpty \/ Polled
    BY <1>0, <1>b, <1>c, <2>1, <2>2 DEF PollEmpty, Polled
  <2>3. ASSUME NEW r \in CbResults, CallbackReturn(r) PROVE Served(g)'
    BY <1>0, <1>b, <1>c, <2>1, <2>3 DEF CallbackReturn
  <2>4. CASE FinishGroup
    <3>1. In("decd")
      BY <2>4 DEF FinishGroup
    <3>2. CASE WasLast(grp[It])
      <4>1. CallThen("finish", grp[It], "destroy") /\ UNCHANGED grp
        BY <2>4, <3>2 DEF FinishGroup, links
      <4>2. grp[It] \in Nodes
        BY <1>0, <3>1, <4>1, GroupMoves
      <4> QED BY <1>0, <1>b, <1>c, <2>1, <3>1, <4>1, <4>2
    <3>3. CASE ~WasLast(grp[It])
      BY <1>0, <1>b, <1>c, <2>1, <2>4, <3>1, <3>3 DEF FinishGroup
    <3> QED BY <3>2, <3>3
  <2>5. ASSUME Unlink, grp[It] = None PROVE Served(g)'
    BY <1>0, <1>b, <1>c, <2>1, <2>5 DEF Unlink
  <2> QED BY <1>8, <2>2, <2>3, <2>4, <2>5
<1>9. CASE Finish
  <2>1. In("finish") /\ UNCHANGED <<size, int2, feed, cancelled>> /\ (Goto("dec") \/ Goto("callback"))
    BY <1>9 DEF Finish, links, fields
  <2>2. It \in Nodes /\ Live(It)
    BY <1>0, <2>1, AtPlace DEF Marked, Live, Fin
  <2>3. stage'[g] = stage[g] \/ g = It
    BY <1>0, <1>9 DEF Finish
  <2>4. Due(g)
    BY <1>s, <2>1, <2>2, <2>3 DEF Live, Room
  <2> QED BY <1>0, <1>b, <1>c, <2>1, <2>4
<1>10. ASSUME Unlink, grp[It] # None PROVE Served(g)'
  <2>1. /\ In("dec") /\ UNCHANGED <<stage, int2, feed, cancelled>>
        /\ size' = [size EXCEPT ![grp[It]] = @ - 1] /\ CallThen("feed", grp[It], "decd")
    BY <1>10 DEF Unlink, Refill, fields
  <2>2. grp[It] \in Grps /\ stack # << >>
    BY <1>10, <2>1, UnlinkMember DEF In
  <2>3. CASE g = grp[It]
    BY <1>0, <2>1, <2>2, <2>3, NewFrames
  <2>4. CASE g # grp[It]
    <3>1. size'[g] = size[g]
      BY <1>0, <2>1, <2>4
    <3>2. Due(g)
      BY <1>s, <2>1, <3>1 DEF Live, Room
    <3> QED BY <1>0, <1>b, <1>c, <2>1, <2>2, <3>2
  <2> QED BY <2>3, <2>4
<1>11. CASE Destroy
  <2>1. /\ stage' = [y \in Nodes |-> IF y = It THEN "free" ELSE stage[y]]
        /\ size' = [h \in Grps |-> IF h = It THEN 0 ELSE size[h]]
        /\ int2' = [h \in Grps |-> IF h = It THEN 0 ELSE int2[h]]
        /\ feed' = [h \in Grps |-> IF h = It THEN FALSE ELSE feed[h]]
        /\ cancelled' = cancelled \ {It} /\ In("destroy") /\ Return
    BY <1>0, <1>11, DestroyFields DEF Destroy
  <2>2. g # It
    BY <1>s, <2>1
  <2>3. Due(g)
    BY <1>0, <1>s, <2>1, <2>2 DEF Live, Room
  <2> QED BY <1>0, <1>b, <1>c, <2>1, <2>3
<1>12. ASSUME NEW p \in {"feed", "feeder"}, In(p), It # g
       PROVE  stack # << >> /\ Head(stack) \notin {Frame("feed", g), Frame("feeder", g)}
  BY <1>12, FrameEqual DEF In, It
<1>13. CASE TryFeed
  <2>1. Due(g) /\ In("feed")
    BY <1>13, <1>f DEF TryFeed, links
  <2>2. Return \/ Goto("feeder")
    BY <1>13 DEF TryFeed
  <2>3. CASE g = It
    <3>1. Goto("feeder") /\ stack # << >>
      BY <1>13, <2>1, <2>3 DEF TryFeed, EIO_CANCELLED, In
    <3> QED BY <1>0, <2>3, <3>1, NewFrames
  <2>4. CASE g # It
    BY <1>0, <1>12, <1>b, <2>1, <2>2, <2>4
  <2> QED BY <2>3, <2>4
<1>14. CASE FeederReturn
  <2>1. In("feeder") /\ UNCHANGED <<stage, size, int2, cancelled>>
    BY <1>14 DEF FeederReturn, links
  <2>2. CASE Progress(It)
    <3>1. Goto("feed") /\ UNCHANGED feed /\ stack # << >>
      BY <1>14, <2>1, <2>2 DEF FeederReturn, In
    <3>2. CASE g = It
      BY <1>0, <3>1, <3>2, NewFrames
    <3>3. CASE g # It
      BY <1>0, <1>12, <1>b, <1>f, <2>1, <3>1, <3>3
    <3> QED BY <3>2, <3>3
  <2>3. CASE ~Progress(It)
    <3>1. Return /\ feed' = [feed EXCEPT ![It] = FALSE]
      BY <1>14, <2>3 DEF FeederReturn
    <3>2. g # It
      BY <1>0, <1>s, <3>1
    <3>3. Due(g)
      BY <1>0, <1>s, <2>1, <3>1, <3>2 DEF Live, Room
    <3> QED BY <1>12, <1>b, <2>1, <3>1, <3>2, <3>3
  <2> QED BY <2>2, <2>3
<1>15. CASE CancelMember
  <2>1. Due(g) /\ In("cancel")
    BY <1>15, <1>f DEF CancelMember, links, fields
  <2>2. Frames = {Frame("cancel", It)} \union Rest /\ Rest \subseteq Frames'
    BY <1>15, CancelMemberFrames
  <2> QED BY <1>a, <2>1, <2>2, FrameEqual
<1> QED
  BY <1>1, <1>2, <1>3, <1>4, <1>5, <1>6, <1>7, <1>8, <1>9, <1>10, <1>11, <1>13, <1>14, <1>15
  DEF Next, User, Library, UserReturns

-----------------------------------------------------------------------------
(* The invariant holds in every behaviour. *)

IInv == GInv /\ FeederServed

LEMMA InitInv == Init => IInv
<1> SUFFICES ASSUME Init PROVE IInv
  OBVIOUS
<1>1. Frames = {} /\ Len(stack) = 0
  BY DEF Init, Frames
<1>2. TypeOK
  <2>1. stage \in [Nodes -> Stages] /\ {res_queue, cancelled} \subseteq SUBSET Nodes
        /\ groupadd \subseteq Grps /\ stack \in Seq([at : Places, req : Nodes \union {None}]) /\ res \in Int
    BY DEF Init, Stages
  <2>2. grp \in [Nodes -> Grps \union {None}] /\ {grp_prev, grp_next} \subseteq [Nodes -> Nodes \union {None}]
    BY DEF Init
  <2>3. grp_first \in [Grps -> Nodes \union {None}] /\ size \in [Grps -> Nat] /\ int2 \in [Grps -> Int]
    BY DEF Init
  <2>4. int1 \in [Grps -> BOOLEAN] /\ feed \in [Grps -> BOOLEAN]
    BY DEF Init
  <2> QED BY <2>1, <2>2, <2>3, <2>4 DEF TypeOK
<1>3. Stacked
  BY <1>1 DEF Stacked, Innermost, Arguments, OneFinish, Waiting
<1>4. Marked /\ Fresh /\ Belong /\ FinishedOnce
  BY <1>1 DEF Init, Marked, Fresh, Belong, FinishedOnce, Nodes
<1>5. Walking /\ Linked /\ NotForgotten /\ FeederServed
  BY <1>1 DEF Init, Walking, Linked, NotForgotten, FeederServed, Live, Nodes
<1> QED BY <1>2, <1>3, <1>4, <1>5 DEF IInv, GInv

LEMMA NextInv == IInv /\ [Next]_vars => IInv'
<1>1. ASSUME IInv, Next PROVE IInv'
  <2>1. GInv /\ FeederServed /\ Next
    BY <1>1 DEF IInv
  <2>2. TypeOK' /\ Stacked' /\ Marked' /\ Fresh' /\ Belong' /\ Walking'
    BY <2>1, TypeKept, StackedKept, MarkedKept, FreshKept, BelongKept, WalkingKept
  <2>3. Linked' /\ FinishedOnce' /\ NotForgotten' /\ FeederServed'
    BY <2>1, LinkedKept, OnceKept, NotForgottenKept, FeederServedKept
  <2> QED BY <2>2, <2>3 DEF IInv, GInv
<1>2. ASSUME IInv, UNCHANGED vars PROVE IInv'
  <2>1. /\ UNCHANGED <<stage, res_queue, cancelled, grp, grp_prev, grp_next, grp_first, size>>
        /\ UNCHANGED <<int1, int2, feed, groupadd, stack, res>>
    BY <1>2 DEF vars, links, fields
  <2>2. /\ Frames' = Frames /\ \A g : Members(g)' = Members(g)
        /\ \A g : Live(g)' = Live(g) /\ Room(g)' = Room(g)
        /\ \A x : Ending(x)' <=> Ending(x)
    BY <2>1 DEF Frames, Members, Live, Room, Ending
  <2>3. TypeOK' /\ Stacked'
    BY <1>2, <2>1 DEF IInv, GInv, TypeOK, Stacked, Innermost, Arguments, OneFinish, Waiting
  <2>4. Marked' /\ Fresh' /\ Belong' /\ Walking'
    BY <1>2, <2>1, <2>2 DEF IInv, GInv, Marked, Fresh, Belong, Walking
  <2>5. Linked'
    BY <1>2, <2>1, <2>2, LinkedEach DEF IInv, GInv, LinkedAt
  <2>6. FinishedOnce' /\ NotForgotten' /\ FeederServed'
    BY <1>2, <2>1, <2>2 DEF IInv, GInv, FinishedOnce, NotForgotten, FeederServed
  <2> QED BY <2>3, <2>4, <2>5, <2>6 DEF IInv, GInv
<1> QED BY <1>1, <1>2

(* The invariant holds in every behaviour of the client and the library.   *)
THEOREM Invariance == Spec => []IInv
<1> QED BY InitInv, NextInv, PTL DEF Spec

(* Every variable has its type: no list or call refers to anything but a   *)
(* request, and size never falls below 0.                                  *)
THEOREM TypeCorrect == Spec => []TypeOK
<1>1. IInv => TypeOK
  BY DEF IInv, GInv
<1> QED BY <1>1, Invariance, PTL

(* Whatever callbacks and feeders add, cancel and finish in the middle of  *)
(* a walk or an eio_finish, the list of a group is linked both ways, holds *)
(* its members once each and ends, and size is their number.               *)
THEOREM LinkedAlways == Spec => []Linked
<1>1. IInv => Linked
  BY DEF IInv, GInv
<1> QED BY <1>1, Invariance, PTL

(* The callback of a group runs after the last of its members has left it. *)
THEOREM FinishedLastAlways == Spec => []FinishedLast
<1>1. IInv => FinishedLast
  <2> SUFFICES ASSUME IInv, NEW g \in Grps, stage[g] \in {"taken", "finishing"}, NEW x \in Members(g)
               PROVE  FALSE
    BY DEF FinishedLast
  <2>1. x \in Nodes /\ grp[x] = g /\ Frame("destroy", x) \notin Frames /\ g # None
    BY GroupAssumption DEF Members, Nodes
  <2>2. Ending(g)
    BY DEF IInv, GInv, Marked, Nodes
  <2>3. stack # << >> /\ Head(stack) = Frame("destroy", x)
    BY <2>1, <2>2 DEF IInv, GInv, Belong
  <2>4. Frame("destroy", x) \in Frames
    BY <2>3, StackTyped, FramesTop DEF IInv, GInv
  <2> QED BY <2>1, <2>4
<1> QED BY <1>1, Invariance, PTL

(* No request, a group least of all, is finished while it is in res_queue. *)
THEOREM FinishedOnceAlways == Spec => []FinishedOnce
<1>1. IInv => FinishedOnce
  BY DEF IInv, GInv
<1> QED BY <1>1, Invariance, PTL

(* A group that eio_poll has put off has a member that will finish it, or  *)
(* the code that finishes it is at work.                                   *)
THEOREM NotForgottenAlways == Spec => []NotForgotten
<1>1. IInv => NotForgotten
  BY DEF IInv, GInv
<1> QED BY <1>1, Invariance, PTL

(* A feeder that still has something to add is never left uncalled while   *)
(* its group has room.                                                     *)
THEOREM FeederServedAlways == Spec => []FeederServed
<1>1. IInv => FeederServed
  BY DEF IInv
<1> QED BY <1>1, Invariance, PTL

-----------------------------------------------------------------------------
(* What a member is to the client: the abstract service is implemented.    *)

(* How far each request has come to the service: the refinement mapping.   *)
stages  == [r \in Reqs |-> IF stage[r] = "taken" THEN "done" ELSE stage[r]]
flagged == cancelled \intersect Reqs

Simulated == Service!Next \/ UNCHANGED <<stages, flagged>>

LEMMA StillIsStutter == UNCHANGED <<stages, flagged>> => UNCHANGED Service!vars
BY DEF Service!vars, stages, flagged

LEMMA StagesOf ==
  /\ \A r \in Reqs : stages[r] = IF stage[r] = "taken" THEN "done" ELSE stage[r]
  /\ \A r \in Reqs : stages'[r] = IF stage'[r] = "taken" THEN "done" ELSE stage'[r]
BY DEF stages

LEMMA NoneMoves ==
  ASSUME \A r \in Reqs : stages'[r] = stages[r], flagged' = flagged
  PROVE  Simulated
<1>1. stages' = stages
  BY DEF stages
<1> QED BY <1>1 DEF Simulated

LEMMA OneMoves ==
  ASSUME NEW r \in Reqs, \A s \in Reqs \ {r} : stages'[s] = stages[s],
         NEW from, NEW to, stages[r] = from, stages'[r] = to
  PROVE  Service!Move(r, from, to)
<1>1. stages' = [stages EXCEPT ![r] = to]
  BY DEF stages
<1> QED BY <1>1 DEF Service!Move, stages

(* Of the ordinary requests one at a time is in eio_finish: those that     *)
(* wait for it belong to groups, and a group waits for none.               *)
LEMMA AloneFinishing ==
  ASSUME IInv, In("finish"), It \in Reqs
  PROVE  \A s \in Reqs : stage[s] # "finishing"
<1> SUFFICES ASSUME NEW s \in Reqs, stage[s] = "finishing" PROVE FALSE
  OBVIOUS
<1> DEFINE n == Len(stack)
<1>1. /\ TypeOK /\ Stacked /\ Marked /\ stack \in Seq(FrameType) /\ {"finish"} \subseteq Fin
      /\ s \in Nodes /\ Reqs \intersect Grps = {}
  BY StackTyped, GroupAssumption DEF IInv, GInv, Fin, Nodes
<1>2. /\ stack # << >> /\ Head(stack).at = "finish" /\ stack[1] = Head(stack) /\ It = stack[1].req
      /\ n \in Nat \ {0} /\ Frame("finish", It) \in Frames
  BY <1>1, AtPlace, FramesTop DEF It
<1>3. s # It
  BY <1>1, <1>2 DEF Marked, Nodes
<1>4. PICK p \in Fin : Frame(p, s) \in Frames
  BY <1>1 DEF Marked, Ending
<1>5. PICK j \in 1..n : stack[j] = Frame(p, s)
  BY <1>4 DEF Frames
<1>6. stack[j].at = p /\ stack[j].req = s
  BY <1>5, FrameEqual
<1>7. j # 1
  BY <1>2, <1>3, <1>6
<1> HIDE DEF n
<1>8. 2 \in 2..n /\ 1 \in 1..n /\ 2 \in 1..n /\ 1 < 2 /\ 2 - 1 = 1 /\ (j = 2 \/ 2 < j) /\ j <= n
  BY <1>2, <1>7
<1>9. stack[2].at \in {"destroy", "polled"}
  BY <1>1, <1>2, <1>8 DEF Stacked, OneFinish, n
<1>10. stack[2].at = "destroy" => grp[stack[2].req] \in Grps /\ grp[stack[2].req] = stack[2-1].req
  BY <1>1, <1>8 DEF Stacked, Waiting, n
<1>11. stack[2].at = "polled" => 2 = n
  BY <1>1, <1>8 DEF Stacked, Innermost, n
<1>12. stack[2].at # "destroy"
  BY <1>1, <1>2, <1>8, <1>10
<1>13. j = 2
  BY <1>8, <1>9, <1>11, <1>12
<1> QED BY <1>6, <1>9, <1>12, <1>13 DEF Fin

LEMMA StepSim ==
  ASSUME IInv, Next
  PROVE  Simulated
<1>0. /\ GInv /\ TypeOK /\ Stacked /\ Marked /\ FinishedOnce /\ Reqs \intersect Grps = {}
      /\ stage \in [Nodes -> Stages] /\ Reqs \subseteq Nodes
      /\ \A x \in Nodes : x \in Reqs \/ x \in Grps
  BY GroupAssumption DEF IInv, GInv, TypeOK, Nodes
<1>a. UNCHANGED <<stage, cancelled>> => Simulated
  BY NoneMoves, StagesOf DEF flagged
<1>b. ASSUME NEW x \in Nodes, x \notin Reqs, \A y \in Nodes : y # x => stage'[y] = stage[y],
             cancelled' \ {x} = cancelled \ {x}
      PROVE  Simulated
  <2>1. \A r \in Reqs : stages'[r] = stages[r]
    BY <1>0, <1>b, StagesOf
  <2>2. flagged' = flagged
    BY <1>b DEF flagged
  <2> QED BY <2>1, <2>2, NoneMoves
<1>c. ASSUME NEW r \in Reqs, Live(r), UNCHANGED stage, cancelled' = cancelled \union {r}
      PROVE  Simulated
  <2>1. stages' = stages /\ stages[r] # "free" /\ flagged' = flagged \union {r}
    BY <1>c, StagesOf DEF stages, flagged, Live
  <2>2. Service!Cancel(r)
    BY <2>1 DEF Service!Cancel, stages, flagged
  <2> QED BY <2>2 DEF Simulated, Service!Next
<1>1. CASE \/ \E g \in Grps, x \in Nodes : Add(g, x)
           \/ \E g \in Grps, n \in Limits : Limit(g, n)
           \/ Poll \/ PollEmpty \/ Polled \/ TryFeed \/ FeederReturn \/ Unlink \/ FinishGroup
           \/ \E r \in CbResults : CallbackReturn(r)
  <2>1. UNCHANGED <<stage, cancelled>>
    BY <1>1 DEF Add, Limit, Poll, PollEmpty, Polled, TryFeed, FeederReturn, Unlink, FinishGroup, CallbackReturn
  <2> QED BY <1>a, <2>1
<1>2. ASSUME NEW x \in Nodes, Cancel(x) PROVE Simulated
  BY <1>0, <1>2, <1>b, <1>c DEF Cancel
<1>3. CASE CancelMember
  <2>1. It \in Nodes /\ Live(It)
    BY <1>0, <1>3, WalkFacts DEF CancelMember
  <2>2. UNCHANGED stage /\ cancelled' = cancelled \union {It}
    BY <1>3 DEF CancelMember
  <2> QED BY <1>b, <1>c, <2>1, <2>2
<1>4. ASSUME NEW x \in Nodes, Submit(x) PROVE Simulated
  <2>1. stage[x] = "free" /\ UNCHANGED cancelled
        /\ stage' = [stage EXCEPT ![x] = IF x \in Grps THEN "done" ELSE "queued"]
    BY <1>4 DEF Submit
  <2>2. CASE x \in Reqs
    <3>1. /\ stages[x] = "free" /\ stages'[x] = "queued"
          /\ \A s \in Reqs \ {x} : stages'[s] = stages[s]
      BY <1>0, <2>1, <2>2, StagesOf
    <3>2. Service!Submit(x)
      BY <2>1, <2>2, <3>1, OneMoves DEF Service!Submit, flagged
    <3> QED BY <2>2, <3>2 DEF Simulated, Service!Next
  <2>3. CASE x \notin Reqs
    BY <1>0, <1>b, <2>1, <2>3
  <2> QED BY <2>2, <2>3
<1>5. ASSUME NEW r \in Reqs, Work(r) PROVE Simulated
  <2>1. UNCHANGED cancelled
    BY <1>5 DEF Work
  <2>2. ASSUME NEW from \in {"queued", "running"}, NEW to \in {"running", "done"},
               stage[r] = from, stage' = [stage EXCEPT ![r] = to]
        PROVE  Service!Move(r, from, to)
    <3>1. stages[r] = from /\ stages'[r] = to /\ \A s \in Reqs \ {r} : stages'[s] = stages[s]
      BY <1>0, <2>2, StagesOf
    <3> QED BY <3>1, OneMoves
  <2>3. CASE stage[r] = "queued" /\ r \notin cancelled /\ stage' = [stage EXCEPT ![r] = "running"]
    <3>1. Service!Execute(r)
      BY <2>1, <2>2, <2>3 DEF Service!Execute
    <3> QED BY <3>1 DEF Simulated, Service!Next
  <2>4. CASE stage[r] = "running" /\ stage' = [stage EXCEPT ![r] = "done"]
    <3>1. Service!Complete(r)
      BY <2>1, <2>2, <2>4 DEF Service!Complete
    <3> QED BY <3>1 DEF Simulated, Service!Next
  <2>5. CASE stage[r] = "queued" /\ r \in cancelled /\ stage' = [stage EXCEPT ![r] = "done"]
    <3>1. Service!Skip(r)
      BY <2>1, <2>2, <2>5 DEF Service!Skip
    <3> QED BY <3>1 DEF Simulated, Service!Next
  <2> QED BY <1>5, <2>3, <2>4, <2>5 DEF Work
<1>6. ASSUME NEW x \in Nodes, PollTake(x) PROVE Simulated
  <2>1. stage[x] = "done" /\ UNCHANGED cancelled
    BY <1>0, <1>6 DEF PollTake, FinishedOnce
  <2>2. CASE x \in Reqs
    <3>1. stage' = [stage EXCEPT ![x] = "taken"]
      BY <1>0, <1>6, <2>2 DEF PollTake, HasMembers
    <3>2. \A s \in Reqs : stages'[s] = stages[s]
      BY <1>0, <2>1, <3>1, StagesOf
    <3> QED BY <2>1, <3>2, NoneMoves DEF flagged
  <2>3. CASE x \notin Reqs
    <3>1. \A y \in Nodes : y # x => stage'[y] = stage[y]
      BY <1>0, <1>6 DEF PollTake
    <3> QED BY <1>b, <2>1, <2>3, <3>1
  <2> QED BY <2>2, <2>3
<1>7. CASE Finish
  <2>1. In("finish") /\ It \in Nodes /\ UNCHANGED cancelled /\ Frame("finish", It) \in Frames
    BY <1>0, <1>7, AtPlace DEF Finish, Fin
  <2>2. CASE It \in Reqs
    <3>1. stage[It] = "taken"
      BY <1>0, <2>1, <2>2 DEF Marked
    <3>2. CASE It \in cancelled
      <4>1. stage' = [stage EXCEPT ![It] = "taken"]
        BY <1>7, <3>2 DEF Finish, EIO_CANCELLED
      <4>2. \A s \in Reqs : stages'[s] = stages[s]
        BY <1>0, <3>1, <4>1, StagesOf
      <4> QED BY <2>1, <4>2, NoneMoves DEF flagged
    <3>3. CASE It \notin cancelled
      <4>1. stage' = [stage EXCEPT ![It] = "finishing"]
        BY <1>7, <3>3 DEF Finish, EIO_CANCELLED
      <4>2. /\ stages[It] = "done" /\ stages'[It] = "finishing"
            /\ \A s \in Reqs \ {It} : stages'[s] = stages[s]
        BY <1>0, <2>2, <3>1, <4>1, StagesOf
      <4>3. \A s \in Reqs : stages[s] # "finishing"
        BY <2>1, <2>2, AloneFinishing, StagesOf
      <4>4. PICK r \in Reqs : r = It
        BY <2>2
      <4>5. Service!Move(r, "done", "finishing")
        BY <4>2, <4>4, OneMoves
      <4>6. Service!Finish(r)
        BY <2>1, <3>3, <4>3, <4>4, <4>5 DEF Service!Finish, stages, flagged
      <4> QED BY <4>6 DEF Simulated, Service!Next
    <3> QED BY <3>2, <3>3
  <2>3. CASE It \notin Reqs
    <3>1. \A y \in Nodes : y # It => stage'[y] = stage[y]
      BY <1>0, <1>7 DEF Finish
    <3> QED BY <1>b, <2>1, <2>3, <3>1
  <2> QED BY <2>2, <2>3
<1>8. CASE Destroy
  <2>1. In("destroy") /\ It \in Nodes /\ Frame("destroy", It) \in Frames
        /\ stage' = [y \in Nodes |-> IF y = It THEN "free" ELSE stage[y]]
        /\ cancelled' = cancelled \ {It}
    BY <1>0, <1>8, AtPlace, DestroyFields DEF Destroy, Fin
  <2>2. CASE It \in Reqs
    <3>1. stage[It] = "finishing" \/ (stage[It] = "taken" /\ It \in cancelled)
      BY <1>0, <2>1 DEF Marked
    <3>2. stages'[It] = "free" /\ \A s \in Reqs \ {It} : stages'[s] = stages[s]
      BY <1>0, <2>1, <2>2, StagesOf
    <3>3. PICK r \in Reqs : r = It
      BY <2>2
    <3>4. \/ Service!Move(r, "finishing", "free")
          \/ r \in cancelled /\ Service!Move(r, "done", "free")
      BY <3>1, <3>2, <3>3, OneMoves, StagesOf
    <3>5. flagged' = flagged \ {r}
      BY <2>1, <3>3 DEF flagged
    <3>6. Service!Destroy(r)
      BY <3>4, <3>5 DEF Service!Destroy, flagged
    <3> QED BY <3>6 DEF Simulated, Service!Next
  <2>3. CASE It \notin Reqs
    BY <1>b, <2>1, <2>3
  <2> QED BY <2>2, <2>3
<1> QED
  BY <1>1, <1>2, <1>3, <1>4, <1>5, <1>6, <1>7, <1>8 DEF Next, User, Library, UserReturns

(* To the client a member is a request like any other: executed at most    *)
(* once, called back at most once, after that and not when cancelled, one  *)
(* ordinary request at a time, and freed last, whatever groups it is in.   *)
THEOREM MembersRefine == Spec => MembersImplement
<1>1. Init => Service!Init
  <2> SUFFICES ASSUME Init PROVE Service!Init
    OBVIOUS
  <2>1. stage = [x \in Nodes |-> "free"] /\ cancelled = {} /\ Reqs \subseteq Nodes
    BY DEF Init, Nodes
  <2> QED BY <2>1 DEF Service!Init
<1>2. IInv /\ [Next]_vars => [Service!Next]_Service!vars
  <2>1. ASSUME IInv, Next PROVE [Service!Next]_Service!vars
    BY <2>1, StepSim, StillIsStutter DEF Simulated
  <2>2. ASSUME UNCHANGED vars PROVE UNCHANGED Service!vars
    BY <2>2 DEF vars, Service!vars
  <2> QED BY <2>1, <2>2
<1> QED BY <1>1, <1>2, Invariance, PTL DEF Spec, MembersImplement, Service!Spec

=============================================================================
