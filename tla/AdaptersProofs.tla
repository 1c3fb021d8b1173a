--------------------------- MODULE AdaptersProofs ---------------------------
(***************************************************************************)
(* The adapters and what goes with them, for every set of inputs, keys,    *)
(* services, commands, frames, screens and times: what is injected and     *)
(* what is captured is accounted for, commands are read back as they were  *)
(* sent, discovery shows what is on the air and its offers can be paired   *)
(* with, probes tell the truth and the watchdogs keep up.                  *)
(***************************************************************************)
EXTENDS Adapters, TLAPS, WellFoundedInduction, FiniteSetTheorems

(***************************************************************************)
(* Injected input.  The list holds each input once, and while a release    *)
(* runs what it has yet to lift is in the list; a release that is sent and *)
(* not recorded has lifted its input, which nothing presses meanwhile.     *)
(***************************************************************************)
Injectable == Inputs \ Unsupported
Strokes == {Press(x) : x \in Injectable} \cup {Release(x) : x \in Injectable}

PressOrderIsKept == press_order \in Seq(Injectable) /\ IsInjective(press_order)

LeftIsRecorded ==
    /\ left \in Seq(Injectable) /\ IsInjective(left)
    /\ ToSet(left) \subseteq ToSet(press_order)
    /\ lock \in Releasers \/ (lock = Nothing /\ left = << >>)

SendingIsDone ==
    /\ sending \in Strokes \cup {Nothing}
    /\ \A x \in Injectable : sending = Release(x) => x \notin osDown

InjInv ==
    /\ osDown \subseteq Injectable
    /\ PressOrderIsKept
    /\ LeftIsRecorded
    /\ SendingIsDone
    /\ InputsAccounted

(* The strokes are told apart, and none is Nothing. *)
LEMMA StrokeFields ==
    /\ \A x \in Injectable : /\ Press(x) \in Strokes /\ Release(x) \in Strokes
                             /\ Press(x) # Nothing /\ Release(x) # Nothing
    /\ \A x, y \in Inputs : Press(x) # Release(y)
    /\ \A x, y \in Inputs : (Press(x) = Press(y) \/ Release(x) = Release(y)) => x = y
    /\ \A e \in Strokes : \E x \in Injectable : e = Press(x) \/ e = Release(x)
    /\ \A x : /\ Press(x).input = x /\ Press(x).pressed
              /\ Release(x).input = x /\ ~Release(x).pressed
<1>1. /\ \A x : /\ Press(x) = [input |-> x, pressed |-> TRUE]
               /\ Release(x) = [input |-> x, pressed |-> FALSE]
      /\ \A x \in Injectable : x \in Inputs
  BY DEF Press, Release, Injectable
<1>2. \A x \in Injectable : Press(x) \in Strokes /\ Release(x) \in Strokes
  BY DEF Strokes
<1>3. \A x \in Injectable : Press(x) # Nothing /\ Release(x) # Nothing
  <2> TAKE x \in Injectable
  <2>1. x \in Inputs
    BY <1>1
  <2>2. /\ [input |-> x, pressed |-> TRUE] \in [input : Inputs, pressed : BOOLEAN]
        /\ [input |-> x, pressed |-> FALSE] \in [input : Inputs, pressed : BOOLEAN]
    BY <2>1
  <2> QED BY <1>1, <2>2, InputAssumption
<1>4. /\ \A x, y \in Inputs : Press(x) # Release(y)
      /\ \A x, y \in Inputs : (Press(x) = Press(y) \/ Release(x) = Release(y)) => x = y
      /\ \A x : /\ Press(x).input = x /\ Press(x).pressed
                /\ Release(x).input = x /\ ~Release(x).pressed
  BY <1>1
<1>5. \A e \in Strokes : \E x \in Injectable : e = Press(x) \/ e = Release(x)
  BY DEF Strokes
<1> QED BY <1>2, <1>3, <1>4, <1>5

LEMMA LockFields == Nothing \notin Releasers /\ "listener" \in Releasers
BY InputAssumption DEF Releasers

----
(***************************************************************************)
(* Lists that hold each element once.                                      *)
(***************************************************************************)
LEMMA Joined ==
    ASSUME NEW T, NEW s \in Seq(T), NEW t \in Seq(T)
    PROVE  /\ s \o t \in Seq(T) /\ Len(s \o t) = Len(s) + Len(t)
           /\ \A i \in 1..Len(s) : (s \o t)[i] = s[i]
           /\ \A i \in 1..Len(t) : (s \o t)[Len(s) + i] = t[i]
OBVIOUS

LEMMA RemovedOnce ==
    ASSUME NEW T, NEW s \in Seq(T), IsInjective(s), NEW e
    PROVE  /\ RemoveFirst(s, e) \in Seq(T) /\ IsInjective(RemoveFirst(s, e))
           /\ ToSet(RemoveFirst(s, e)) = ToSet(s) \ {e}
<1>1. CASE ~\E i \in 1..Len(s) : s[i] = e
  BY <1>1 DEF RemoveFirst, ToSet
<1>2. ASSUME NEW i \in 1..Len(s), s[i] = e
      PROVE  /\ RemoveFirst(s, e) \in Seq(T) /\ IsInjective(RemoveFirst(s, e))
             /\ ToSet(RemoveFirst(s, e)) = ToSet(s) \ {e}
  <2>1. {j \in 1..Len(s) : s[j] = e} = {i}
    BY <1>2 DEF IsInjective
  <2>2. SelectInSeq(s, LAMBDA v : v = e) = i
    <3>1. Min({i}) = i
      BY DEF Min
    <3> QED BY <2>1, <3>1 DEF SelectInSeq
  <2> DEFINE a == SubSeq(s, 1, i - 1)
             b == SubSeq(s, i + 1, Len(s))
             r == RemoveFirst(s, e)
  <2>3. r = a \o b
    BY <1>2, <2>2 DEF RemoveFirst, RemoveAt
  <2>4. /\ a \in Seq(T) /\ Len(a) = i - 1
        /\ \A j \in 1..(i - 1) : a[j] = s[j]
    OBVIOUS
  <2>5. /\ b \in Seq(T) /\ Len(b) = Len(s) - i
        /\ \A j \in 1..(Len(s) - i) : b[j] = s[i + j]
    OBVIOUS
  <2> HIDE DEF a, b, r
  <2>6. /\ r \in Seq(T) /\ Len(r) = Len(s) - 1
        /\ \A j \in 1..(Len(s) - 1) : r[j] = IF j < i THEN s[j] ELSE s[j + 1]
    <3>1. r \in Seq(T) /\ Len(r) = Len(s) - 1
      <4>1. a \in Seq(T) /\ b \in Seq(T)
        BY <2>4, <2>5
      <4>2. a \o b \in Seq(T) /\ Len(a \o b) = Len(a) + Len(b)
        BY <4>1, Joined
      <4>3. Len(a \o b) = Len(s) - 1
        BY <2>4, <2>5, <4>2
      <4> QED BY <2>3, <4>2, <4>3
    <3>2. ASSUME NEW j \in 1..(Len(s) - 1), j < i PROVE r[j] = s[j]
      <4>1. j \in 1..(i - 1) /\ j \in 1..Len(a)
        BY <2>4, <3>2
      <4>2. r[j] = a[j]
        <5>1. a \in Seq(T) /\ b \in Seq(T)
          BY <2>4, <2>5
        <5>2. (a \o b)[j] = a[j]
          BY <4>1, <5>1, Joined
        <5> QED BY <2>3, <5>2
      <4> QED BY <2>4, <4>1, <4>2
    <3>3. ASSUME NEW j \in 1..(Len(s) - 1), ~(j < i) PROVE r[j] = s[j + 1]
      <4>1. r[j] = b[j - (i - 1)]
        <5>1. a \in Seq(T) /\ b \in Seq(T)
          BY <2>4, <2>5
        <5>2. j - (i - 1) \in 1..Len(b) /\ Len(a) + (j - (i - 1)) = j
          BY <2>4, <2>5, <3>3
        <5>3. (a \o b)[j] = b[j - (i - 1)]
          BY <5>1, <5>2, Joined
        <5> QED BY <2>3, <5>3
      <4> QED BY <2>5, <3>3, <4>1
    <3> QED BY <3>1, <3>2, <3>3
  <2>7. IsInjective(r)
    <3>1. \A j, k \in 1..Len(s) : s[j] = s[k] => j = k
      BY DEF IsInjective
    <3>2. SUFFICES ASSUME NEW j \in 1..(Len(s) - 1), NEW k \in 1..(Len(s) - 1), r[j] = r[k]
                   PROVE  j = k
      BY <2>6 DEF IsInjective
    <3> DEFINE From(n) == IF n < i THEN n ELSE n + 1
    <3>3. From(j) \in 1..Len(s) /\ From(k) \in 1..Len(s)
      OBVIOUS
    <3>4. r[j] = s[From(j)] /\ r[k] = s[From(k)]
      BY <2>6
    <3>5. From(j) = From(k) => j = k
      OBVIOUS
    <3> HIDE DEF From
    <3> QED BY <3>1, <3>2, <3>3, <3>4, <3>5
  <2>8. ToSet(r) \subseteq ToSet(s) \ {e}
    <3>1. \A j, k \in 1..Len(s) : s[j] = s[k] => j = k
      BY DEF IsInjective
    <3>2. SUFFICES ASSUME NEW j \in 1..(Len(s) - 1) PROVE r[j] \in ToSet(s) \ {e}
      BY <2>6 DEF ToSet
    <3> DEFINE n == IF j < i THEN j ELSE j + 1
    <3>3. n \in 1..Len(s) /\ n # i
      OBVIOUS
    <3>4. r[j] = s[n]
      BY <2>6
    <3> HIDE DEF n
    <3>5. s[n] # e
      BY <1>2, <3>1, <3>3
    <3>6. s[n] \in ToSet(s)
      BY <3>3 DEF ToSet
    <3> QED BY <3>4, <3>5, <3>6
  <2>9. ASSUME NEW k \in DOMAIN s, s[k] # e PROVE s[k] \in ToSet(r)
    <3>1. CASE k < i
      BY <2>6, <3>1 DEF ToSet
    <3>2. CASE k > i
      <4>1. k - 1 \in 1..Len(r) /\ r[k - 1] = s[k]
        BY <2>6, <3>2
      <4> QED BY <2>6, <4>1 DEF ToSet
    <3> QED BY <1>2, <2>9, <3>1, <3>2
  <2>10. ToSet(s) \ {e} \subseteq ToSet(r)
    BY <2>9 DEF ToSet
  <2> QED BY <2>6, <2>7, <2>8, <2>10 DEF r
<1> QED BY <1>1, <1>2

LEMMA AppendedOnce ==
    ASSUME NEW T, NEW s \in Seq(T), IsInjective(s), NEW e \in T, e \notin ToSet(s)
    PROVE  /\ Append(s, e) \in Seq(T) /\ IsInjective(Append(s, e))
           /\ ToSet(Append(s, e)) = ToSet(s) \cup {e}
<1> DEFINE r == Append(s, e)
<1>1. /\ r \in Seq(T) /\ Len(r) = Len(s) + 1 /\ r[Len(s) + 1] = e
      /\ \A j \in 1..Len(s) : r[j] = s[j]
  OBVIOUS
<1> HIDE DEF r
<1>2. /\ \A j, k \in 1..Len(s) : s[j] = s[k] => j = k
      /\ \A j \in 1..Len(s) : s[j] # e
  BY DEF IsInjective, ToSet
<1>3. IsInjective(r)
  BY <1>1, <1>2 DEF IsInjective
<1>4. ToSet(r) = ToSet(s) \cup {e}
  <2>1. ToSet(r) \subseteq ToSet(s) \cup {e}
    BY <1>1 DEF ToSet
  <2>2. ToSet(s) \subseteq ToSet(r)
    BY <1>1 DEF ToSet
  <2>3. e \in ToSet(r)
    BY <1>1 DEF ToSet
  <2> QED BY <2>1, <2>2, <2>3
<1> QED BY <1>1, <1>3, <1>4 DEF r

LEMMA ReversedOnce ==
    ASSUME NEW T, NEW s \in Seq(T), IsInjective(s)
    PROVE  /\ Reverse(s) \in Seq(T) /\ IsInjective(Reverse(s))
           /\ ToSet(Reverse(s)) = ToSet(s)
<1> DEFINE r == Reverse(s)
<1>1. r = [i \in 1..Len(s) |-> s[(Len(s) - i) + 1]]
  BY DEF Reverse
<1> HIDE DEF r
<1>2. \A i \in 1..Len(s) : (Len(s) - i) + 1 \in 1..Len(s) /\ s[(Len(s) - i) + 1] \in T
  OBVIOUS
<1>3. r \in [1..Len(s) -> T]
  BY <1>1, <1>2
<1>4. r \in Seq(T) /\ Len(r) = Len(s) /\ DOMAIN r = 1..Len(s)
  BY <1>3
<1>5. IsInjective(r)
  <2>1. \A j, k \in 1..Len(s) : s[j] = s[k] => j = k
    BY DEF IsInjective
  <2> QED BY <1>1, <1>2, <1>4, <2>1 DEF IsInjective
<1>6. ToSet(r) \subseteq ToSet(s)
  BY <1>1, <1>2, <1>4 DEF ToSet
<1>7. ASSUME NEW i \in 1..Len(s) PROVE s[i] \in ToSet(r)
  <2>1. (Len(s) - i) + 1 \in 1..Len(s) /\ (Len(s) - ((Len(s) - i) + 1)) + 1 = i
    OBVIOUS
  <2>2. r[(Len(s) - i) + 1] = s[i]
    BY <1>1, <2>1
  <2> QED BY <1>4, <2>1, <2>2 DEF ToSet
<1>8. ToSet(s) \subseteq ToSet(r)
  BY <1>7 DEF ToSet
<1> QED BY <1>4, <1>5, <1>6, <1>8 DEF r

LEMMA TailedOnce ==
    ASSUME NEW T, NEW s \in Seq(T), IsInjective(s), s # << >>
    PROVE  /\ Head(s) \in T /\ Head(s) \in ToSet(s)
           /\ Tail(s) \in Seq(T) /\ IsInjective(Tail(s))
           /\ ToSet(Tail(s)) = ToSet(s) \ {Head(s)}
<1>1. /\ Head(s) = s[1] /\ Len(s) \in Nat \ {0} /\ 1 \in 1..Len(s)
      /\ Tail(s) \in Seq(T) /\ Len(Tail(s)) = Len(s) - 1
      /\ \A i \in 1..(Len(s) - 1) : Tail(s)[i] = s[i + 1]
  OBVIOUS
<1>2. \A j, k \in 1..Len(s) : s[j] = s[k] => j = k
  BY DEF IsInjective
<1> DEFINE r == Tail(s)
<1> HIDE DEF r
<1>3. /\ r \in Seq(T) /\ Len(r) = Len(s) - 1
      /\ \A i \in 1..(Len(s) - 1) : r[i] = s[i + 1]
  BY <1>1 DEF r
<1>4. IsInjective(r)
  BY <1>1, <1>2, <1>3 DEF IsInjective
<1>5. Head(s) \in T /\ Head(s) \in ToSet(s)
  BY <1>1 DEF ToSet
<1>6. ToSet(r) \subseteq ToSet(s) \ {Head(s)}
  BY <1>1, <1>2, <1>3 DEF ToSet
<1>7. ASSUME NEW i \in 1..Len(s), s[i] # Head(s) PROVE s[i] \in ToSet(r)
  <2>1. i - 1 \in 1..Len(r) /\ r[i - 1] = s[i]
    BY <1>1, <1>3, <1>7
  <2> QED BY <1>3, <2>1 DEF ToSet
<1>8. ToSet(s) \ {Head(s)} \subseteq ToSet(r)
  BY <1>7 DEF ToSet
<1> QED BY <1>3, <1>4, <1>5, <1>6, <1>8 DEF r

----
LEMMA InjInitially == InjectedInit => InjInv
<1> SUFFICES ASSUME InjectedInit PROVE InjInv
  OBVIOUS
<1>1. /\ osDown = {} /\ press_order = << >> /\ lock = Nothing
      /\ sending = Nothing /\ left = << >>
  BY DEF InjectedInit
<1>2. << >> \in Seq(Injectable) /\ IsInjective(<< >>) /\ ToSet(<< >>) = {}
  BY DEF IsInjective, ToSet
<1>3. PressOrderIsKept /\ LeftIsRecorded
  BY <1>1, <1>2 DEF PressOrderIsKept, LeftIsRecorded
<1>4. SendingIsDone
  BY <1>1, StrokeFields DEF SendingIsDone
<1>5. InputsAccounted
  BY <1>1 DEF InputsAccounted
<1> QED BY <1>1, <1>3, <1>4, <1>5 DEF InjInv

(* A stroke is sent: what is pressed is the one that is not recorded. *)
LEMMA SendsKeeps ==
    ASSUME InjInv, NEW x \in Inputs, NEW e \in {Press(x), Release(x)}, InjectSends(e)
    PROVE  InjInv'
<1>1. /\ sending = Nothing /\ sending' = e /\ x \in Injectable /\ e \in Strokes
      /\ UNCHANGED <<press_order, lock, left>>
  BY StrokeFields DEF InjectSends, Injectable
<1>2. \A y \in Inputs : sending # Press(y) \/ y \notin Injectable
  BY <1>1, StrokeFields
<1>3. osDown \subseteq IF lock = Nothing THEN ToSet(press_order) ELSE ToSet(left)
  BY <1>2 DEF InjInv, InputsAccounted
<1>4. CASE e = Press(x)
  <2>1. osDown' = osDown \cup {x}
    BY <1>4, StrokeFields DEF InjectSends, Sent
  <2>2. SendingIsDone'
    BY <1>1, <1>4, StrokeFields DEF SendingIsDone, Injectable
  <2>3. InputsAccounted'
    BY <1>1, <1>3, <1>4, <2>1 DEF InputsAccounted
  <2> QED BY <1>1, <2>1, <2>2, <2>3 DEF InjInv, PressOrderIsKept, LeftIsRecorded
<1>5. CASE e = Release(x)
  <2>1. osDown' = osDown \ {x}
    BY <1>5, StrokeFields DEF InjectSends, Sent
  <2>2. SendingIsDone'
    <3> SUFFICES ASSUME NEW y \in Injectable, sending' = Release(y) PROVE y \notin osDown'
      BY <1>1 DEF SendingIsDone
    <3>1. y = x
      BY <1>1, <1>5, StrokeFields DEF Injectable
    <3> QED BY <2>1, <3>1
  <2>3. InputsAccounted'
    BY <1>1, <1>3, <2>1 DEF InputsAccounted
  <2> QED BY <1>1, <2>1, <2>2, <2>3 DEF InjInv, PressOrderIsKept, LeftIsRecorded
<1> QED BY <1>4, <1>5

(* What was sent is recorded: a press that is down, a release that is not. *)
LEMMA RecordsKeeps ==
    ASSUME InjInv, InjectRecords
    PROVE  InjInv'
<1>1. /\ sending # Nothing /\ lock = Nothing /\ sending' = Nothing
      /\ UNCHANGED <<osDown, lock, left>>
  BY DEF InjectRecords
<1>2. /\ left = << >> /\ press_order \in Seq(Injectable) /\ IsInjective(press_order)
      /\ osDown \subseteq ToSet(press_order) \cup {x \in Inputs : sending = Press(x)}
      /\ sending \in Strokes /\ osDown \subseteq Injectable
  BY <1>1, LockFields DEF InjInv, PressOrderIsKept, LeftIsRecorded, InputsAccounted, SendingIsDone
<1>3. PICK x \in Injectable : sending = Press(x) \/ sending = Release(x)
  BY <1>2, StrokeFields
<1>4. SendingIsDone' /\ LeftIsRecorded'
  <2>1. SendingIsDone'
    BY <1>1, StrokeFields DEF SendingIsDone
  <2>2. ToSet(left) = {} /\ IsInjective(left) /\ left \in Seq(Injectable)
    BY <1>2 DEF ToSet, IsInjective
  <2> QED BY <1>1, <1>2, <2>1, <2>2 DEF LeftIsRecorded
<1>5. CASE sending = Press(x)
  <2>1. press_order' = mark_pressed(x)
    BY <1>5, StrokeFields DEF InjectRecords
  <2>2. PressOrderIsKept' /\ ToSet(press_order') = ToSet(press_order) \cup {x}
    BY <1>2, <2>1, AppendedOnce DEF mark_pressed, PressOrderIsKept
  <2>3. {y \in Inputs : sending = Press(y)} \subseteq {x}
    BY <1>5, StrokeFields DEF Injectable
  <2>4. InputsAccounted'
    BY <1>1, <1>2, <2>2, <2>3 DEF InputsAccounted
  <2> QED BY <1>1, <1>2, <1>4, <2>2, <2>4 DEF InjInv
<1>6. CASE sending = Release(x)
  <2>1. press_order' = mark_released(x)
    BY <1>6, StrokeFields DEF InjectRecords
  <2>2. PressOrderIsKept' /\ ToSet(press_order') = ToSet(press_order) \ {x}
    BY <1>2, <2>1, RemovedOnce DEF mark_released, PressOrderIsKept
  <2>3. {y \in Inputs : sending = Press(y)} = {} /\ x \notin osDown
    BY <1>6, StrokeFields DEF InjInv, SendingIsDone, Injectable
  <2>4. InputsAccounted'
    BY <1>1, <1>2, <2>2, <2>3 DEF InputsAccounted
  <2> QED BY <1>1, <1>2, <1>4, <2>2, <2>4 DEF InjInv
<1> QED BY <1>3, <1>5, <1>6

(* A release takes the list as it is, in the reverse order. *)
LEMMA BeginsKeeps ==
    ASSUME InjInv, NEW t \in Releasers, ReleaseBegins(t)
    PROVE  InjInv'
<1>1. /\ lock = Nothing /\ lock' = t /\ left' = Reverse(press_order) /\ t # Nothing
      /\ UNCHANGED <<osDown, press_order, sending>>
  BY LockFields DEF ReleaseBegins
<1>2. /\ left' \in Seq(Injectable) /\ IsInjective(left')
      /\ ToSet(left') = ToSet(press_order)
  BY <1>1, ReversedOnce DEF InjInv, PressOrderIsKept
<1>3. LeftIsRecorded'
  BY <1>1, <1>2 DEF LeftIsRecorded
<1>4. InputsAccounted'
  BY <1>1, <1>2 DEF InjInv, InputsAccounted
<1> QED BY <1>1, <1>3, <1>4 DEF InjInv, PressOrderIsKept, SendingIsDone

(* One input is lifted and no longer recorded. *)
LEMMA OneKeeps ==
    ASSUME InjInv, ReleaseOne
    PROVE  InjInv'
<1> DEFINE x == Head(left)
<1>1. /\ left # << >> /\ osDown' = osDown \ {x} /\ press_order' = mark_released(x)
      /\ left' = Tail(left) /\ UNCHANGED <<lock, sending>>
  BY StrokeFields DEF ReleaseOne, Sent
<1>2. /\ left \in Seq(Injectable) /\ IsInjective(left) /\ lock \in Releasers
      /\ ToSet(left) \subseteq ToSet(press_order)
      /\ press_order \in Seq(Injectable) /\ IsInjective(press_order)
  BY <1>1 DEF InjInv, LeftIsRecorded, PressOrderIsKept
<1>3. /\ left' \in Seq(Injectable) /\ IsInjective(left')
      /\ ToSet(left') = ToSet(left) \ {x}
  BY <1>1, <1>2, TailedOnce
<1>4. /\ press_order' \in Seq(Injectable) /\ IsInjective(press_order')
      /\ ToSet(press_order') = ToSet(press_order) \ {x}
  BY <1>1, <1>2, RemovedOnce DEF mark_released
<1>5. LeftIsRecorded' /\ PressOrderIsKept'
  BY <1>1, <1>2, <1>3, <1>4 DEF LeftIsRecorded, PressOrderIsKept
<1>6. InputsAccounted'
  BY <1>1, <1>2, <1>3, LockFields DEF InjInv, InputsAccounted
<1>7. SendingIsDone'
  BY <1>1 DEF InjInv, SendingIsDone
<1> QED BY <1>1, <1>5, <1>6, <1>7 DEF InjInv

(* A release that ends, for good or not: what it has not lifted is recorded. *)
LEMMA ReleaseStopsKeeps ==
    ASSUME InjInv, UNCHANGED <<osDown, press_order, sending>>,
           lock' = Nothing, left' = << >>, lock # Nothing
    PROVE  InjInv'
<1>1. ToSet(left) \subseteq ToSet(press_order)
  BY DEF InjInv, LeftIsRecorded
<1>2. LeftIsRecorded'
  <2>1. << >> \in Seq(Injectable) /\ IsInjective(<< >>) /\ ToSet(<< >>) = {}
    BY DEF IsInjective, ToSet
  <2> QED BY <2>1 DEF LeftIsRecorded
<1>3. InputsAccounted'
  BY <1>1 DEF InjInv, InputsAccounted
<1> QED BY <1>2, <1>3 DEF InjInv, PressOrderIsKept, SendingIsDone

LEMMA InjPreserved == InjInv /\ [InjectedStep]_injectedVars => InjInv'
<1> SUFFICES ASSUME InjInv, [InjectedStep]_injectedVars PROVE InjInv'
  OBVIOUS
<1>1. CASE UNCHANGED injectedVars
  BY <1>1 DEF injectedVars, InjInv, PressOrderIsKept, LeftIsRecorded, SendingIsDone, InputsAccounted
<1>2. ASSUME NEW x \in Inputs, InjectSends(Press(x)) \/ InjectSends(Release(x)) PROVE InjInv'
  BY <1>2, SendsKeeps
<1>3. CASE InjectRecords
  BY <1>3, RecordsKeeps
<1>4. ASSUME NEW t \in Releasers, ReleaseBegins(t) PROVE InjInv'
  BY <1>4, BeginsKeeps
<1>5. CASE ReleaseOne
  BY <1>5, OneKeeps
<1>6. CASE ReleaseFails
  <2>1. lock # Nothing
    BY <1>6, LockFields DEF InjInv, LeftIsRecorded, ReleaseFails
  <2> QED BY <1>6, <2>1, ReleaseStopsKeeps DEF ReleaseFails, StopsThere
<1>7. CASE ReleaseEnds
  BY <1>7, ReleaseStopsKeeps DEF ReleaseEnds
<1> QED BY <1>1, <1>2, <1>3, <1>4, <1>5, <1>6, <1>7 DEF InjectedStep

LEMMA InjTypes == InjInv => InjectedTypeOK
<1> SUFFICES ASSUME InjInv PROVE InjectedTypeOK
  OBVIOUS
<1>1. sending = Nothing \/ sending.input \in Inputs
  <2>1. CASE sending \in Strokes
    <3>1. PICK x \in Injectable : sending = Press(x) \/ sending = Release(x)
      BY <2>1, StrokeFields
    <3> QED BY <3>1, StrokeFields DEF Injectable
  <2> QED BY <2>1 DEF InjInv, SendingIsDone
<1>2. ToSet(press_order) \subseteq Injectable
  BY DEF InjInv, PressOrderIsKept, ToSet
<1>3. lock \in Releasers \cup {Nothing} /\ (left # << >> => lock # Nothing)
  BY LockFields DEF InjInv, LeftIsRecorded
<1> QED BY <1>1, <1>2, <1>3 DEF InjInv, PressOrderIsKept, InjectedTypeOK, Injectable

----
(***************************************************************************)
(* The capture session.  The event the thread is called with says what the *)
(* keyboard is like; nothing is consumed before the owner has taken a turn, *)
(* and what the desktop then takes for pressed was down when it began.     *)
(***************************************************************************)
KeyEvents == [key : Switches, isDown : BOOLEAN]

Starting == {"starting", "waiting"}

RawIsLatest == raw # NoEvent => (raw.isDown <=> raw.key \in down)

StartedInOrder ==
    /\ owner = "starting" => hook = "absent"
    /\ owner \in Starting => capturePolicy = "PassThrough"
    /\ hook \in {"absent", "spawned"} => ready = "nothing" /\ owner \in Starting

CapInv ==
    /\ CaptureTypeOK
    /\ raw \in KeyEvents \cup {NoEvent} /\ channel \in Seq(KeyEvents)
    /\ RawIsLatest
    /\ StartedInOrder
    /\ Consumed => desktop \subseteq turned
    /\ KeysAccounted

(* What the daemon takes a key for once it has received q, from the keys P it
   has: pressed, if the last of q about the key is a press. *)
LastPresses(q, k) ==
    \E i \in DOMAIN q : q[i] = Stroke(k, TRUE) /\ \A j \in DOMAIN q : j > i => q[j].key # k

Taken(q, P, k) == k \in P \ KeysOf(q) \/ LastPresses(q, k)

LEMMA TakenForPressedIs ==
    /\ TakenForPressed = {k \in Switches : Taken(underWay, pressed, k)}
    /\ TakenForPressed' = {k \in Switches : Taken(underWay', pressed', k)}
BY DEF TakenForPressed, Taken, LastPresses

LEMMA StrokeOf ==
    /\ NoEvent \notin KeyEvents
    /\ \A k \in Switches, d \in BOOLEAN : /\ Stroke(k, d) \in KeyEvents
                                          /\ Stroke(k, d).key = k /\ Stroke(k, d).isDown = d
    /\ \A k : Stroke(k, TRUE).key = k /\ Stroke(k, TRUE).isDown
    /\ \A e \in KeyEvents : /\ e.key \in Switches /\ e.isDown \in BOOLEAN
                          /\ e = Stroke(e.key, e.isDown)
BY CaptureAssumption DEF Stroke, KeyEvents

LEMMA TakenEmpty ==
    ASSUME NEW P, NEW k PROVE Taken(<< >>, P, k) <=> k \in P
BY DEF Taken, LastPresses, KeysOf

LEMMA TakenAppend ==
    ASSUME NEW q \in Seq(KeyEvents), NEW e \in KeyEvents, NEW P, NEW k \in Switches
    PROVE  /\ e.key = k => (Taken(Append(q, e), P, k) <=> e.isDown)
           /\ e.key # k => (Taken(Append(q, e), P, k) <=> Taken(q, P, k))
<1> DEFINE r == Append(q, e)
           n == Len(q) + 1
<1>1. /\ Len(q) \in Nat /\ DOMAIN q = 1..Len(q) /\ DOMAIN r = 1..n /\ r[n] = e
      /\ \A i \in 1..Len(q) : r[i] = q[i]
  OBVIOUS
<1>2. n \in Nat /\ n > Len(q)
  BY <1>1
<1> HIDE DEF r, n
<1>3. n \in DOMAIN r /\ (\A i \in DOMAIN q : i \in DOMAIN r /\ i < n /\ r[i] = q[i])
      /\ (\A i \in DOMAIN r : i = n \/ i \in DOMAIN q)
  BY <1>1, <1>2 DEF n
<1>4. ASSUME e.key = k PROVE Taken(r, P, k) <=> e.isDown
  <2>1. k \in KeysOf(r)
    BY <1>1, <1>3, <1>4 DEF KeysOf
  <2>2. LastPresses(r, k) => e.isDown
    <3> SUFFICES ASSUME NEW i \in DOMAIN r, r[i] = Stroke(k, TRUE),
                        \A j \in DOMAIN r : j > i => r[j].key # k
                 PROVE  e.isDown
      BY DEF LastPresses
    <3>1. i = n
      BY <1>1, <1>3, <1>4
    <3> QED BY <1>1, <3>1, StrokeOf
  <2>3. e.isDown => LastPresses(r, k)
    <3> SUFFICES ASSUME e.isDown PROVE LastPresses(r, k)
      OBVIOUS
    <3>1. r[n] = Stroke(k, TRUE)
      BY <1>1, <1>4, StrokeOf
    <3>2. \A j \in DOMAIN r : ~(j > n)
      BY <1>1, <1>2
    <3> QED BY <1>3, <3>1, <3>2 DEF LastPresses
  <2> QED BY <2>1, <2>2, <2>3 DEF Taken
<1>5. ASSUME e.key # k PROVE Taken(r, P, k) <=> Taken(q, P, k)
  <2>1. k \in KeysOf(r) <=> k \in KeysOf(q)
    BY <1>1, <1>3, <1>5 DEF KeysOf
  <2>2. LastPresses(r, k) => LastPresses(q, k)
    <3> SUFFICES ASSUME NEW i \in DOMAIN r, r[i] = Stroke(k, TRUE),
                        \A j \in DOMAIN r : j > i => r[j].key # k
                 PROVE  LastPresses(q, k)
      BY DEF LastPresses
    <3>1. i # n
      <4> SUFFICES ASSUME i = n PROVE FALSE
        OBVIOUS
      <4>1. e = Stroke(k, TRUE)
        BY <1>1
      <4>2. e.key = k
        BY <4>1 DEF Stroke
      <4> QED BY <1>5, <4>2
    <3>2. i \in DOMAIN q /\ q[i] = Stroke(k, TRUE)
      BY <1>3, <3>1
    <3> QED BY <1>3, <3>2 DEF LastPresses
  <2>3. LastPresses(q, k) => LastPresses(r, k)
    <3> SUFFICES ASSUME NEW i \in DOMAIN q, q[i] = Stroke(k, TRUE),
                        \A j \in DOMAIN q : j > i => q[j].key # k
                 PROVE  LastPresses(r, k)
      BY DEF LastPresses
    <3>1. \A j \in DOMAIN r : j > i => r[j].key # k
      BY <1>1, <1>3, <1>5
    <3> QED BY <1>3, <3>1 DEF LastPresses
  <2> QED BY <2>1, <2>2, <2>3 DEF Taken
<1> QED BY <1>4, <1>5 DEF r

LEMMA TakenTail ==
    ASSUME NEW q \in Seq(KeyEvents), q # << >>, NEW P, NEW k \in Switches
    PROVE  Taken(Tail(q), Tracked(P, Head(q)), k) <=> Taken(q, P, k)
<1> DEFINE r == Tail(q)
           e == Head(q)
           n == Len(q)
<1>1. /\ n \in Nat \ {0} /\ DOMAIN q = 1..n /\ DOMAIN r = 1..(n - 1)
      /\ \A i \in 1..(n - 1) : r[i] = q[i + 1]
      /\ e = q[1] /\ e \in KeyEvents
  OBVIOUS
<1> HIDE DEF r, e, n
<1>2. /\ 1 \in DOMAIN q
      /\ \A i \in DOMAIN r : i + 1 \in DOMAIN q /\ r[i] = q[i + 1]
      /\ \A i \in DOMAIN q : i # 1 => i - 1 \in DOMAIN r /\ r[i - 1] = q[i]
  BY <1>1
<1>3. KeysOf(q) = KeysOf(r) \cup {e.key}
  <2>1. KeysOf(r) \subseteq KeysOf(q)
    BY <1>2 DEF KeysOf
  <2>2. e.key \in KeysOf(q)
    BY <1>1, <1>2 DEF KeysOf
  <2>3. KeysOf(q) \subseteq KeysOf(r) \cup {e.key}
    BY <1>1, <1>2 DEF KeysOf
  <2> QED BY <2>1, <2>2, <2>3
<1>4. LastPresses(r, k) => LastPresses(q, k)
  <2> SUFFICES ASSUME NEW i \in DOMAIN r, r[i] = Stroke(k, TRUE),
                      \A j \in DOMAIN r : j > i => r[j].key # k
               PROVE  LastPresses(q, k)
    BY DEF LastPresses
  <2>1. \A j \in DOMAIN q : j > i + 1 => q[j].key # k
    <3> SUFFICES ASSUME NEW j \in DOMAIN q, j > i + 1 PROVE q[j].key # k
      OBVIOUS
    <3>1. j \in Int /\ i \in Int /\ i >= 1
      BY <1>1
    <3>2. j # 1 /\ j - 1 > i
      BY <3>1
    <3> QED BY <1>2, <3>2
  <2> QED BY <1>2, <2>1 DEF LastPresses
<1>5. LastPresses(q, k) => LastPresses(r, k) \/ (e = Stroke(k, TRUE) /\ k \notin KeysOf(r))
  <2> SUFFICES ASSUME NEW i \in DOMAIN q, q[i] = Stroke(k, TRUE),
                      \A j \in DOMAIN q : j > i => q[j].key # k
               PROVE  LastPresses(r, k) \/ (e = Stroke(k, TRUE) /\ k \notin KeysOf(r))
    BY DEF LastPresses
  <2>1. \A j \in DOMAIN r : j \in Int /\ j >= 1
    BY <1>1
  <2>2. CASE i = 1
    <3>1. \A j \in DOMAIN r : r[j].key # k
      BY <1>2, <2>1, <2>2
    <3> QED BY <1>1, <2>2, <3>1 DEF KeysOf
  <2>3. CASE i # 1
    <3>1. i - 1 \in DOMAIN r /\ r[i - 1] = Stroke(k, TRUE)
      BY <1>2, <2>3
    <3>2. i \in Int
      BY <1>1
    <3>3. \A j \in DOMAIN r : j > i - 1 => r[j].key # k
      BY <1>2, <2>1, <3>2
    <3> QED BY <3>1, <3>3 DEF LastPresses
  <2> QED BY <2>2, <2>3
<1>6. e = Stroke(k, TRUE) /\ k \notin KeysOf(r) => LastPresses(q, k)
  <2> SUFFICES ASSUME e = Stroke(k, TRUE), k \notin KeysOf(r) PROVE LastPresses(q, k)
    OBVIOUS
  <2>1. \A j \in DOMAIN q : j > 1 => q[j].key # k
    <3> SUFFICES ASSUME NEW j \in DOMAIN q, j > 1 PROVE q[j].key # k
      OBVIOUS
    <3>1. j # 1
      BY <1>1
    <3>2. j - 1 \in DOMAIN r /\ r[j - 1] = q[j]
      BY <1>2, <3>1
    <3> QED BY <3>2 DEF KeysOf
  <2> QED BY <1>1, <1>2, <2>1 DEF LastPresses
<1>7. LastPresses(r, k) => k \in KeysOf(r)
  <2> SUFFICES ASSUME NEW i \in DOMAIN r, r[i] = Stroke(k, TRUE) PROVE k \in KeysOf(r)
    BY DEF LastPresses
  <2>1. r[i].key = k
    BY StrokeOf
  <2> QED BY <2>1 DEF KeysOf
<1>8. /\ e.isDown \in BOOLEAN /\ e = Stroke(e.key, e.isDown)
      /\ Stroke(k, TRUE).key = k /\ Stroke(k, TRUE).isDown
  BY <1>1, StrokeOf
<1>9. CASE e.isDown
  <2>1. e.key = k <=> e = Stroke(k, TRUE)
    BY <1>8, <1>9
  <2>2. Tracked(P, e) = P \cup {e.key}
    BY <1>9 DEF Tracked
  <2> QED BY <1>3, <1>4, <1>5, <1>6, <1>7, <2>1, <2>2 DEF Taken, r, e
<1>10. CASE ~e.isDown
  <2>1. e # Stroke(k, TRUE)
    BY <1>8, <1>10
  <2>2. Tracked(P, e) = P \ {e.key}
    BY <1>10 DEF Tracked
  <2> QED BY <1>3, <1>4, <1>5, <1>7, <2>1, <2>2 DEF Taken, r, e
<1> QED BY <1>9, <1>10

----
LEMMA CapTypes ==
    ASSUME CapInv
    PROVE  /\ system \in Systems /\ capacity \in Nat /\ bounded_capacity \in Nat \ {0}
           /\ down \subseteq Switches /\ desktop \subseteq Switches /\ turned \subseteq Switches
           /\ pressed \subseteq Switches /\ missed \subseteq Switches
           /\ raw \in KeyEvents \cup {NoEvent}
           /\ channel \in Seq(KeyEvents) /\ Len(channel) <= bounded_capacity
           /\ underWay \in Seq(KeyEvents)
<1>1. channel \in Seq(KeyEvents) /\ raw \in KeyEvents \cup {NoEvent}
  BY DEF CapInv
<1>2. underWay \in Seq(KeyEvents)
  BY <1>1 DEF underWay
<1> QED BY <1>1, <1>2, CaptureAssumption DEF CapInv, CaptureTypeOK, bounded_capacity

LEMMA TrackedIn ==
    ASSUME NEW P \in SUBSET Switches, NEW e \in KeyEvents
    PROVE  Tracked(P, e) \subseteq Switches
BY StrokeOf DEF Tracked

(* The keys of events are keys. *)
LEMMA KeysOfIn ==
    ASSUME NEW q \in Seq(KeyEvents) PROVE KeysOf(q) \subseteq Switches
<1> SUFFICES ASSUME NEW i \in DOMAIN q PROVE q[i].key \in Switches
  BY DEF KeysOf
<1>1. q[i] \in KeyEvents
  OBVIOUS
<1> QED BY <1>1, StrokeOf

(* A step that leaves the keyboard, the desktop and the policy alone keeps
   what is said of them. *)
LEMMA DesktopKept ==
    ASSUME CapInv, UNCHANGED <<system, down, desktop, capturePolicy, turned>>,
           Consumed' => Consumed
    PROVE  /\ Consumed' => desktop' \subseteq turned'
           /\ (desktop \subseteq down \cup turned)'
BY DEF CapInv, KeysAccounted

LEMMA CapInitially == CaptureInit => CapInv
<1> SUFFICES ASSUME CaptureInit PROVE CapInv
  OBVIOUS
<1>1. /\ system \in Systems /\ capacity \in Nat /\ capacity \in Capacities /\ Len(<< >>) = 0
      /\ down = {} /\ desktop = {} /\ raw = NoEvent /\ missed = {}
      /\ channel = << >> /\ pressed = {} /\ capturePolicy = "PassThrough" /\ turned = {}
      /\ hook = "absent" /\ ready = "nothing" /\ quit = FALSE
      /\ running = TRUE /\ owner = "starting" /\ unposted = FALSE
  BY CaptureAssumption DEF CaptureInit
<1>2. CaptureTypeOK
  <2>1. Len(channel) <= bounded_capacity
    BY <1>1 DEF bounded_capacity
  <2>2. {quit, running, unposted} \subseteq BOOLEAN
    BY <1>1
  <2> QED BY <1>1, <2>1, <2>2 DEF CaptureTypeOK
<1>3. \A k \in Switches : ~Taken(underWay, pressed, k)
  BY <1>1, TakenEmpty DEF underWay
<1>4. KeysAccounted
  BY <1>1, <1>3, TakenForPressedIs DEF KeysAccounted
<1> QED BY <1>1, <1>2, <1>4 DEF CapInv, RawIsLatest, StartedInOrder, Starting, Consumed

(* The keyboard moves: an event is under way that says so, or nobody hears. *)
LEMMA KeyMovesKeeps ==
    ASSUME CapInv, NEW k \in Switches, KeyMoves(k)
    PROVE  CapInv'
<1> DEFINE e == Stroke(k, k \notin down)
<1>1. PICK d \in BOOLEAN : d = (k \notin down)
  OBVIOUS
<1>2. e \in KeyEvents /\ e.key = k /\ (e.isDown <=> k \notin down) /\ e # NoEvent
  BY <1>1, StrokeOf
<1>3. /\ raw = NoEvent /\ down' = Tracked(down, e)
      /\ desktop' = IF Consumed THEN desktop ELSE Tracked(desktop, e)
      /\ raw' = IF hook = "looping" THEN e ELSE NoEvent
      /\ missed' = IF hook = "looping" THEN missed ELSE missed \cup {k}
      /\ UNCHANGED <<setup, channel, pressed, policyVars, threads, running>>
  BY DEF KeyMoves
<1> HIDE DEF e
<1>4. down' \subseteq Switches /\ desktop' \subseteq Switches /\ missed' \subseteq Switches
  BY <1>2, <1>3, CapTypes, TrackedIn
<1>5. \A x \in Switches : /\ x # k => (x \in down' <=> x \in down)
                          /\ x = k => (x \in down' <=> x \notin down)
  BY <1>2, <1>3 DEF Tracked
<1>6. CaptureTypeOK' /\ (raw \in KeyEvents \cup {NoEvent})' /\ (channel \in Seq(KeyEvents))'
  <2>1. CaptureTypeOK
    BY DEF CapInv
  <2>2. raw' = NoEvent \/ raw'.key \in Switches
    BY <1>2, <1>3
  <2>3. bounded_capacity' = bounded_capacity
    BY <1>3 DEF bounded_capacity, setup
  <2> QED BY <1>2, <1>3, <1>4, <2>1, <2>2, <2>3 DEF CapInv, CaptureTypeOK, setup, policyVars, threads
<1>7. RawIsLatest'
  BY <1>2, <1>3, <1>5 DEF RawIsLatest
<1>8. StartedInOrder' /\ Consumed' = Consumed
  BY <1>3 DEF CapInv, StartedInOrder, Consumed, setup, policyVars, threads
<1>9. (Consumed => desktop \subseteq turned)' /\ (desktop \subseteq down \cup turned)'
  <2>1. CASE Consumed
    BY <1>3, <1>8, <2>1 DEF CapInv, policyVars
  <2>2. CASE ~Consumed
    <3>1. desktop \subseteq down \cup turned
      BY DEF CapInv, KeysAccounted
    <3>2. desktop' \subseteq down' \cup turned
      BY <1>2, <1>3, <2>2, <3>1 DEF Tracked
    <3> QED BY <1>3, <1>8, <2>2, <3>2 DEF policyVars
  <2> QED BY <2>1, <2>2
<1>10. (TakenForPressed \subseteq down \cup missed)'
  <2>1. underWay = channel /\ channel \in Seq(KeyEvents)
    BY <1>3 DEF underWay, CapInv
  <2> SUFFICES ASSUME NEW x \in Switches, Taken(underWay', pressed', x)
               PROVE  x \in down' \cup missed'
    BY TakenForPressedIs
  <2>2. Taken(underWay, pressed, x) => x \in down \cup missed
    BY TakenForPressedIs DEF CapInv, KeysAccounted
  <2>3. CASE hook = "looping"
    <3>1. underWay' = Append(channel, e) /\ pressed' = pressed /\ missed' = missed
      BY <1>2, <1>3, <2>3 DEF underWay
    <3>2. CASE x = k
      BY <1>2, <1>5, <2>1, <3>1, <3>2, TakenAppend
    <3>3. CASE x # k
      BY <1>2, <1>5, <2>1, <2>2, <3>1, <3>3, TakenAppend
    <3> QED BY <3>2, <3>3
  <2>4. CASE hook # "looping"
    <3>1. underWay' = underWay /\ pressed' = pressed /\ missed' = missed \cup {k}
      BY <1>3, <2>1, <2>4 DEF underWay
    <3> QED BY <1>5, <2>2, <3>1
  <2> QED BY <2>3, <2>4
<1> QED BY <1>6, <1>7, <1>8, <1>9, <1>10 DEF CapInv, KeysAccounted

(* The event goes into the channel, or is dropped and the key missed. *)
LEMMA ForwardsKeeps ==
    ASSUME CapInv, HookForwards
    PROVE  CapInv'
<1>1. /\ raw \in KeyEvents /\ raw # NoEvent /\ raw' = NoEvent /\ raw.key \in Switches
      /\ channel \in Seq(KeyEvents)
      /\ UNCHANGED <<setup, down, desktop, pressed, policyVars, threads, running>>
  BY StrokeOf DEF HookForwards, CapInv
<1>2. underWay = Append(channel, raw) /\ underWay' = channel'
  BY <1>1 DEF underWay
<1>3. \/ /\ Len(channel) < bounded_capacity
         /\ channel' = Append(channel, raw) /\ missed' = missed \ {raw.key}
      \/ channel' = channel /\ missed' = missed \cup {raw.key}
  BY DEF HookForwards, try_send_captured_input_event
<1>4. CaptureTypeOK' /\ (raw \in KeyEvents \cup {NoEvent})' /\ (channel \in Seq(KeyEvents))'
  <2>1. bounded_capacity' = bounded_capacity /\ bounded_capacity \in Nat
    BY <1>1, CapTypes DEF bounded_capacity, setup
  <2>2. channel' \in Seq(KeyEvents) /\ Len(channel') <= bounded_capacity
    BY <1>1, <1>3, <2>1, CapTypes
  <2>3. missed' \subseteq Switches
    BY <1>1, <1>3, CapTypes
  <2> QED BY <1>1, <2>1, <2>2, <2>3 DEF CapInv, CaptureTypeOK, setup, policyVars, threads
<1>5. RawIsLatest' /\ StartedInOrder' /\ Consumed' = Consumed
  BY <1>1 DEF CapInv, RawIsLatest, StartedInOrder, Consumed, setup, policyVars, threads
<1>6. (Consumed => desktop \subseteq turned)' /\ (desktop \subseteq down \cup turned)'
  BY <1>1, <1>5, DesktopKept DEF setup, policyVars
<1>7. (TakenForPressed \subseteq down \cup missed)'
  <2> SUFFICES ASSUME NEW x \in Switches, Taken(channel', pressed, x)
               PROVE  x \in down \cup missed'
    BY <1>1, <1>2, TakenForPressedIs
  <2>1. Taken(underWay, pressed, x) => x \in down \cup missed
    BY TakenForPressedIs DEF CapInv, KeysAccounted
  <2>2. raw.isDown <=> raw.key \in down
    BY <1>1 DEF CapInv, RawIsLatest
  <2>3. /\ raw.key = x => (Taken(Append(channel, raw), pressed, x) <=> raw.isDown)
        /\ raw.key # x => (Taken(Append(channel, raw), pressed, x) <=> Taken(channel, pressed, x))
    BY <1>1, TakenAppend
  <2>4. CASE x = raw.key
    BY <1>3, <2>2, <2>3, <2>4
  <2>5. CASE x # raw.key
    BY <1>2, <1>3, <2>1, <2>3, <2>5
  <2> QED BY <2>4, <2>5
<1> QED BY <1>4, <1>5, <1>6, <1>7 DEF CapInv, KeysAccounted

(* What is under way and is not received leaves its keys missed. *)
LEMMA DroppedKeeps ==
    ASSUME CapInv, channel' = << >>, missed' = missed \cup KeysOf(channel),
           UNCHANGED <<down, raw, pressed>>
    PROVE  (TakenForPressed \subseteq down \cup missed)'
<1>1. channel \in Seq(KeyEvents) /\ raw \in KeyEvents \cup {NoEvent}
  BY DEF CapInv
<1> SUFFICES ASSUME NEW x \in Switches, Taken(underWay', pressed, x), x \notin KeysOf(channel)
             PROVE  x \in down \cup missed
  BY TakenForPressedIs
<1>2. Taken(underWay, pressed, x) => x \in down \cup missed
  BY TakenForPressedIs DEF CapInv, KeysAccounted
<1>3. Taken(<< >>, pressed, x) => Taken(channel, pressed, x)
  BY TakenEmpty DEF Taken
<1>4. CASE raw = NoEvent
  BY <1>2, <1>3, <1>4 DEF underWay
<1>5. CASE raw \in KeyEvents
  <2>1. raw # NoEvent
    BY <1>5, StrokeOf
  <2>2. underWay = Append(channel, raw) /\ underWay' = Append(<< >>, raw)
    BY <2>1 DEF underWay
  <2>3. << >> \in Seq(KeyEvents)
    OBVIOUS
  <2>4. CASE raw.key = x
    BY <1>1, <1>2, <1>5, <2>2, <2>3, <2>4, TakenAppend
  <2>5. CASE raw.key # x
    BY <1>1, <1>2, <1>3, <1>5, <2>2, <2>3, <2>5, TakenAppend
  <2> QED BY <2>4, <2>5
<1> QED BY <1>1, <1>4, <1>5

(* A step that leaves the keyboard and what is under way alone. *)
LEMMA UnderWayKept ==
    ASSUME CapInv, UNCHANGED <<down, raw, missed, channel, pressed>>
    PROVE  (TakenForPressed \subseteq down \cup missed)'
<1>1. underWay' = underWay
  BY DEF underWay
<1>2. TakenForPressed' = TakenForPressed
  BY <1>1, TakenForPressedIs
<1> QED BY <1>2 DEF CapInv, KeysAccounted

(* The thread starts, is refused, ends, or fails: keys and policy stay. *)
LEMMA ThreadKeeps ==
    ASSUME CapInv, HookInstalled \/ HookRefused \/ HookEnds \/ HookFails
    PROVE  CapInv'
<1>1. /\ UNCHANGED <<setup, keyVars, channel, pressed, policyVars, quit, owner, unposted, running>>
      /\ hook \in {"spawned", "looping"} /\ hook' \in {"looping", "over"}
      /\ ready' \in {ready, "ok", "error"}
      /\ hook' = "looping" => hook = "spawned"
  BY DEF HookInstalled, HookRefused, HookEnds, HookFails
<1>2. CaptureTypeOK' /\ (raw \in KeyEvents \cup {NoEvent})' /\ (channel \in Seq(KeyEvents))'
  <2>1. bounded_capacity' = bounded_capacity
    BY <1>1 DEF bounded_capacity, setup
  <2> QED BY <1>1, <2>1 DEF CapInv, CaptureTypeOK, setup, policyVars, keyVars
<1>3. RawIsLatest' /\ StartedInOrder'
  BY <1>1 DEF CapInv, RawIsLatest, StartedInOrder, keyVars, policyVars
<1>4. Consumed' => Consumed
  <2>1. hook = "spawned" => capturePolicy = "PassThrough"
    BY DEF CapInv, StartedInOrder
  <2> QED BY <1>1, <2>1 DEF Consumed, policyVars, setup
<1>5. (Consumed => desktop \subseteq turned)' /\ (desktop \subseteq down \cup turned)'
  BY <1>1, <1>4, DesktopKept DEF setup, policyVars, keyVars
<1>6. (TakenForPressed \subseteq down \cup missed)'
  BY <1>1, UnderWayKept DEF keyVars
<1> QED BY <1>2, <1>3, <1>5, <1>6 DEF CapInv, KeysAccounted

(* The owner moves on, with the same policy and the same events under way. *)
LEMMA OwnerKeeps ==
    ASSUME CapInv, StartCapture \/ StartReported \/ WorkerSpawned \/ TimesOut \/ AsksToStop
    PROVE  CapInv'
<1>1. /\ UNCHANGED <<setup, keyVars, channel, pressed, policyVars, ready, quit, unposted>>
      /\ owner' \in {"waiting", "started", "top", "receiving", "stopping", "joining", "over"}
      /\ hook' \in {hook, "spawned"} /\ running' \in {running, FALSE}
      /\ hook' # hook => owner = "starting" /\ hook' = "spawned" /\ owner' = "waiting"
      /\ owner' = "waiting" => owner = "starting"
      /\ owner \in Starting => owner' = "waiting" \/ ready # "nothing"
  BY DEF StartCapture, StartReported, WorkerSpawned, TimesOut, AsksToStop, Moves, threads, Starting,
         CapInv, CaptureTypeOK
<1>2. CaptureTypeOK' /\ (raw \in KeyEvents \cup {NoEvent})' /\ (channel \in Seq(KeyEvents))'
  <2>1. bounded_capacity' = bounded_capacity
    BY <1>1 DEF bounded_capacity, setup
  <2> QED BY <1>1, <2>1 DEF CapInv, CaptureTypeOK, setup, policyVars, keyVars
<1>3. RawIsLatest'
  BY <1>1 DEF CapInv, RawIsLatest, keyVars
<1>4. StartedInOrder'
  BY <1>1 DEF CapInv, StartedInOrder, Starting, policyVars
<1>5. Consumed' => Consumed
  BY <1>1 DEF Consumed, policyVars, setup
<1>6. (Consumed => desktop \subseteq turned)' /\ (desktop \subseteq down \cup turned)'
  BY <1>1, <1>5, DesktopKept DEF setup, policyVars, keyVars
<1>7. (TakenForPressed \subseteq down \cup missed)'
  BY <1>1, UnderWayKept DEF keyVars
<1> QED BY <1>2, <1>3, <1>4, <1>6, <1>7 DEF CapInv, KeysAccounted

(* A turn begins: what is down when the policy changes may stay pressed. *)
LEMMA TurnKeeps ==
    ASSUME CapInv, TurnBegins
    PROVE  CapInv'
<1>1. /\ UNCHANGED <<setup, keyVars, channel, pressed, hook, ready, quit, unposted, running>>
      /\ owner = "top" /\ owner' \in {"receiving", "stopping"}
      /\ \/ UNCHANGED policyVars
         \/ /\ capturePolicy' \in {"PassThrough", "ConsumeCapturedInput"}
            /\ turned' = IF capturePolicy' = capturePolicy THEN turned ELSE turned \cup down
  BY DEF TurnBegins, Moves
<1>2. turned' \subseteq Switches /\ turned \subseteq turned'
      /\ capturePolicy' \in {"PassThrough", "ConsumeCapturedInput"}
  BY <1>1 DEF CapInv, CaptureTypeOK, policyVars
<1>3. CaptureTypeOK' /\ (raw \in KeyEvents \cup {NoEvent})' /\ (channel \in Seq(KeyEvents))'
  <2>1. bounded_capacity' = bounded_capacity
    BY <1>1 DEF bounded_capacity, setup
  <2> QED BY <1>1, <1>2, <2>1 DEF CapInv, CaptureTypeOK, setup, keyVars
<1>4. RawIsLatest' /\ StartedInOrder'
  BY <1>1 DEF CapInv, RawIsLatest, StartedInOrder, Starting, keyVars
<1>5. (desktop \subseteq down \cup turned)'
  BY <1>1, <1>2 DEF CapInv, KeysAccounted, keyVars
<1>6. (Consumed => desktop \subseteq turned)'
  <2>1. CASE capturePolicy' = capturePolicy
    <3>1. Consumed' => Consumed
      BY <1>1, <2>1 DEF Consumed, setup
    <3> QED BY <1>1, <1>2, <3>1 DEF CapInv, keyVars
  <2>2. CASE capturePolicy' # capturePolicy
    <3>1. turned' = turned \cup down
      BY <1>1, <2>2 DEF policyVars
    <3> QED BY <1>1, <3>1 DEF CapInv, KeysAccounted, keyVars
  <2> QED BY <2>1, <2>2
<1>7. (TakenForPressed \subseteq down \cup missed)'
  BY <1>1, UnderWayKept DEF keyVars
<1> QED BY <1>3, <1>4, <1>5, <1>6, <1>7 DEF CapInv, KeysAccounted

(* What is received is no longer under way, and is taken into account. *)
LEMMA ReceivesKeeps ==
    ASSUME CapInv, Receives
    PROVE  CapInv'
<1>1. /\ channel # << >> /\ channel' = Tail(channel) /\ pressed' = Tracked(pressed, Head(channel))
      /\ owner = "receiving" /\ owner' = "top"
      /\ UNCHANGED <<setup, keyVars, policyVars, hook, ready, quit, unposted, running>>
  BY DEF Receives, Moves
<1>2. /\ channel \in Seq(KeyEvents) /\ raw \in KeyEvents \cup {NoEvent}
      /\ Tail(channel) \in Seq(KeyEvents) /\ Head(channel) \in KeyEvents
      /\ Len(Tail(channel)) = Len(channel) - 1
  BY <1>1 DEF CapInv
<1>3. CaptureTypeOK' /\ (raw \in KeyEvents \cup {NoEvent})' /\ (channel \in Seq(KeyEvents))'
  <2>1. bounded_capacity' = bounded_capacity /\ bounded_capacity \in Nat
    BY <1>1, CapTypes DEF bounded_capacity, setup
  <2>2. Len(channel') <= bounded_capacity
    BY <1>1, <1>2, <2>1, CapTypes
  <2>3. pressed' \subseteq Switches
    BY <1>1, <1>2, CapTypes, TrackedIn
  <2> QED BY <1>1, <1>2, <2>1, <2>2, <2>3 DEF CapInv, CaptureTypeOK, setup, keyVars, policyVars
<1>4. RawIsLatest' /\ StartedInOrder' /\ Consumed' = Consumed
  BY <1>1 DEF CapInv, RawIsLatest, StartedInOrder, Starting, Consumed, setup, policyVars, keyVars
<1>5. (Consumed => desktop \subseteq turned)' /\ (desktop \subseteq down \cup turned)'
  BY <1>1, <1>4, DesktopKept DEF setup, policyVars, keyVars
<1>6. (TakenForPressed \subseteq down \cup missed)'
  <2>1. underWay \in Seq(KeyEvents) /\ underWay # << >>
    BY <1>1, <1>2 DEF underWay
  <2>2. Head(underWay) = Head(channel) /\ underWay' = Tail(underWay)
    <3>1. CASE raw = NoEvent
      BY <1>1, <3>1 DEF underWay, keyVars
    <3>2. CASE raw # NoEvent
      <4>1. Head(Append(channel, raw)) = Head(channel)
        BY <1>1, <1>2
      <4>2. Tail(Append(channel, raw)) = Append(Tail(channel), raw)
        BY <1>1, <1>2, <3>2
      <4> QED BY <1>1, <3>2, <4>1, <4>2 DEF underWay, keyVars
    <3> QED BY <3>1, <3>2
  <2> SUFFICES ASSUME NEW x \in Switches, Taken(underWay', pressed', x)
               PROVE  x \in down \cup missed
    BY <1>1, TakenForPressedIs DEF keyVars
  <2>3. Taken(underWay, pressed, x)
    BY <1>1, <2>1, <2>2, TakenTail
  <2> QED BY <2>3, TakenForPressedIs DEF CapInv, KeysAccounted
<1> QED BY <1>3, <1>4, <1>5, <1>6 DEF CapInv, KeysAccounted

(* The owner asks the thread to end, or lets go of the channel. *)
LEMMA OwnerStopsKeeps ==
    ASSUME CapInv, StopAsks \/ StopJoins
    PROVE  CapInv'
<1>1. /\ UNCHANGED <<setup, down, desktop, raw, pressed, policyVars, hook, ready, running>>
      /\ owner \in {"stopping", "joining"} /\ owner' \in {"joining", "over"}
      /\ quit' \in {quit, TRUE} /\ unposted' \in BOOLEAN
      /\ \/ UNCHANGED <<missed, channel>>
         \/ channel' = << >> /\ missed' = missed \cup KeysOf(channel)
  BY DEF StopAsks, StopJoins, Moves, CapInv, CaptureTypeOK
<1>2. CaptureTypeOK' /\ (raw \in KeyEvents \cup {NoEvent})' /\ (channel \in Seq(KeyEvents))'
  <2>1. bounded_capacity' = bounded_capacity /\ bounded_capacity \in Nat
    BY <1>1, CapTypes DEF bounded_capacity, setup
  <2>2. channel' \in Seq(KeyEvents) /\ Len(channel') <= bounded_capacity
    <3>1. CASE channel' = channel
      BY <3>1, CapTypes
    <3>2. CASE channel' = << >>
      <4>1. << >> \in Seq(KeyEvents) /\ Len(<< >>) = 0
        OBVIOUS
      <4> QED BY <2>1, <3>2, <4>1
    <3> QED BY <1>1, <3>1, <3>2
  <2>3. missed' \subseteq Switches
    BY <1>1, CapTypes, KeysOfIn
  <2> QED BY <1>1, <2>1, <2>2, <2>3 DEF CapInv, CaptureTypeOK, setup, policyVars
<1>3. RawIsLatest' /\ StartedInOrder' /\ Consumed' = Consumed
  BY <1>1 DEF CapInv, RawIsLatest, StartedInOrder, Starting, Consumed, setup, policyVars
<1>4. (Consumed => desktop \subseteq turned)' /\ (desktop \subseteq down \cup turned)'
  BY <1>1, <1>3, DesktopKept DEF setup, policyVars
<1>5. (TakenForPressed \subseteq down \cup missed)'
  BY <1>1, UnderWayKept, DroppedKeeps
<1> QED BY <1>2, <1>3, <1>4, <1>5 DEF CapInv, KeysAccounted

(* A recovery clears the keys: what is then taken for pressed was before. *)
LEMMA RecoversKeeps ==
    ASSUME CapInv, Recovers
    PROVE  CapInv'
<1>1. pressed' = {} /\ UNCHANGED <<setup, keyVars, channel, policyVars, threads, running>>
  BY DEF Recovers
<1>2. CaptureTypeOK' /\ (raw \in KeyEvents \cup {NoEvent})' /\ (channel \in Seq(KeyEvents))'
  <2>1. bounded_capacity' = bounded_capacity
    BY <1>1 DEF bounded_capacity, setup
  <2> QED BY <1>1, <2>1 DEF CapInv, CaptureTypeOK, setup, policyVars, keyVars, threads
<1>3. RawIsLatest' /\ StartedInOrder' /\ Consumed' = Consumed
  BY <1>1 DEF CapInv, RawIsLatest, StartedInOrder, Consumed, setup, policyVars, keyVars, threads
<1>4. (Consumed => desktop \subseteq turned)' /\ (desktop \subseteq down \cup turned)'
  BY <1>1, <1>3, DesktopKept DEF setup, policyVars, keyVars
<1>5. (TakenForPressed \subseteq down \cup missed)'
  <2> SUFFICES ASSUME NEW x \in Switches, Taken(underWay', pressed', x)
               PROVE  x \in down \cup missed
    BY <1>1, TakenForPressedIs DEF keyVars
  <2>1. Taken(underWay, pressed, x)
    BY <1>1 DEF Taken, underWay, keyVars
  <2> QED BY <2>1, TakenForPressedIs DEF CapInv, KeysAccounted
<1> QED BY <1>2, <1>3, <1>4, <1>5 DEF CapInv, KeysAccounted

LEMMA CapPreserved == CapInv /\ [CaptureStep]_captureVars => CapInv'
<1> SUFFICES ASSUME CapInv, [CaptureStep]_captureVars PROVE CapInv'
  OBVIOUS
<1>1. CASE UNCHANGED captureVars
  <2>1. UNCHANGED <<setup, keyVars, channel, pressed, policyVars, threads, running>>
    BY <1>1 DEF captureVars
  <2>2. CaptureTypeOK' /\ (raw \in KeyEvents \cup {NoEvent})' /\ (channel \in Seq(KeyEvents))'
    <3>1. bounded_capacity' = bounded_capacity
      BY <2>1 DEF bounded_capacity, setup
    <3> QED BY <2>1, <3>1 DEF CapInv, CaptureTypeOK, setup, policyVars, keyVars, threads
  <2>3. RawIsLatest' /\ StartedInOrder' /\ Consumed' = Consumed
    BY <2>1 DEF CapInv, RawIsLatest, StartedInOrder, Consumed, setup, policyVars, keyVars, threads
  <2>4. (Consumed => desktop \subseteq turned)' /\ (desktop \subseteq down \cup turned)'
    BY <2>1, <2>3, DesktopKept DEF setup, policyVars, keyVars
  <2>5. (TakenForPressed \subseteq down \cup missed)'
    BY <2>1, UnderWayKept DEF keyVars
  <2> QED BY <2>2, <2>3, <2>4, <2>5 DEF CapInv, KeysAccounted
<1>2. ASSUME NEW k \in Switches, KeyMoves(k) PROVE CapInv'
  BY <1>2, KeyMovesKeeps
<1>3. CASE HookInstalled \/ HookRefused \/ HookEnds \/ HookFails
  BY <1>3, ThreadKeeps
<1>4. CASE HookForwards
  BY <1>4, ForwardsKeeps
<1>5. CASE StartCapture \/ StartReported \/ WorkerSpawned \/ TimesOut \/ AsksToStop
  BY <1>5, OwnerKeeps
<1>6. CASE TurnBegins
  BY <1>6, TurnKeeps
<1>7. CASE Receives
  BY <1>7, ReceivesKeeps
<1>8. CASE StopAsks \/ StopJoins
  BY <1>8, OwnerStopsKeeps
<1>9. CASE Recovers
  BY <1>9, RecoversKeeps
<1> QED
  BY <1>1, <1>2, <1>3, <1>4, <1>5, <1>6, <1>7, <1>8, <1>9 DEF CaptureStep, HookStep, OwnerStep

----
(***************************************************************************)
(* Discovery.  What is on the air under a name is what the last event      *)
(* under way about the name says, and what the worker has for it if there  *)
(* is none.  Nothing is ever known under a name that is not in lower case. *)
(***************************************************************************)
AirEvents ==
    [kind : {"resolved"}, fullname : {f \in Fullnames : Lower[f] = f}, service : Announcements]
    \cup [kind : {"removed"}, fullname : Fullnames, service : {NONE}]

Decides(e, f) ==
    IF e.kind = "removed" THEN f \in {e.fullname, Lower[e.fullname]}
                          ELSE e.fullname = f /\ IsDiscoverable(e.service)

Says(e, f) == IF e.kind = "removed" THEN NONE ELSE DiscoveredPeer(f, e.service)

LastDecides(q, i, f) == Decides(q[i], f) /\ \A j \in DOMAIN q : j > i => ~Decides(q[j], f)

(* What f has, once q is applied to what it has now. *)
Becomes(q, f, now, then) ==
    /\ (\A i \in DOMAIN q : ~Decides(q[i], f)) => then = now
    /\ \A i \in DOMAIN q : LastDecides(q, i, f) => then = Says(q[i], f)

AirIsTyped ==
    /\ events \in Seq(AirEvents) /\ Len(events) <= MaxEvents
    /\ discovering \in {"off", "on", "stopping"}
    /\ DOMAIN peers = Fullnames /\ peers = [f \in Fullnames |-> peers[f]]
    /\ DOMAIN onAir = Fullnames /\ onAir = [f \in Fullnames |-> onAir[f]]

KnownAsAnnounced ==
    \A f \in Fullnames : peers[f] # NONE =>
        \E a \in Announcements : IsDiscoverable(a) /\ peers[f] = DiscoveredPeer(f, a)

OnlyLowerCase == \A f \in Fullnames : Lower[f] # f => peers[f] = NONE /\ onAir[f] = NONE

AirFollows == \A f \in Fullnames : Becomes(events, f, peers[f], onAir[f])

AirInv == AirIsTyped /\ KnownAsAnnounced /\ OnlyLowerCase /\ AirFollows

LEMMA AirEventFields ==
    /\ \A f \in Fullnames : Lower[f] \in Fullnames
    /\ MaxEvents \in Nat
    /\ \A e \in AirEvents : /\ e.kind \in {"resolved", "removed"} /\ e.fullname \in Fullnames
                            /\ e.kind = "resolved" => e.service \in Announcements
                                                      /\ Lower[e.fullname] = e.fullname
    /\ \A f \in Fullnames, a \in Announcements : Lower[f] = f =>
          [kind |-> "resolved", fullname |-> f, service |-> a] \in AirEvents
    /\ \A f \in Fullnames : [kind |-> "removed", fullname |-> f, service |-> NONE] \in AirEvents
BY DiscoveryAssumption DEF AirEvents

(* One more event decides, or leaves things as they were. *)
LEMMA BecomesAppend ==
    ASSUME NEW q \in Seq(AirEvents), NEW e \in AirEvents, NEW f, NEW now, NEW then,
           Becomes(q, f, now, then)
    PROVE  /\ ~Decides(e, f) => Becomes(Append(q, e), f, now, then)
           /\ Decides(e, f) => Becomes(Append(q, e), f, now, Says(e, f))
<1> DEFINE r == Append(q, e)
           n == Len(q) + 1
<1>1. /\ Len(q) \in Nat /\ DOMAIN q = 1..Len(q) /\ DOMAIN r = 1..n /\ r[n] = e
      /\ \A i \in 1..Len(q) : r[i] = q[i]
  OBVIOUS
<1>2. n \in Nat /\ n > Len(q) /\ n \in 1..n
  BY <1>1
<1> HIDE DEF r, n
<1>3. /\ n \in DOMAIN r
      /\ \A i \in DOMAIN q : i \in DOMAIN r /\ i < n /\ r[i] = q[i]
      /\ \A i \in DOMAIN r : (i = n \/ i \in DOMAIN q) /\ i \in Int /\ ~(i > n)
  BY <1>1, <1>2 DEF n
<1>4. ASSUME ~Decides(e, f) PROVE Becomes(r, f, now, then)
  <2>1. ASSUME \A i \in DOMAIN r : ~Decides(r[i], f) PROVE then = now
    <3>1. \A i \in DOMAIN q : ~Decides(q[i], f)
      BY <1>3, <2>1
    <3> QED BY <3>1 DEF Becomes
  <2>2. ASSUME NEW i \in DOMAIN r, LastDecides(r, i, f) PROVE then = Says(r[i], f)
    <3>1. i # n
      BY <1>1, <1>4, <2>2 DEF LastDecides
    <3>2. i \in DOMAIN q /\ r[i] = q[i]
      BY <1>3, <3>1
    <3>3. LastDecides(q, i, f)
      BY <1>3, <2>2, <3>2 DEF LastDecides
    <3> QED BY <3>2, <3>3 DEF Becomes
  <2> QED BY <2>1, <2>2 DEF Becomes
<1>5. ASSUME Decides(e, f) PROVE Becomes(r, f, now, Says(e, f))
  <2>1. ~\A i \in DOMAIN r : ~Decides(r[i], f)
    BY <1>1, <1>3, <1>5
  <2>2. ASSUME NEW i \in DOMAIN r, LastDecides(r, i, f) PROVE Says(r[i], f) = Says(e, f)
    <3>1. i = n
      BY <1>1, <1>3, <1>5, <2>2 DEF LastDecides
    <3> QED BY <1>1, <3>1
  <2> QED BY <2>1, <2>2 DEF Becomes
<1> QED BY <1>4, <1>5 DEF r

(* The first event is applied. *)
LEMMA BecomesTail ==
    ASSUME NEW q \in Seq(AirEvents), q # << >>, NEW f, NEW now, NEW then,
           Becomes(q, f, now, then)
    PROVE  /\ ~Decides(Head(q), f) => Becomes(Tail(q), f, now, then)
           /\ Decides(Head(q), f) => Becomes(Tail(q), f, Says(Head(q), f), then)
<1> DEFINE r == Tail(q)
           e == Head(q)
           n == Len(q)
<1>1. /\ n \in Nat \ {0} /\ DOMAIN q = 1..n /\ DOMAIN r = 1..(n - 1)
      /\ \A i \in 1..(n - 1) : r[i] = q[i + 1]
      /\ e = q[1]
  OBVIOUS
<1> HIDE DEF r, e, n
<1>2. /\ 1 \in DOMAIN q
      /\ \A i \in DOMAIN r : i \in Int /\ i >= 1 /\ i + 1 \in DOMAIN q /\ r[i] = q[i + 1]
      /\ \A i \in DOMAIN q : i # 1 => i - 1 \in DOMAIN r /\ r[i - 1] = q[i]
      /\ \A i \in DOMAIN q : i \in Int /\ i >= 1
  BY <1>1
(* The last of the rest that decides is the last of all. *)
<1>3. ASSUME NEW i \in DOMAIN r, LastDecides(r, i, f) PROVE then = Says(r[i], f)
  <2>1. \A j \in DOMAIN q : j > i + 1 => ~Decides(q[j], f)
    <3> SUFFICES ASSUME NEW j \in DOMAIN q, j > i + 1 PROVE ~Decides(q[j], f)
      OBVIOUS
    <3>1. j # 1 /\ j - 1 > i
      BY <1>2
    <3> QED BY <1>2, <1>3, <3>1 DEF LastDecides
  <2>2. LastDecides(q, i + 1, f)
    BY <1>2, <1>3, <2>1 DEF LastDecides
  <2> QED BY <1>2, <2>2 DEF Becomes
<1>4. ASSUME \A i \in DOMAIN r : ~Decides(r[i], f)
      PROVE  \A j \in DOMAIN q : j # 1 => ~Decides(q[j], f)
  BY <1>2, <1>4
<1>5. ASSUME ~Decides(e, f), \A i \in DOMAIN r : ~Decides(r[i], f) PROVE then = now
  <2>1. \A j \in DOMAIN q : ~Decides(q[j], f)
    BY <1>1, <1>4, <1>5
  <2> QED BY <2>1 DEF Becomes
<1>6. ASSUME Decides(e, f), \A i \in DOMAIN r : ~Decides(r[i], f) PROVE then = Says(e, f)
  <2>1. LastDecides(q, 1, f)
    BY <1>1, <1>2, <1>4, <1>6 DEF LastDecides
  <2> QED BY <1>1, <1>2, <2>1 DEF Becomes
<1> QED BY <1>3, <1>5, <1>6 DEF r, e, Becomes

LEMMA BecomesNothing ==
    ASSUME NEW f, NEW now, NEW then
    PROVE  Becomes(<< >>, f, now, then) <=> then = now
BY DEF Becomes

(* Applying an event gives the names it decides what it says. *)
LEMMA Applied ==
    ASSUME NEW map, DOMAIN map = Fullnames, map = [f \in Fullnames |-> map[f]],
           NEW e \in AirEvents
    PROVE  /\ apply_event(map, e) = [f \in Fullnames |-> apply_event(map, e)[f]]
           /\ DOMAIN apply_event(map, e) = Fullnames
           /\ \A f \in Fullnames :
                 apply_event(map, e)[f] = IF Decides(e, f) THEN Says(e, f) ELSE map[f]
<1>1. e.fullname \in Fullnames /\ e.kind \in {"resolved", "removed"}
  BY AirEventFields
<1>2. CASE e.kind = "removed"
  BY <1>2 DEF apply_event, Decides, Says
<1>3. CASE e.kind # "removed" /\ IsDiscoverable(e.service)
  BY <1>1, <1>3 DEF apply_event, Decides, Says
<1>4. CASE e.kind # "removed" /\ ~IsDiscoverable(e.service)
  BY <1>1, <1>4 DEF apply_event, Decides
<1> QED BY <1>2, <1>3, <1>4

----
LEMMA AirInitially == DiscoveryInit => AirInv
<1> SUFFICES ASSUME DiscoveryInit PROVE AirInv
  OBVIOUS
<1>1. /\ events = << >> /\ discovering = "off"
      /\ peers = [f \in Fullnames |-> NONE] /\ onAir = [f \in Fullnames |-> NONE]
  BY DEF DiscoveryInit
<1>2. AirIsTyped
  <2>1. << >> \in Seq(AirEvents) /\ Len(<< >>) <= MaxEvents
    BY AirEventFields
  <2> QED BY <1>1, <2>1 DEF AirIsTyped
<1>3. KnownAsAnnounced /\ OnlyLowerCase
  BY <1>1 DEF KnownAsAnnounced, OnlyLowerCase
<1>4. AirFollows
  BY <1>1, BecomesNothing DEF AirFollows
<1> QED BY <1>2, <1>3, <1>4 DEF AirInv

(* An event comes: the air changes for the names it decides, and for no name
   that is not in lower case. *)
LEMMA AirChanges ==
    ASSUME AirInv, NEW e \in AirEvents, Len(events) < MaxEvents,
           events' = Append(events, e), UNCHANGED <<peers, discovering>>,
           DOMAIN onAir' = Fullnames, onAir' = [f \in Fullnames |-> onAir'[f]],
           \A f \in Fullnames : Lower[f] = f =>
              onAir'[f] = IF Decides(e, f) THEN Says(e, f) ELSE onAir[f],
           \A f \in Fullnames : Lower[f] # f =>
              onAir'[f] = NONE /\ (Decides(e, f) => Says(e, f) = NONE)
    PROVE  AirInv'
<1>1. events \in Seq(AirEvents) /\ Len(events) \in Nat /\ Len(events') = Len(events) + 1
  BY DEF AirInv, AirIsTyped
<1>2. AirIsTyped'
  BY <1>1, AirEventFields DEF AirInv, AirIsTyped
<1>3. KnownAsAnnounced' /\ OnlyLowerCase'
  BY DEF AirInv, KnownAsAnnounced, OnlyLowerCase
<1>4. AirFollows'
  <2> SUFFICES ASSUME NEW f \in Fullnames PROVE Becomes(events', f, peers[f], onAir'[f])
    BY DEF AirFollows
  <2>1. Becomes(events, f, peers[f], onAir[f])
    BY DEF AirInv, AirFollows
  <2>2. onAir'[f] = IF Decides(e, f) THEN Says(e, f) ELSE onAir[f]
    BY DEF AirInv, OnlyLowerCase
  <2>3. /\ ~Decides(e, f) => Becomes(Append(events, e), f, peers[f], onAir[f])
        /\ Decides(e, f) => Becomes(Append(events, e), f, peers[f], Says(e, f))
    BY <1>1, <2>1, BecomesAppend
  <2> QED BY <2>2, <2>3
<1> QED BY <1>2, <1>3, <1>4 DEF AirInv

LEMMA AnnounceKeeps ==
    ASSUME AirInv, NEW f \in Fullnames, NEW a \in Announcements, Announce(f, a)
    PROVE  AirInv'
<1> DEFINE e == [kind |-> "resolved", fullname |-> f, service |-> a]
<1>1. /\ Len(events) < MaxEvents /\ f = Lower[f] /\ events' = Append(events, e)
      /\ onAir' = IF IsDiscoverable(a) THEN [onAir EXCEPT ![f] = DiscoveredPeer(f, a)] ELSE onAir
      /\ UNCHANGED <<peers, discovering>>
  BY DEF Announce
<1>2. e \in AirEvents
  BY <1>1, AirEventFields
<1>3. /\ \A g : Decides(e, g) <=> (g = f /\ IsDiscoverable(a))
      /\ Says(e, f) = DiscoveredPeer(f, a)
  BY DEF Decides, Says
<1> HIDE DEF e
<1>4. DOMAIN onAir = Fullnames /\ onAir = [g \in Fullnames |-> onAir[g]]
  BY DEF AirInv, AirIsTyped
<1>5. DOMAIN onAir' = Fullnames /\ onAir' = [g \in Fullnames |-> onAir'[g]]
  BY <1>1, <1>4
<1>6. \A g \in Fullnames : onAir'[g] = IF Decides(e, g) THEN Says(e, g) ELSE onAir[g]
  BY <1>1, <1>3, <1>4
<1>7. \A g \in Fullnames : Lower[g] # g => ~Decides(e, g) /\ onAir[g] = NONE
  BY <1>1, <1>3 DEF AirInv, OnlyLowerCase
<1> QED BY <1>1, <1>2, <1>5, <1>6, <1>7, AirChanges

LEMMA WithdrawKeeps ==
    ASSUME AirInv, NEW f \in Fullnames, Withdraw(f)
    PROVE  AirInv'
<1> DEFINE e == [kind |-> "removed", fullname |-> f, service |-> NONE]
<1>1. /\ Len(events) < MaxEvents /\ events' = Append(events, e)
      /\ onAir' = [onAir EXCEPT ![Lower[f]] = NONE]
      /\ UNCHANGED <<peers, discovering>>
  BY DEF Withdraw
<1>2. e \in AirEvents
  BY AirEventFields
<1>3. \A g : (Decides(e, g) <=> g \in {f, Lower[f]}) /\ Says(e, g) = NONE
  BY DEF Decides, Says
<1> HIDE DEF e
<1>4. DOMAIN onAir = Fullnames /\ onAir = [g \in Fullnames |-> onAir[g]]
  BY DEF AirInv, AirIsTyped
<1>5. DOMAIN onAir' = Fullnames /\ onAir' = [g \in Fullnames |-> onAir'[g]]
  BY <1>1, <1>4
<1>6. \A g \in Fullnames : onAir'[g] = IF g = Lower[f] THEN NONE ELSE onAir[g]
  BY <1>1, <1>4
<1>7. \A g \in Fullnames : Lower[g] # g => onAir[g] = NONE
  BY DEF AirInv, OnlyLowerCase
<1>8. \A g \in Fullnames : Lower[g] = g =>
          onAir'[g] = IF Decides(e, g) THEN Says(e, g) ELSE onAir[g]
  BY <1>3, <1>6
<1>9. \A g \in Fullnames : Lower[g] # g => onAir'[g] = NONE /\ Says(e, g) = NONE
  BY <1>3, <1>6, <1>7
<1> QED BY <1>1, <1>2, <1>5, <1>8, <1>9, AirChanges

LEMMA ReadKeeps ==
    ASSUME AirInv, ReadEvent
    PROVE  AirInv'
<1> DEFINE e == Head(events)
<1>1. /\ events # << >> /\ peers' = apply_event(peers, e) /\ events' = Tail(events)
      /\ UNCHANGED <<discovering, onAir>>
  BY DEF ReadEvent
<1>2. /\ events \in Seq(AirEvents) /\ e \in AirEvents /\ Tail(events) \in Seq(AirEvents)
      /\ Len(Tail(events)) = Len(events) - 1 /\ Len(events) \in Nat /\ Len(events) <= MaxEvents
  BY <1>1 DEF AirInv, AirIsTyped
<1> HIDE DEF e
<1>3. /\ DOMAIN peers' = Fullnames /\ peers' = [f \in Fullnames |-> peers'[f]]
      /\ \A f \in Fullnames : peers'[f] = IF Decides(e, f) THEN Says(e, f) ELSE peers[f]
  BY <1>1, <1>2, Applied DEF AirInv, AirIsTyped
<1>4. AirIsTyped'
  BY <1>1, <1>2, <1>3, AirEventFields DEF AirInv, AirIsTyped
<1>5. ASSUME NEW f \in Fullnames, Decides(e, f), Says(e, f) # NONE
      PROVE  /\ Lower[f] = f /\ e.service \in Announcements
             /\ IsDiscoverable(e.service) /\ Says(e, f) = DiscoveredPeer(f, e.service)
  BY <1>2, <1>5, AirEventFields DEF Decides, Says
<1>6. KnownAsAnnounced'
  BY <1>3, <1>5 DEF AirInv, KnownAsAnnounced
<1>7. OnlyLowerCase'
  BY <1>1, <1>3, <1>5 DEF AirInv, OnlyLowerCase
<1>8. AirFollows'
  <2> SUFFICES ASSUME NEW f \in Fullnames PROVE Becomes(events', f, peers'[f], onAir[f])
    BY <1>1 DEF AirFollows
  <2>1. Becomes(events, f, peers[f], onAir[f])
    BY DEF AirInv, AirFollows
  <2> QED BY <1>1, <1>2, <1>3, <2>1, BecomesTail DEF e
<1> QED BY <1>4, <1>6, <1>7, <1>8 DEF AirInv

LEMMA AirPreserved == AirInv /\ [DiscoveryStep]_discoveryVars => AirInv'
<1> SUFFICES ASSUME AirInv, [DiscoveryStep]_discoveryVars PROVE AirInv'
  OBVIOUS
<1>1. ASSUME UNCHANGED <<events, peers, onAir>>, discovering' \in {"off", "on", "stopping"}
      PROVE  AirInv'
  BY <1>1 DEF AirInv, AirIsTyped, KnownAsAnnounced, OnlyLowerCase, AirFollows
<1>2. CASE UNCHANGED discoveryVars
  BY <1>1, <1>2 DEF discoveryVars, AirInv, AirIsTyped
<1>3. ASSUME NEW f \in Fullnames, NEW a \in Announcements, Announce(f, a) PROVE AirInv'
  BY <1>3, AnnounceKeeps
<1>4. ASSUME NEW f \in Fullnames, Withdraw(f) PROVE AirInv'
  BY <1>4, WithdrawKeeps
<1>5. CASE StartDiscovery \/ StopDiscovery \/ PublishSnapshot
  BY <1>1, <1>5 DEF StartDiscovery, StopDiscovery, PublishSnapshot, AirInv, AirIsTyped
<1>6. CASE ReadEvent
  BY <1>6, ReadKeeps
<1>7. CASE ClearDiscovery
  <2>1. /\ events' = << >> /\ discovering' = "off"
        /\ peers' = [f \in Fullnames |-> NONE] /\ onAir' = [f \in Fullnames |-> NONE]
    BY <1>7 DEF ClearDiscovery
  <2>2. AirIsTyped'
    <3>1. << >> \in Seq(AirEvents) /\ Len(<< >>) <= MaxEvents
      BY AirEventFields
    <3> QED BY <2>1, <3>1 DEF AirIsTyped
  <2>3. KnownAsAnnounced' /\ OnlyLowerCase'
    BY <2>1 DEF KnownAsAnnounced, OnlyLowerCase
  <2>4. AirFollows'
    BY <2>1, BecomesNothing DEF AirFollows
  <2> QED BY <2>2, <2>3, <2>4 DEF AirInv
<1> QED BY <1>2, <1>3, <1>4, <1>5, <1>6, <1>7 DEF DiscoveryStep

LEMMA AirTypes == AirInv => DiscoveryTypeOK /\ DrainedFollowsAir
<1> SUFFICES ASSUME AirInv PROVE DiscoveryTypeOK /\ DrainedFollowsAir
  OBVIOUS
<1>1. ASSUME NEW f \in Fullnames, peers[f] # NONE PROVE peers[f].instance = f /\ IsEndpoint(peers[f])
  <2>1. PICK a \in Announcements : IsDiscoverable(a) /\ peers[f] = DiscoveredPeer(f, a)
    BY <1>1 DEF AirInv, KnownAsAnnounced
  <2>2. /\ DiscoveredPeer(f, a).instance = f /\ DiscoveredPeer(f, a).host = a.host
        /\ DiscoveredPeer(f, a).port = a.port /\ DiscoveredPeer(f, a).addresses = a.addresses
    BY DEF DiscoveredPeer
  <2> QED BY <2>1, <2>2 DEF IsDiscoverable, IsEndpoint
<1>2. DiscoveryTypeOK
  BY <1>1 DEF AirInv, AirIsTyped, DiscoveryTypeOK
<1>3. DrainedFollowsAir
  <2> SUFFICES ASSUME events = << >> PROVE peers = onAir
    BY DEF DrainedFollowsAir
  <2>1. \A f \in Fullnames : onAir[f] = peers[f]
    BY BecomesNothing DEF AirInv, AirFollows
  <2> QED BY <2>1 DEF AirInv, AirIsTyped
<1> QED BY <1>2, <1>3

----
(***************************************************************************)
(* What is offered for pairing.                                            *)
(***************************************************************************)

(* The candidate of a peer that is kept: the document, if there is one, is
   valid and carries the peer's id. *)
LEMMA OfferedIsValid ==
    ASSUME NEW p, NEW trusted, OfferedDocument(p, trusted) # NONE
    PROVE  /\ IsValidDocument(OfferedDocument(p, trusted))
           /\ Trim(OfferedDocument(p, trusted).id) = p.txt.id
<1> DEFINE doc == WireDocument(Plain(p.txt.id), Plain(CandidateName(p, trusted)),
                              p.txt.key, p.txt.fingerprint, p.txt.caps)
<1>1. OfferedDocument(p, trusted) = doc /\ IsValidDocument(doc)
  BY DEF OfferedDocument
<1>2. doc.id = [body |-> Trim(Plain(p.txt.id)), padded |-> FALSE]
  BY DEF WireDocument
<1>3. Trim(doc.id) = p.txt.id
  BY <1>2 DEF Trim, Plain
<1> QED BY <1>1, <1>3

LEMMA OffersPair ==
    ASSUME NEW local, NEW trustedSets PROVE OffersArePairable(local, trustedSets)
<1> SUFFICES ASSUME NEW trusted \in trustedSets, NEW c \in Candidates(local, published, trusted),
                    c.document # NONE
             PROVE  /\ IsValidDocument(c.document)
                    /\ into_trusted_peer_identity(c.document).id # local
  BY DEF OffersArePairable
<1>1. PICK p \in published : Kept(local, p) /\ c = discovery_session_candidate(p, trusted)
  BY DEF Candidates
<1>2. c.document = OfferedDocument(p, trusted)
  BY <1>1 DEF discovery_session_candidate
<1>3. /\ IsValidDocument(c.document) /\ Trim(c.document.id) = p.txt.id
  BY <1>2, OfferedIsValid
<1>4. into_trusted_peer_identity(c.document).id = Trim(c.document.id)
  BY DEF into_trusted_peer_identity, TrustedPeerIdentity
<1> QED BY <1>1, <1>3, <1>4 DEF Kept

----
(***************************************************************************)
(* The record a device advertises, and what another one makes of it.       *)
(***************************************************************************)
RecordOfDevice(d) == build_discovery_txt_record(d, PeerCapabilities, "0.1.0")

(* The seven entries, each under a key of its own. *)
LEMMA RecordEntries ==
    ASSUME NEW d
    PROVE  LET es == RecordOfDevice(d) IN
           /\ es = {<<"v", TxtVersion>>, <<"id", Plain(d.id)>>, <<"caps", PeerCapabilities>>,
                    <<"build", Plain("0.1.0")>>, <<"name", Plain(d.name)>>, <<"pk", d.key>>,
                    <<"fp", d.fingerprint>>}
           /\ \A e, f \in es : e[1] = f[1] => e = f
<1> DEFINE es == RecordOfDevice(d)
           doc == from_device_identity(d, PeerCapabilities)
<1>1. /\ doc.id = Plain(d.id) /\ doc.name = Plain(d.name) /\ doc.key = d.key
      /\ doc.fingerprint = d.fingerprint /\ doc.caps = PeerCapabilities
  BY DEF from_device_identity, Plain
<1>2. es = {<<"v", TxtVersion>>, <<"id", Plain(d.id)>>, <<"caps", PeerCapabilities>>,
            <<"build", Plain("0.1.0")>>, <<"name", Plain(d.name)>>, <<"pk", d.key>>,
            <<"fp", d.fingerprint>>}
  <2> HIDE DEF doc
  <2>1. es = {<<"v", TxtVersion>>, <<"id", doc.id>>, <<"caps", doc.caps>>,
              <<"build", Plain("0.1.0")>>, <<"name", doc.name>>, <<"pk", doc.key>>,
              <<"fp", doc.fingerprint>>}
    BY DEF RecordOfDevice, build_discovery_txt_record, doc
  <2> QED BY <1>1, <2>1
<1> HIDE DEF es
<1>3. \A e, f \in es : e[1] = f[1] => e = f
  BY <1>2
<1> QED BY <1>2, <1>3 DEF es

(* An entry is found under its key. *)
LEMMA FieldOf ==
    ASSUME NEW es, \A e, f \in es : e[1] = f[1] => e = f
    PROVE  \A k, v : <<k, v>> \in es => Has(es, k) /\ Field(es, k) = v
<1> SUFFICES ASSUME NEW k, NEW v, <<k, v>> \in es PROVE Has(es, k) /\ Field(es, k) = v
  OBVIOUS
<1>1. Has(es, k)
  BY DEF Has
<1>2. \A e \in es : e[1] = k => e = <<k, v>>
  OBVIOUS
<1>3. (CHOOSE e \in es : e[1] = k) = <<k, v>>
  BY <1>2
<1> QED BY <1>1, <1>3 DEF Field

LEMMA RecordFields ==
    ASSUME NEW d
    PROVE  LET es == RecordOfDevice(d) IN
           /\ Has(es, "v") /\ Field(es, "v") = TxtVersion
           /\ Has(es, "id") /\ Field(es, "id") = Plain(d.id)
           /\ Has(es, "caps") /\ Field(es, "caps") = PeerCapabilities
           /\ Has(es, "build") /\ Field(es, "build") = Plain("0.1.0")
           /\ Has(es, "name") /\ Field(es, "name") = Plain(d.name)
           /\ Has(es, "pk") /\ Field(es, "pk") = d.key
           /\ Has(es, "fp") /\ Field(es, "fp") = d.fingerprint
<1> DEFINE es == RecordOfDevice(d)
<1>1. es = {<<"v", TxtVersion>>, <<"id", Plain(d.id)>>, <<"caps", PeerCapabilities>>,
            <<"build", Plain("0.1.0")>>, <<"name", Plain(d.name)>>, <<"pk", d.key>>,
            <<"fp", d.fingerprint>>}
  BY RecordEntries
<1>2. \A e, f \in es : e[1] = f[1] => e = f
  BY RecordEntries
<1> HIDE DEF es
<1>3. \A k, v : <<k, v>> \in es => Has(es, k) /\ Field(es, k) = v
  BY <1>2, FieldOf
<1>4. /\ <<"v", TxtVersion>> \in es /\ <<"id", Plain(d.id)>> \in es
      /\ <<"caps", PeerCapabilities>> \in es /\ <<"build", Plain("0.1.0")>> \in es
      /\ <<"name", Plain(d.name)>> \in es /\ <<"pk", d.key>> \in es
      /\ <<"fp", d.fingerprint>> \in es
  BY <1>1
<1> QED BY <1>3, <1>4 DEF es

(* Another device can read it unless the name holds a control character. *)
LEMMA ParsesIff ==
    ASSUME NEW d, IsDevice(d)
    PROVE  ParsesTxt(RecordOfDevice(d)) <=> d.name \notin Control
<1> DEFINE es == RecordOfDevice(d)
<1>1. \A e, f \in es : e[1] = f[1] => e = f
  BY RecordEntries
<1>2. \A b : Trim(Plain(b)) = b
  BY DEF Trim, Plain
<1>3. IsToken(Field(es, "id")) /\ IsToken(Field(es, "build"))
  <2>1. IsToken(Plain(d.id)) /\ IsToken(Plain("0.1.0"))
    BY <1>2, DiscoveryAssumption DEF IsToken, IsDevice
  <2> QED BY <2>1, RecordFields
<1>4. IsCapabilityList(Field(es, "caps"))
  BY RecordFields DEF IsCapabilityList, PeerCapabilities, Capabilities
<1>5. /\ \A k \in {"v", "id", "caps", "build"} : Has(es, k)
      /\ Has(es, "name") /\ Trim(Field(es, "name")) = d.name /\ Field(es, "v") = TxtVersion
  BY <1>2, RecordFields
<1> HIDE DEF es
<1> QED BY <1>1, <1>3, <1>4, <1>5 DEF ParsesTxt, es

LEMMA ParsedRecord ==
    ASSUME NEW d
    PROVE  LET txt == parse_discovery_txt_record(RecordOfDevice(d)) IN
           /\ txt.id = d.id /\ txt.key = d.key /\ txt.fingerprint = d.fingerprint
           /\ txt.caps = PeerCapabilities
<1> DEFINE es == RecordOfDevice(d)
           txt == parse_discovery_txt_record(es)
<1>1. /\ txt.id = Trim(Field(es, "id")) /\ txt.key = Optional(es, "pk")
      /\ txt.fingerprint = Optional(es, "fp") /\ txt.caps = CapabilityFlags(Field(es, "caps"))
  BY DEF parse_discovery_txt_record
<1>2. Trim(Plain(d.id)) = d.id
  BY DEF Trim, Plain
<1>3. CapabilityFlags(PeerCapabilities) = PeerCapabilities
  BY DEF CapabilityFlags, PeerCapabilities
<1> HIDE DEF txt, es
<1>4. Optional(es, "pk") = d.key /\ Optional(es, "fp") = d.fingerprint
  BY RecordFields DEF Optional, es
<1> QED BY <1>1, <1>2, <1>3, <1>4, RecordFields DEF txt, es

(* What one device takes another for: the same id, key and fingerprint. *)
LEMMA SeenAsIs ==
    ASSUME NEW me, NEW d, IsDevice(d), me.id # d.id
    PROVE  \E name, caps : SeenBy(me, d) = {TrustedPeerIdentity(d.id, name, d.key, caps)}
<1> DEFINE p == DiscoveredPeer("any", Advertised(d))
           doc == OfferedDocument(p, {})
           wire == WireDocument(Plain(p.txt.id), Plain(CandidateName(p, {})),
                                p.txt.key, p.txt.fingerprint, p.txt.caps)
<1>1. p.txt = parse_discovery_txt_record(RecordOfDevice(d)) /\ IsEndpoint(p)
  <2>1. /\ Advertised(d).entries = RecordOfDevice(d) /\ Advertised(d).host = "host"
        /\ Advertised(d).port = 1 /\ Advertised(d).addresses = {"ip"}
    BY DEF Advertised, RecordOfDevice
  <2>2. /\ p.host = "host" /\ p.port = 1 /\ p.addresses = {"ip"}
        /\ p.txt = parse_discovery_txt_record(RecordOfDevice(d))
    BY <2>1 DEF DiscoveredPeer
  <2> HIDE DEF p
  <2> QED BY <2>2 DEF IsEndpoint
<1>2. /\ p.txt.id = d.id /\ p.txt.key = d.key /\ p.txt.fingerprint = d.fingerprint
      /\ p.txt.caps = PeerCapabilities
  BY <1>1, ParsedRecord
<1> HIDE DEF p
<1>3. Kept(me.id, p)
  BY <1>1, <1>2 DEF Kept
<1>4. /\ wire.kind = DocumentKind /\ wire.version = DocumentVersion
      /\ wire.id = [body |-> Trim(Plain(p.txt.id)), padded |-> FALSE]
      /\ wire.key = d.key /\ wire.fingerprint = d.fingerprint
  BY <1>2 DEF WireDocument
<1> HIDE DEF wire
<1>5. Trim(wire.id) = d.id
  BY <1>2, <1>4 DEF Trim, Plain
<1>6. IsValidDocument(wire)
  BY <1>4, <1>5 DEF IsValidDocument, IsDevice
<1>7. doc = wire
  <2>1. Find({}, p.txt.id) = {}
    BY DEF Find
  <2>2. p.txt.key # NONE /\ p.txt.fingerprint # NONE
    BY <1>2, DiscoveryAssumption DEF IsDevice
  <2> QED BY <1>6, <2>1, <2>2 DEF OfferedDocument, wire
<1> HIDE DEF doc
<1>8. Candidates(me.id, {p}, {}) = {discovery_session_candidate(p, {})}
  BY <1>3 DEF Candidates
<1>9. discovery_session_candidate(p, {}).document = wire
  BY <1>7 DEF discovery_session_candidate, doc
<1>10. SeenBy(me, d) = {into_trusted_peer_identity(wire)}
  BY <1>8, <1>9 DEF SeenBy, p
<1>11. into_trusted_peer_identity(wire)
          = TrustedPeerIdentity(d.id, normalize_display_name(wire.name), d.key, wire.caps)
  BY <1>4, <1>5 DEF into_trusted_peer_identity
<1> QED BY <1>10, <1>11

LEMMA CodesAgree ==
    ASSUME NEW devices, \A d \in devices : IsDevice(d)
    PROVE  CodesAgreeFor(devices)
<1> SUFFICES ASSUME NEW a \in devices, NEW b \in devices
             PROVE  /\ ParsesTxt(Advertised(a).entries) <=> a.name \notin Control
                    /\ a.id # b.id /\ a.key # b.key =>
                         /\ SeenBy(b, a) # {}
                         /\ \A pa \in SeenBy(b, a), pb \in SeenBy(a, b) :
                               pairing_verification_code(a, pb) = pairing_verification_code(b, pa)
  BY DEF CodesAgreeFor
<1>1. Advertised(a).entries = RecordOfDevice(a)
  BY DEF Advertised, RecordOfDevice
<1>2. ParsesTxt(Advertised(a).entries) <=> a.name \notin Control
  BY <1>1, ParsesIff
<1>3. ASSUME a.id # b.id, a.key # b.key
      PROVE  /\ SeenBy(b, a) # {}
             /\ \A pa \in SeenBy(b, a), pb \in SeenBy(a, b) :
                   pairing_verification_code(a, pb) = pairing_verification_code(b, pa)
  <2>1. PICK na, ca : SeenBy(b, a) = {TrustedPeerIdentity(a.id, na, a.key, ca)}
    BY <1>3, SeenAsIs
  <2>2. PICK nb, cb : SeenBy(a, b) = {TrustedPeerIdentity(b.id, nb, b.key, cb)}
    BY <1>3, SeenAsIs
  <2> DEFINE pa == TrustedPeerIdentity(a.id, na, a.key, ca)
             pb == TrustedPeerIdentity(b.id, nb, b.key, cb)
  <2>3. /\ pa.id = a.id /\ pa.key = a.key /\ pa.fingerprint = a.fingerprint
        /\ pb.id = b.id /\ pb.key = b.key /\ pb.fingerprint = b.fingerprint
    BY DEF TrustedPeerIdentity, IsDevice
  <2> HIDE DEF pa, pb
  <2>4. Component(pa) = Component(a) /\ Component(pb) = Component(b)
    BY <2>3 DEF Component
  <2>5. a.key \in Nat /\ b.key \in Nat
    BY KeyAssumption DEF IsDevice
  <2>6. pairing_verification_code(a, pb) = pairing_verification_code(b, pa)
    BY <1>3, <2>3, <2>4, <2>5 DEF pairing_verification_code
  <2> QED BY <2>1, <2>2, <2>6 DEF pa, pb
<1> QED BY <1>2, <1>3

----
(***************************************************************************)
(* The least and the greatest of integers that have bounds.                *)
(***************************************************************************)
LEMMA LeastExists ==
    ASSUME NEW S \in SUBSET Int, S # {}, NEW lo \in Int, \A v \in S : lo <= v
    PROVE  /\ Min(S) \in S
           /\ \A v \in S : Min(S) <= v
<1> DEFINE T == {v - lo : v \in S}
<1>1. T \subseteq Nat /\ T # {}
  <2>1. \A v \in S : v - lo \in Nat
    OBVIOUS
  <2>2. PICK v \in S : TRUE
    OBVIOUS
  <2>3. v - lo \in T
    OBVIOUS
  <2> QED BY <2>1, <2>3
<1> HIDE DEF T
<1>2. PICK t \in T : \A u \in T : <<u, t>> \notin OpToRel(<, Nat)
  BY <1>1, NatLessThanWellFounded, WFMin
<1>4. \A u \in T : t <= u
  <2> SUFFICES ASSUME NEW u \in T, u < t PROVE FALSE
    BY <1>1
  <2>1. <<u, t>> \in OpToRel(<, Nat)
    BY <1>1 DEF OpToRel
  <2> QED BY <1>2, <2>1
<1>5. PICK m \in S : t = m - lo
  BY DEF T
<1>6. \A v \in S : m <= v
  <2> SUFFICES ASSUME NEW v \in S PROVE m <= v
    OBVIOUS
  <2>1. v - lo \in T
    BY DEF T
  <2>2. m - lo <= v - lo
    BY <1>4, <1>5, <2>1
  <2> QED BY <2>2
<1> QED BY <1>6 DEF Min

LEMMA GreatestExists ==
    ASSUME NEW S \in SUBSET Int, S # {}, NEW hi \in Int, \A v \in S : v <= hi
    PROVE  /\ Max(S) \in S
           /\ \A v \in S : v <= Max(S)
<1> DEFINE T == {-v : v \in S}
<1>1. /\ T \in SUBSET Int /\ T # {} /\ -hi \in Int /\ \A v \in T : -hi <= v
  <2>1. \A v \in S : -v \in Int /\ -hi <= -v
    OBVIOUS
  <2>2. PICK v \in S : TRUE
    OBVIOUS
  <2>3. -v \in T
    OBVIOUS
  <2> QED BY <2>1, <2>3
<1>2. Min(T) \in T /\ \A v \in T : Min(T) <= v
  BY <1>1, LeastExists
<1>3. PICK m \in S : Min(T) = -m
  BY <1>2
<1>4. \A v \in S : v <= m
  <2> SUFFICES ASSUME NEW v \in S PROVE v <= m
    OBVIOUS
  <2>1. -m <= -v
    BY <1>2, <1>3
  <2> QED BY <2>1
<1> QED BY <1>4 DEF Max

----
(***************************************************************************)
(* Checks made in order: without a bad one the verdict is "Available", and *)
(* otherwise the result of one that is bad.                                *)
(***************************************************************************)
Outcomes ==
    {"X11LibraryUnavailable", "LibraryUnavailable", "SymbolUnavailable", "DisplayUnavailable",
     "ExtensionUnavailable", "VersionUnsupported", "PointerUnavailable", "MonitorQueryFailed",
     "EmptyMonitorSet", "PointerOutsideMonitorLayout", "Desktop", "Window", "RawInput", "MouseHook",
     "KeyboardHook"}
Check == BOOLEAN \X Outcomes

Results(checks) == {checks[i][2] : i \in {j \in DOMAIN checks : ~checks[j][1]}}

LEMMA VerdictOf ==
    ASSUME NEW checks \in Seq(Check)
    PROVE  /\ Results(checks) = {} => Verdict(checks) = "Available"
           /\ Results(checks) # {} => Verdict(checks) \in Results(checks)
<1> DEFINE bad == {i \in DOMAIN checks : ~checks[i][1]}
<1>1. bad \in SUBSET Int /\ \A i \in bad : 1 <= i
  OBVIOUS
<1>2. Results(checks) = {checks[i][2] : i \in bad}
  BY DEF Results
<1>3. Verdict(checks) = IF bad = {} THEN "Available" ELSE checks[Min(bad)][2]
  BY DEF Verdict
<1> HIDE DEF bad
<1>4. CASE bad = {}
  BY <1>2, <1>3, <1>4
<1>5. CASE bad # {}
  <2>1. Min(bad) \in bad
    BY <1>1, <1>5, LeastExists
  <2> QED BY <1>2, <1>3, <1>5, <2>1
<1> QED BY <1>4, <1>5

LEMMA ResultsConcat ==
    ASSUME NEW s \in Seq(Check), NEW t \in Seq(Check)
    PROVE  s \o t \in Seq(Check) /\ Results(s \o t) = Results(s) \cup Results(t)
<1> DEFINE r == s \o t
<1>1. /\ Len(s) \in Nat /\ Len(t) \in Nat /\ Len(r) = Len(s) + Len(t) /\ r \in Seq(Check)
      /\ DOMAIN s = 1..Len(s) /\ DOMAIN t = 1..Len(t) /\ DOMAIN r = 1..(Len(s) + Len(t))
      /\ \A i \in 1..Len(s) : r[i] = s[i]
      /\ \A i \in 1..Len(t) : r[Len(s) + i] = t[i]
  OBVIOUS
<1> HIDE DEF r
<1>2. /\ \A i \in DOMAIN s : i \in DOMAIN r /\ r[i] = s[i]
      /\ \A i \in DOMAIN t : Len(s) + i \in DOMAIN r /\ r[Len(s) + i] = t[i]
  BY <1>1
<1>3. Results(s) \cup Results(t) \subseteq Results(r)
  BY <1>2 DEF Results
<1>4. ASSUME NEW i \in DOMAIN r PROVE i \in DOMAIN s \/ (i - Len(s) \in DOMAIN t /\ r[i] = t[i - Len(s)])
  <2>1. CASE i <= Len(s)
    BY <1>1, <2>1
  <2>2. CASE i > Len(s)
    <3>1. i - Len(s) \in DOMAIN t /\ Len(s) + (i - Len(s)) = i
      BY <1>1, <2>2
    <3> QED BY <1>2, <3>1
  <2> QED BY <1>1, <2>1, <2>2
<1>5. Results(r) \subseteq Results(s) \cup Results(t)
  BY <1>2, <1>4 DEF Results
<1> QED BY <1>1, <1>3, <1>5 DEF r

LEMMA OneCheck ==
    ASSUME NEW x \in Check
    PROVE  /\ <<x>> \in Seq(Check)
           /\ Results(<<x>>) = IF x[1] THEN {} ELSE {x[2]}
<1> DEFINE s == <<x>>
<1>1. s \in Seq(Check) /\ DOMAIN s = {1} /\ s[1] = x
  OBVIOUS
<1> HIDE DEF s
<1>2. Results(s) = IF x[1] THEN {} ELSE {x[2]}
  BY <1>1 DEF Results
<1> QED BY <1>1, <1>2 DEF s

LEMMA FourChecks ==
    ASSUME NEW x \in Check, NEW y \in Check, NEW z \in Check, NEW u \in Check
    PROVE  /\ <<x, y, z, u>> \in Seq(Check)
           /\ Results(<<x, y, z, u>>) = {c[2] : c \in {d \in {x, y, z, u} : ~d[1]}}
<1> DEFINE s == <<x, y, z, u>>
<1>1. /\ s \in Seq(Check) /\ DOMAIN s = {1, 2, 3, 4}
      /\ s[1] = x /\ s[2] = y /\ s[3] = z /\ s[4] = u
  OBVIOUS
<1> HIDE DEF s
<1>2. \A c : (\E i \in DOMAIN s : s[i] = c) <=> c \in {x, y, z, u}
  BY <1>1
<1>3. Results(s) = {c[2] : c \in {d \in {x, y, z, u} : ~d[1]}}
  BY <1>2 DEF Results
<1> QED BY <1>1, <1>3 DEF s

LEMMA TwoChecks ==
    ASSUME NEW x \in Check, NEW y \in Check
    PROVE  /\ <<x, y>> \in Seq(Check)
           /\ Results(<<x, y>>) = {c[2] : c \in {d \in {x, y} : ~d[1]}}
<1> DEFINE s == <<x, y>>
<1>1. s \in Seq(Check) /\ DOMAIN s = {1, 2} /\ s[1] = x /\ s[2] = y
  OBVIOUS
<1> HIDE DEF s
<1>2. \A c : (\E i \in DOMAIN s : s[i] = c) <=> c \in {x, y}
  BY <1>1
<1>3. Results(s) = {c[2] : c \in {d \in {x, y} : ~d[1]}}
  BY <1>2 DEF Results
<1> QED BY <1>1, <1>3 DEF s

LEMMA FiveChecks ==
    ASSUME NEW x \in Check, NEW y \in Check, NEW z \in Check, NEW u \in Check, NEW v \in Check
    PROVE  /\ <<x, y, z, u, v>> \in Seq(Check)
           /\ Results(<<x, y, z, u, v>>) = {c[2] : c \in {d \in {x, y, z, u, v} : ~d[1]}}
<1> DEFINE s == <<x, y, z, u, v>>
<1>1. /\ s \in Seq(Check) /\ DOMAIN s = {1, 2, 3, 4, 5}
      /\ s[1] = x /\ s[2] = y /\ s[3] = z /\ s[4] = u /\ s[5] = v
  OBVIOUS
<1> HIDE DEF s
<1>2. \A c : (\E i \in DOMAIN s : s[i] = c) <=> c \in {x, y, z, u, v}
  BY <1>1
<1>3. Results(s) = {c[2] : c \in {d \in {x, y, z, u, v} : ~d[1]}}
  BY <1>2 DEF Results
<1> QED BY <1>1, <1>3 DEF s

LEMMA CheckOf ==
    ASSUME NEW b \in BOOLEAN, NEW l \in Outcomes
    PROVE  <<b, l>> \in Check /\ <<b, l>>[1] = b /\ <<b, l>>[2] = l
BY DEF Check

LEMMA MembershipIs == ASSUME NEW l, NEW x PROVE \E b \in BOOLEAN : b = (l \in x)
<1>1. CASE l \in x
  <2>1. TRUE = (l \in x)
    BY <1>1
  <2> QED BY <2>1
<1>2. CASE l \notin x
  <2>1. FALSE = (l \in x)
    BY <1>2
  <2> QED BY <2>1
<1> QED BY <1>1, <1>2

(* No check calls its bad result "Available": the verdict is that exactly if
   no check is bad. *)
LEMMA VerdictIs ==
    ASSUME NEW checks \in Seq(Check), "Available" \notin Results(checks)
    PROVE  /\ Verdict(checks) = "Available" <=> Results(checks) = {}
           /\ Results(checks) # {} => Verdict(checks) \in Results(checks)
BY VerdictOf

----
(***************************************************************************)
(* X11: what stands in the way of a part.                                  *)
(***************************************************************************)
Opens(x, lib, symbols) ==
    "libX11" \in x.libs /\ lib \in x.libs /\ symbols \cap x.missing = {} /\ x.opens

LEMMA OpeningOf ==
    ASSUME NEW x, x.opens \in BOOLEAN, NEW lib, NEW symbols
    PROVE  /\ Opening(x, lib, symbols) \in Seq(Check)
           /\ "Available" \notin Results(Opening(x, lib, symbols))
           /\ Results(Opening(x, lib, symbols)) = {} <=> Opens(x, lib, symbols)
           /\ Opens(x, lib, {}) => Results(Opening(x, lib, symbols)) \subseteq {"SymbolUnavailable"}
<1>a. PICK x11 \in BOOLEAN : x11 = ("libX11" \in x.libs)
  BY MembershipIs
<1>b. PICK has \in BOOLEAN : has = (lib \in x.libs)
  BY MembershipIs
<1>c. PICK whole \in BOOLEAN : whole = (symbols \cap x.missing = {})
  OBVIOUS
<1> DEFINE a == <<x11, "X11LibraryUnavailable">>
           b == <<has, "LibraryUnavailable">>
           c == <<whole, "SymbolUnavailable">>
           d == <<x.opens, "DisplayUnavailable">>
<1>1. /\ a \in Check /\ a[1] = x11 /\ a[2] = "X11LibraryUnavailable"
      /\ b \in Check /\ b[1] = has /\ b[2] = "LibraryUnavailable"
      /\ c \in Check /\ c[1] = whole /\ c[2] = "SymbolUnavailable"
      /\ d \in Check /\ d[1] = x.opens /\ d[2] = "DisplayUnavailable"
  BY CheckOf DEF Outcomes
<1>2. Opening(x, lib, symbols) = <<a, b, c, d>>
  BY <1>a, <1>b, <1>c DEF Opening
<1> HIDE DEF a, b, c, d
<1>3. /\ Opening(x, lib, symbols) \in Seq(Check)
      /\ Results(Opening(x, lib, symbols)) = {e[2] : e \in {f \in {a, b, c, d} : ~f[1]}}
  BY <1>1, <1>2, FourChecks
<1>4. "Available" \notin Results(Opening(x, lib, symbols))
  BY <1>1, <1>3
<1>5. Results(Opening(x, lib, symbols)) = {} <=> Opens(x, lib, symbols)
  <2>1. Results(Opening(x, lib, symbols)) = {} <=> a[1] /\ b[1] /\ c[1] /\ d[1]
    BY <1>3
  <2> QED BY <1>1, <1>a, <1>b, <1>c, <2>1 DEF Opens
<1>6. Opens(x, lib, {}) => Results(Opening(x, lib, symbols)) \subseteq {"SymbolUnavailable"}
  BY <1>1, <1>3, <1>a, <1>b DEF Opens
<1> QED BY <1>3, <1>4, <1>5, <1>6

XinputFine(x) == x.xinput # Unset /\ x.xinput >= 2

LEMMA XinputOf ==
    ASSUME NEW x, x.xinput = Unset \/ x.xinput \in Int
    PROVE  /\ xinput2_extension(x) \in Seq(Check)
           /\ "Available" \notin Results(xinput2_extension(x))
           /\ Results(xinput2_extension(x)) = {} <=> XinputFine(x)
<1>a. PICK there \in BOOLEAN : there = (x.xinput # Unset)
  OBVIOUS
<1>b. PICK new \in BOOLEAN : new = (x.xinput # Unset /\ x.xinput >= 2)
  OBVIOUS
<1> DEFINE a == <<there, "ExtensionUnavailable">>
           b == <<new, "VersionUnsupported">>
<1>1. /\ a \in Check /\ a[1] = there /\ a[2] = "ExtensionUnavailable"
      /\ b \in Check /\ b[1] = new /\ b[2] = "VersionUnsupported"
  BY CheckOf DEF Outcomes
<1>2. xinput2_extension(x) = <<a, b>>
  BY <1>a, <1>b DEF xinput2_extension
<1> HIDE DEF a, b
<1>3. /\ xinput2_extension(x) \in Seq(Check)
      /\ Results(xinput2_extension(x)) = {e[2] : e \in {f \in {a, b} : ~f[1]}}
  BY <1>1, <1>2, TwoChecks
<1>4. Results(xinput2_extension(x)) = {} <=> a[1] /\ b[1]
  BY <1>3
<1>5. "Available" \notin Results(xinput2_extension(x))
  BY <1>1, <1>3
<1> QED BY <1>1, <1>3, <1>4, <1>5, <1>a, <1>b DEF XinputFine

LEMMA XtestOf ==
    ASSUME NEW x, x.xtest \in BOOLEAN
    PROVE  /\ xtest_extension(x) \in Seq(Check)
           /\ "Available" \notin Results(xtest_extension(x))
           /\ Results(xtest_extension(x)) = {} <=> x.xtest
<1> DEFINE a == <<x.xtest, "ExtensionUnavailable">>
<1>1. a \in Check /\ a[1] = x.xtest /\ a[2] = "ExtensionUnavailable"
  BY CheckOf DEF Outcomes
<1>2. xtest_extension(x) = <<a>>
  BY DEF xtest_extension
<1> HIDE DEF a
<1> QED BY <1>1, <1>2, OneCheck

(* Two lots of checks, one after the other. *)
LEMMA VerdictConcat ==
    ASSUME NEW s \in Seq(Check), NEW t \in Seq(Check),
           "Available" \notin Results(s), "Available" \notin Results(t)
    PROVE  /\ Verdict(s \o t) = "Available" <=> Results(s) = {} /\ Results(t) = {}
           /\ Verdict(s \o t) \in {"Available"} \cup Results(s) \cup Results(t)
<1>1. s \o t \in Seq(Check) /\ Results(s \o t) = Results(s) \cup Results(t)
  BY ResultsConcat
<1>2. /\ Verdict(s \o t) = "Available" <=> Results(s \o t) = {}
      /\ Results(s \o t) # {} => Verdict(s \o t) \in Results(s \o t)
  BY <1>1, VerdictIs
<1> QED BY <1>1, <1>2

IsX11(x) ==
    /\ {x.opens, x.xtest} \subseteq BOOLEAN
    /\ x.xinput = Unset \/ x.xinput \in Int
    /\ x.monitors \subseteq G!LogicalRect

LEMMA X11Parts ==
    ASSUME NEW x, IsX11(x)
    PROVE  /\ probe_xinput2(x) = "Available" <=> Opens(x, "libXi", Xinput2ProbeSymbols) /\ XinputFine(x)
           /\ X11CaptureStarts(x) = "Available"
                  <=> Opens(x, "libXi", Xinput2CaptureSymbols) /\ XinputFine(x)
           /\ probe_xinput2(x) = "Available" =>
                  X11CaptureStarts(x) \in {"Available", "SymbolUnavailable"}
           /\ X11Injects(x) = probe_xtest(x)
<1>1. /\ x.opens \in BOOLEAN /\ x.xtest \in BOOLEAN
      /\ x.xinput = Unset \/ x.xinput \in Int
  BY DEF IsX11
<1>2. probe_xinput2(x) = "Available" <=> Opens(x, "libXi", Xinput2ProbeSymbols) /\ XinputFine(x)
  BY <1>1, OpeningOf, XinputOf, VerdictConcat DEF probe_xinput2
<1>3. X11CaptureStarts(x) = "Available" <=> Opens(x, "libXi", Xinput2CaptureSymbols) /\ XinputFine(x)
  BY <1>1, OpeningOf, XinputOf, VerdictConcat DEF X11CaptureStarts
<1>4. ASSUME probe_xinput2(x) = "Available"
      PROVE  X11CaptureStarts(x) \in {"Available", "SymbolUnavailable"}
  <2>1. Opens(x, "libXi", {}) /\ XinputFine(x)
    BY <1>2, <1>4 DEF Opens
  <2>2. X11CaptureStarts(x) \in {"Available"} \cup Results(Opening(x, "libXi", Xinput2CaptureSymbols))
                                \cup Results(xinput2_extension(x))
    BY <1>1, OpeningOf, XinputOf, VerdictConcat DEF X11CaptureStarts
  <2>3. Results(Opening(x, "libXi", Xinput2CaptureSymbols)) \subseteq {"SymbolUnavailable"}
    BY <1>1, <2>1, OpeningOf
  <2>4. Results(xinput2_extension(x)) = {}
    BY <1>1, <2>1, XinputOf
  <2> QED BY <2>2, <2>3, <2>4
<1>5. X11Injects(x) = probe_xtest(x)
  BY DEF X11Injects, probe_xtest, XtestInjectionSymbols
<1> QED BY <1>2, <1>3, <1>4, <1>5

(* A geometry that is had has the pointer on it. *)
LEMMA GeometryOf ==
    ASSUME NEW x, IsX11(x), probe_geometry(x) = "Available"
    PROVE  /\ ValidMonitors(x.monitors) # {}
           /\ G!Inside(union_logical_rects(ValidMonitors(x.monitors)), x.pointer)
<1> DEFINE valid == ValidMonitors(x.monitors)
           on == x.pointer # Unset /\ valid # {} =>
                     G!Inside(union_logical_rects(valid), x.pointer)
<1>a. PICK p \in BOOLEAN : p = (x.pointer # Unset)
  OBVIOUS
<1>b. PICK q \in BOOLEAN : q = (x.monitors # {})
  OBVIOUS
<1>c. PICK v \in BOOLEAN : v = (valid # {})
  OBVIOUS
<1>d. PICK i \in BOOLEAN : i = on
  OBVIOUS
<1> DEFINE a == <<p, "PointerUnavailable">>
           b == <<q, "MonitorQueryFailed">>
           c == <<v, "EmptyMonitorSet">>
           d == <<i, "PointerOutsideMonitorLayout">>
<1>1. /\ a \in Check /\ a[1] = p /\ a[2] = "PointerUnavailable"
      /\ b \in Check /\ b[1] = q /\ b[2] = "MonitorQueryFailed"
      /\ c \in Check /\ c[1] = v /\ c[2] = "EmptyMonitorSet"
      /\ d \in Check /\ d[1] = i /\ d[2] = "PointerOutsideMonitorLayout"
  BY CheckOf DEF Outcomes
<1>2. probe_geometry(x) = Verdict(Opening(x, "libXrandr", XrandrGeometrySymbols) \o <<a, b, c, d>>)
  BY <1>a, <1>b, <1>c, <1>d DEF probe_geometry
<1> HIDE DEF a, b, c, d, on
<1>3. /\ <<a, b, c, d>> \in Seq(Check)
      /\ Results(<<a, b, c, d>>) = {e[2] : e \in {f \in {a, b, c, d} : ~f[1]}}
  BY <1>1, FourChecks
<1>4. "Available" \notin Results(<<a, b, c, d>>)
  BY <1>1, <1>3
<1>5. /\ Opening(x, "libXrandr", XrandrGeometrySymbols) \in Seq(Check)
      /\ "Available" \notin Results(Opening(x, "libXrandr", XrandrGeometrySymbols))
  BY OpeningOf DEF IsX11
<1>6. Results(<<a, b, c, d>>) = {}
  BY <1>2, <1>3, <1>4, <1>5, VerdictConcat
<1>7. a[1] /\ c[1] /\ d[1]
  BY <1>3, <1>6
<1>8. x.pointer # Unset /\ valid # {}
  BY <1>1, <1>7, <1>a, <1>c
<1>9. i
  BY <1>1, <1>7
<1>10. on
  BY <1>9, <1>d DEF on
<1> QED BY <1>8, <1>10 DEF on

LEMMA Saturated ==
    ASSUME NEW v \in Int
    PROVE  /\ G!Saturate(v) \in IntMin..IntMax
           /\ v \in IntMin..IntMax => G!Saturate(v) = v
           /\ v <= IntMax /\ v >= 0 => G!Saturate(v) = v
           /\ v > IntMax => G!Saturate(v) = IntMax
           /\ \A w \in IntMin..IntMax : w <= v => w <= G!Saturate(v)
BY ProbeAssumption DEF G!Saturate

LEMMA RectFields ==
    ASSUME NEW r \in G!LogicalRect
    PROVE  /\ r.left \in IntMin..IntMax /\ r.top \in IntMin..IntMax
           /\ r.width \in IntMin..IntMax /\ r.height \in IntMin..IntMax
           /\ G!Right(r) \in IntMin..IntMax /\ G!Bottom(r) \in IntMin..IntMax
           /\ G!IsValid(r) => r.left <= G!Right(r) /\ r.top <= G!Bottom(r)
<1>1. /\ r.left \in IntMin..IntMax /\ r.top \in IntMin..IntMax
      /\ r.width \in IntMin..IntMax /\ r.height \in IntMin..IntMax
      /\ r.left \in Int /\ r.top \in Int /\ r.width \in Int /\ r.height \in Int
  BY ProbeAssumption DEF G!LogicalRect, G!I32
<1>2. /\ G!Right(r) = G!Saturate(r.left + r.width) /\ r.left + r.width \in Int
      /\ G!Bottom(r) = G!Saturate(r.top + r.height) /\ r.top + r.height \in Int
  BY <1>1 DEF G!Right, G!Bottom
<1>3. ASSUME G!IsValid(r) PROVE r.left <= r.left + r.width /\ r.top <= r.top + r.height
  BY <1>1, <1>3 DEF G!IsValid
<1> QED BY <1>1, <1>2, <1>3, Saturated

(* One axis: of spans from lo to hi, the least and the greatest, and the end
   that comes back from the width in saturating arithmetic. *)
LEMMA SpanOf ==
    ASSUME NEW lows \in SUBSET (IntMin..IntMax), NEW highs \in SUBSET (IntMin..IntMax),
           lows # {}, highs # {}, \E l \in lows, h \in highs : l <= h
    PROVE  LET size == G!Saturate(Max(highs) - Min(lows)) IN
           /\ \A l \in lows : Min(lows) <= l
           /\ size < IntMax => \A h \in highs : h <= G!Saturate(Min(lows) + size)
<1> DEFINE lo == Min(lows)
           hi == Max(highs)
           size == G!Saturate(hi - lo)
<1>1. IntMin \in Int /\ IntMax \in Int /\ IntMin < 0 /\ 0 < IntMax
  BY ProbeAssumption
<1>2. lows \in SUBSET Int /\ highs \in SUBSET Int
      /\ (\A v \in lows : IntMin <= v) /\ (\A v \in highs : v <= IntMax)
  BY <1>1
<1>3. lo \in lows /\ \A v \in lows : lo <= v
  BY <1>1, <1>2, LeastExists
<1>4. hi \in highs /\ \A v \in highs : v <= hi
  BY <1>1, <1>2, GreatestExists
<1> HIDE DEF lo, hi
<1>5. lo \in IntMin..IntMax /\ hi \in IntMin..IntMax /\ lo <= hi
  <2>1. PICK l \in lows, h \in highs : l <= h
    OBVIOUS
  <2>2. lo <= l /\ h <= hi /\ lo \in Int /\ l \in Int /\ h \in Int /\ hi \in Int
    BY <1>2, <1>3, <1>4, <2>1
  <2> QED BY <1>3, <1>4, <2>1, <2>2
<1>6. ASSUME size < IntMax PROVE \A h \in highs : h <= G!Saturate(lo + size)
  <2>1. hi - lo \in Int /\ hi - lo >= 0
    BY <1>1, <1>5
  <2>2. ~(hi - lo > IntMax)
    BY <1>1, <1>6, <2>1, Saturated
  <2>3. size = hi - lo
    BY <1>1, <2>1, <2>2, Saturated
  <2>4. lo + size = hi
    BY <1>1, <1>5, <2>3
  <2>5. G!Saturate(lo + size) = hi
    BY <1>1, <1>5, <2>4, Saturated
  <2> QED BY <1>4, <2>5
<1> QED BY <1>3, <1>6 DEF lo, hi

LEMMA UnionCovers ==
    ASSUME NEW rects \in SUBSET G!LogicalRect, rects # {}, \A r \in rects : G!IsValid(r)
    PROVE  LET all == union_logical_rects(rects) IN
           \A b \in rects :
              /\ all.left <= b.left /\ all.top <= b.top
              /\ all.width < IntMax => G!Right(b) <= G!Right(all)
              /\ all.height < IntMax => G!Bottom(b) <= G!Bottom(all)
<1> DEFINE lefts == {r.left : r \in rects}
           tops == {r.top : r \in rects}
           rights == {G!Right(r) : r \in rects}
           bottoms == {G!Bottom(r) : r \in rects}
           all == union_logical_rects(rects)
<1>1. /\ lefts \in SUBSET (IntMin..IntMax) /\ tops \in SUBSET (IntMin..IntMax)
      /\ rights \in SUBSET (IntMin..IntMax) /\ bottoms \in SUBSET (IntMin..IntMax)
  BY RectFields
<1>2. PICK r \in rects : TRUE
  OBVIOUS
<1>3. /\ r.left \in lefts /\ r.top \in tops /\ G!Right(r) \in rights /\ G!Bottom(r) \in bottoms
      /\ r.left <= G!Right(r) /\ r.top <= G!Bottom(r)
  BY RectFields
<1>4. /\ all.left = Min(lefts) /\ all.top = Min(tops)
      /\ all.width = G!Saturate(Max(rights) - Min(lefts))
      /\ all.height = G!Saturate(Max(bottoms) - Min(tops))
  BY DEF union_logical_rects
<1>5. /\ G!Right(all) = G!Saturate(all.left + all.width)
      /\ G!Bottom(all) = G!Saturate(all.top + all.height)
  BY DEF G!Right, G!Bottom
<1>6. \A b \in rects : /\ b.left \in lefts /\ b.top \in tops
                       /\ G!Right(b) \in rights /\ G!Bottom(b) \in bottoms
  OBVIOUS
<1> HIDE DEF all, lefts, tops, rights, bottoms
<1>7. /\ \A l \in lefts : all.left <= l
      /\ all.width < IntMax => \A h \in rights : h <= G!Right(all)
  BY <1>1, <1>3, <1>4, <1>5, SpanOf
<1>8. /\ \A l \in tops : all.top <= l
      /\ all.height < IntMax => \A h \in bottoms : h <= G!Bottom(all)
  BY <1>1, <1>3, <1>4, <1>5, SpanOf
<1> QED BY <1>6, <1>7, <1>8 DEF all

----
(***************************************************************************)
(* Windows.                                                                *)
(***************************************************************************)
IsWindows(w) ==
    {w.desktop, w.window, w.rawInput, w.mouseHook, w.keyboardHook, w.sends} \subseteq BOOLEAN

LEMMA WindowsStarts ==
    ASSUME NEW w, IsWindows(w)
    PROVE  /\ WindowsCaptureStarts(w) = "Available" =>
                 w.desktop /\ w.mouseHook /\ w.keyboardHook
           /\ w.desktop /\ w.mouseHook /\ w.keyboardHook =>
                 WindowsCaptureStarts(w) \in {"Available", "Window", "RawInput"}
<1> DEFINE a == <<w.desktop, "Desktop">>
           b == <<w.window, "Window">>
           c == <<w.rawInput, "RawInput">>
           d == <<w.mouseHook, "MouseHook">>
           e == <<w.keyboardHook, "KeyboardHook">>
<1>1. /\ w.desktop \in BOOLEAN /\ w.window \in BOOLEAN /\ w.rawInput \in BOOLEAN
      /\ w.mouseHook \in BOOLEAN /\ w.keyboardHook \in BOOLEAN
  BY DEF IsWindows
<1>2. /\ a \in Check /\ a[1] = w.desktop /\ a[2] = "Desktop"
      /\ b \in Check /\ b[1] = w.window /\ b[2] = "Window"
      /\ c \in Check /\ c[1] = w.rawInput /\ c[2] = "RawInput"
      /\ d \in Check /\ d[1] = w.mouseHook /\ d[2] = "MouseHook"
      /\ e \in Check /\ e[1] = w.keyboardHook /\ e[2] = "KeyboardHook"
  BY <1>1, CheckOf DEF Outcomes
<1>3. WindowsCaptureStarts(w) = Verdict(<<a, b, c, d, e>>)
  BY DEF WindowsCaptureStarts
<1> HIDE DEF a, b, c, d, e
<1>4. /\ <<a, b, c, d, e>> \in Seq(Check)
      /\ Results(<<a, b, c, d, e>>) = {f[2] : f \in {g \in {a, b, c, d, e} : ~g[1]}}
  BY <1>2, FiveChecks
<1>5. "Available" \notin Results(<<a, b, c, d, e>>)
  BY <1>2, <1>4
<1>6. /\ Verdict(<<a, b, c, d, e>>) = "Available" <=> Results(<<a, b, c, d, e>>) = {}
      /\ Results(<<a, b, c, d, e>>) # {} =>
            Verdict(<<a, b, c, d, e>>) \in Results(<<a, b, c, d, e>>)
  BY <1>4, <1>5, VerdictIs
<1>7. ASSUME Results(<<a, b, c, d, e>>) = {} PROVE a[1] /\ d[1] /\ e[1]
  BY <1>4, <1>7
<1>8. ASSUME a[1], d[1], e[1] PROVE Results(<<a, b, c, d, e>>) \subseteq {"Window", "RawInput"}
  BY <1>2, <1>4, <1>8
<1> QED BY <1>2, <1>3, <1>6, <1>7, <1>8

----
(***************************************************************************)
(* What is said of each kind of machine.                                   *)
(***************************************************************************)
LEMMA Capabilities4 ==
    /\ AllCapabilities = CaptureCapabilities \cup InjectCapabilities
    /\ CaptureCapabilities \cap InjectCapabilities = {}
    /\ CaptureCapabilities # {} /\ InjectCapabilities # {}
BY DEF AllCapabilities, CaptureCapabilities, InjectCapabilities

(* An issue of a part is among the issues of the permissions. *)
LEMMA IssuesOfX11 ==
    ASSUME NEW m, SessionOf(m).kind = "LinuxX11"
    PROVE  /\ <<"capture", "Available">> \in build_permissions_probe(m)
                  <=> probe_xinput2(m.x) = "Available"
           /\ <<"injection", "Available">> \in build_permissions_probe(m)
                  <=> probe_xtest(m.x) = "Available"
           /\ <<"geometry", "Available">> \in build_permissions_probe(m)
                  <=> probe_geometry(m.x) = "Available"
<1>1. diagnostic_permission_issues(m)
        = {<<"capture", probe_xinput2(m.x)>>, <<"injection", probe_xtest(m.x)>>,
           <<"geometry", probe_geometry(m.x)>>}
  BY DEF diagnostic_permission_issues, linux_x11_diagnostic_issues
<1>2. \A part \in {"capture", "injection", "geometry"} :
         <<part, "Available">> \in build_permissions_probe(m)
            <=> <<part, "Available">> \in diagnostic_permission_issues(m)
  BY DEF build_permissions_probe
<1> QED BY <1>1, <1>2

LEMMA TruthOnX11 ==
    ASSUME NEW m, IsMachine(m), SessionOf(m).kind = "LinuxX11"
    PROVE  LET caps == probe_capabilities(m) IN
           /\ start_input_capture(m) = "Available" => CaptureCapabilities \subseteq caps
           /\ CaptureCapabilities \subseteq caps =>
                 start_input_capture(m) \in {"Available", "SymbolUnavailable", "Window", "RawInput"}
           /\ inject_input(m) = "Available" <=> InjectCapabilities \subseteq caps
           /\ caps \cap InjectCapabilities \in {{}, InjectCapabilities}
           /\ CaptureCapabilities \subseteq caps <=> probe_xinput2(m.x) = "Available"
           /\ inject_input(m) = "Available" <=> probe_xtest(m.x) = "Available"
<1>1. IsX11(m.x)
  BY DEF IsMachine, IsX11
<1>2. probe_capabilities(m)
        = (IF probe_xinput2(m.x) = "Available" THEN CaptureCapabilities ELSE {})
            \cup (IF probe_xtest(m.x) = "Available" THEN InjectCapabilities ELSE {})
  BY DEF probe_capabilities, linux_x11_capabilities
<1>3. start_input_capture(m) = X11CaptureStarts(m.x) /\ inject_input(m) = probe_xtest(m.x)
  BY <1>1, X11Parts DEF start_input_capture, inject_input
<1>4. CaptureCapabilities \subseteq probe_capabilities(m) <=> probe_xinput2(m.x) = "Available"
  BY <1>2, Capabilities4
<1>5. InjectCapabilities \subseteq probe_capabilities(m) <=> probe_xtest(m.x) = "Available"
  BY <1>2, Capabilities4
<1>6. probe_capabilities(m) \cap InjectCapabilities \in {{}, InjectCapabilities}
  BY <1>2, Capabilities4
<1>7. X11CaptureStarts(m.x) = "Available" => probe_xinput2(m.x) = "Available"
  BY <1>1, X11Parts DEF Opens, Xinput2CaptureSymbols
<1>8. probe_xinput2(m.x) = "Available" =>
         X11CaptureStarts(m.x) \in {"Available", "SymbolUnavailable"}
  BY <1>1, X11Parts
<1> QED BY <1>3, <1>4, <1>5, <1>6, <1>7, <1>8

LEMMA TruthOnWindows ==
    ASSUME NEW m, IsMachine(m), SessionOf(m).kind = "Windows"
    PROVE  LET caps == probe_capabilities(m) IN
           /\ start_input_capture(m) = "Available" => CaptureCapabilities \subseteq caps
           /\ CaptureCapabilities \subseteq caps =>
                 start_input_capture(m) \in {"Available", "SymbolUnavailable", "Window", "RawInput"}
           /\ inject_input(m) = "Available" <=> InjectCapabilities \subseteq caps
           /\ caps \cap InjectCapabilities \in {{}, InjectCapabilities}
<1>1. IsWindows(m.w) /\ m.w.sends \in BOOLEAN
  BY DEF IsMachine, IsWindows
<1>2. probe_capabilities(m)
        = (IF m.w.desktop /\ m.w.mouseHook THEN {"capture_pointer"} ELSE {})
            \cup (IF m.w.desktop /\ m.w.keyboardHook THEN {"capture_keyboard"} ELSE {})
            \cup (IF m.w.sends THEN InjectCapabilities ELSE {})
  BY DEF probe_capabilities, probe_windows_capabilities
<1>3. /\ start_input_capture(m) = WindowsCaptureStarts(m.w)
      /\ inject_input(m) = IF m.w.sends THEN "Available" ELSE "Rejected"
  BY DEF start_input_capture, inject_input
<1>4. CaptureCapabilities \subseteq probe_capabilities(m)
         <=> m.w.desktop /\ m.w.mouseHook /\ m.w.keyboardHook
  BY <1>2 DEF CaptureCapabilities, InjectCapabilities
<1>5. InjectCapabilities \subseteq probe_capabilities(m) <=> m.w.sends
  BY <1>1, <1>2 DEF InjectCapabilities
<1>6. probe_capabilities(m) \cap InjectCapabilities \in {{}, InjectCapabilities}
  BY <1>2 DEF InjectCapabilities
<1> QED BY <1>1, <1>3, <1>4, <1>5, <1>6, WindowsStarts

LEMMA TruthElsewhere ==
    ASSUME NEW m, SessionOf(m).kind \notin {"LinuxX11", "Windows"}
    PROVE  /\ probe_capabilities(m) = {}
           /\ start_input_capture(m) = "NotAvailable" /\ inject_input(m) = "NotAvailable"
BY DEF probe_capabilities, start_input_capture, inject_input

LEMMA ProbeTells ==
    ASSUME NEW m, IsMachine(m)
    PROVE  IsTruthfulOn(m)
<1> DEFINE caps == probe_capabilities(m)
<1>1. /\ start_input_capture(m) = "Available" => CaptureCapabilities \subseteq caps
      /\ CaptureCapabilities \subseteq caps =>
            start_input_capture(m) \in {"Available", "SymbolUnavailable", "Window", "RawInput"}
      /\ inject_input(m) = "Available" <=> InjectCapabilities \subseteq caps
      /\ caps \cap InjectCapabilities \in {{}, InjectCapabilities}
  <2>1. CASE SessionOf(m).kind = "LinuxX11"
    BY <2>1, TruthOnX11
  <2>2. CASE SessionOf(m).kind = "Windows"
    BY <2>2, TruthOnWindows
  <2>3. CASE SessionOf(m).kind \notin {"LinuxX11", "Windows"}
    BY <2>3, TruthElsewhere, Capabilities4
  <2> QED BY <2>1, <2>2, <2>3
<1>2. ASSUME SessionOf(m).kind = "LinuxX11"
      PROVE  /\ <<"capture", "Available">> \in build_permissions_probe(m)
                   <=> CaptureCapabilities \subseteq caps
             /\ <<"injection", "Available">> \in build_permissions_probe(m)
                   <=> inject_input(m) = "Available"
             /\ <<"geometry", "Available">> \in build_permissions_probe(m)
                   <=> read_desktop_geometry(m) = "Available"
  <2>1. read_desktop_geometry(m) = probe_geometry(m.x)
    BY <1>2 DEF read_desktop_geometry
  <2> QED BY <1>2, <2>1, IssuesOfX11, TruthOnX11
<1>3. ASSUME SessionOf(m).kind = "LinuxX11", read_desktop_geometry(m) = "Available"
      PROVE  LET all == union_logical_rects(ValidMonitors(m.x.monitors))
             IN /\ G!Inside(all, m.x.pointer)
                /\ \A b \in ValidMonitors(m.x.monitors) :
                      /\ all.left <= b.left /\ all.top <= b.top
                      /\ all.width < IntMax => G!Right(b) <= G!Right(all)
                      /\ all.height < IntMax => G!Bottom(b) <= G!Bottom(all)
  <2>1. IsX11(m.x) /\ probe_geometry(m.x) = "Available"
    BY <1>3 DEF IsMachine, IsX11, read_desktop_geometry
  <2>2. /\ ValidMonitors(m.x.monitors) # {}
        /\ G!Inside(union_logical_rects(ValidMonitors(m.x.monitors)), m.x.pointer)
    BY <2>1, GeometryOf
  <2>3. /\ ValidMonitors(m.x.monitors) \in SUBSET G!LogicalRect
        /\ \A r \in ValidMonitors(m.x.monitors) : G!IsValid(r)
    BY <2>1 DEF IsX11, ValidMonitors
  <2> QED BY <2>2, <2>3, UnionCovers
<1>4. ~required_input_capabilities_available(m) => ProbeRecovers(m)
  BY DEF required_input_capabilities_available, ProbeRecovers, build_permissions_probe
<1>5. ASSUME m.os = "windows", ProbeRecovers(m) PROVE ~required_input_capabilities_available(m)
  <2>1. SessionOf(m).kind = "Windows"
    BY <1>5 DEF SessionOf, Session
  <2>2. diagnostic_permission_issues(m) = {}
    BY <2>1 DEF diagnostic_permission_issues
  <2> QED BY <1>5, <2>2 DEF required_input_capabilities_available, ProbeRecovers, build_permissions_probe
<1> QED BY <1>1, <1>2, <1>3, <1>4, <1>5 DEF IsTruthfulOn

----
(***************************************************************************)
(* Codes.  What a key is captured as crosses the wire unchanged, and the   *)
(* codes of the keyboard tell which keys answer to it.                     *)
(***************************************************************************)
LEMMA WireNames ==
    \A m \in Modifiers : /\ WireModifier[m] # "code:"
                         /\ \A n \in Modifiers : WireModifier[n] = WireModifier[m] => n = m
<1>1. /\ WireModifier["LeftShift"] = "leftShift" /\ WireModifier["RightShift"] = "rightShift"
      /\ WireModifier["LeftControl"] = "leftControl" /\ WireModifier["RightControl"] = "rightControl"
      /\ WireModifier["LeftAlt"] = "leftAlt" /\ WireModifier["RightAlt"] = "rightAlt"
      /\ WireModifier["LeftMeta"] = "leftMeta" /\ WireModifier["RightMeta"] = "rightMeta"
  BY DEF WireModifier, Modifiers
<1> QED BY <1>1 DEF Modifiers

LEMMA WireKeepsNames == \A m \in Modifiers : OnTheWire(Named(m)) = Named(m)
<1> SUFFICES ASSUME NEW m \in Modifiers PROVE OnTheWire(Named(m)) = Named(m)
  OBVIOUS
<1> DEFINE w == [text |-> WireModifier[m], number |-> 0]
<1>1. m # "Code" /\ Named(m).name = m
  BY DEF Modifiers, Named
<1>2. physical_key_name(Named(m)) = w
  BY <1>1 DEF physical_key_name
<1>3. (CHOOSE n \in Modifiers : WireModifier[n] = w.text) = m
  BY WireNames
<1>4. \E n \in Modifiers : WireModifier[n] = w.text
  OBVIOUS
<1> QED BY <1>2, <1>3, <1>4 DEF OnTheWire, parse_physical_key_name

LEMMA WireKeepsCodes == \A c \in 0..MaxCode : OnTheWire(Code(c)) = Code(c)
<1> SUFFICES ASSUME NEW c \in 0..MaxCode PROVE OnTheWire(Code(c)) = Code(c)
  OBVIOUS
<1> DEFINE w == [text |-> "code:", number |-> c]
<1>1. physical_key_name(Code(c)) = w
  BY DEF physical_key_name, Code
<1>2. w.text = "code:" /\ w.number = c
  OBVIOUS
<1> HIDE DEF w
<1>3. ~\E m \in Modifiers : WireModifier[m] = w.text
  BY <1>2, WireNames
<1> QED BY <1>1, <1>2, <1>3 DEF OnTheWire, parse_physical_key_name

LEMMA KeyTyped ==
    \A k \in Keyboard :
        /\ k.name \in Modifiers \cup {"Backspace", "Code"}
        /\ k.scan \in 1..127 /\ k.extended \in BOOLEAN /\ k.evdev \in 1..247
        /\ k.extended => k.scan # k.evdev
        /\ k.name = "Backspace" => k.scan = 14 /\ k.evdev = 14
<1> SUFFICES ASSUME NEW k \in Keyboard
             PROVE  /\ k.name \in Modifiers \cup {"Backspace", "Code"}
                    /\ k.scan \in 1..127 /\ k.extended \in BOOLEAN /\ k.evdev \in 1..247
                    /\ k.extended => k.scan # k.evdev
                    /\ k.name = "Backspace" => k.scan = 14 /\ k.evdev = 14
  OBVIOUS
<1>1. k.name \in Modifiers \cup {"Backspace", "Code"}
  BY KeyboardAssumption
<1>2. k.scan \in 1..127 /\ k.evdev \in 1..247
  BY KeyboardAssumption
<1>3. k.extended \in BOOLEAN
  BY KeyboardAssumption
<1>4. k.extended => k.scan # k.evdev
  BY KeyboardAssumption
<1>5. k.name = "Backspace" => k.scan = 14 /\ k.evdev = 14
  BY KeyboardAssumption
<1> QED BY <1>1, <1>2, <1>3, <1>4, <1>5

LEMMA KeysDiffer ==
    \A k, l \in Keyboard : (k.scan = l.scan /\ k.extended = l.extended) \/ k.evdev = l.evdev => k = l
BY KeyboardAssumption

LEMMA CodesFit == MaxCode \in Nat /\ 247 < MaxCode
BY DEF MaxCode

LEMMA ModifierIs ==
    ASSUME NEW k \in Keyboard, k.name \in Modifiers
    PROVE  \/ k.name = "LeftShift" /\ k.scan = 42 /\ ~k.extended /\ k.evdev = 42
           \/ k.name = "RightShift" /\ k.scan = 54 /\ ~k.extended /\ k.evdev = 54
           \/ k.name = "LeftControl" /\ k.scan = 29 /\ ~k.extended /\ k.evdev = 29
           \/ k.name = "RightControl" /\ k.scan = 29 /\ k.extended /\ k.evdev = 97
           \/ k.name = "LeftAlt" /\ k.scan = 56 /\ ~k.extended /\ k.evdev = 56
           \/ k.name = "RightAlt" /\ k.scan = 56 /\ k.extended /\ k.evdev = 100
           \/ k.name = "LeftMeta" /\ k.scan = 91 /\ k.extended /\ k.evdev = 125
           \/ k.name = "RightMeta" /\ k.scan = 92 /\ k.extended /\ k.evdev = 126
BY KeyboardAssumption DEF HasCodes, Modifiers

LEMMA EvdevNames ==
    ASSUME NEW c, c \in DOMAIN EvdevModifier
    PROVE  \/ c = 42 /\ EvdevModifier[c] = "LeftShift"
           \/ c = 54 /\ EvdevModifier[c] = "RightShift"
           \/ c = 29 /\ EvdevModifier[c] = "LeftControl"
           \/ c = 97 /\ EvdevModifier[c] = "RightControl"
           \/ c = 56 /\ EvdevModifier[c] = "LeftAlt"
           \/ c = 100 /\ EvdevModifier[c] = "RightAlt"
           \/ c = 125 /\ EvdevModifier[c] = "LeftMeta"
           \/ c = 126 /\ EvdevModifier[c] = "RightMeta"
BY DEF EvdevModifier

LEMMA EvdevDomain == DOMAIN EvdevModifier = {42, 54, 29, 97, 56, 100, 125, 126}
BY DEF EvdevModifier

LEMMA EvdevIsModifier ==
    ASSUME NEW k \in Keyboard
    PROVE  /\ k.evdev \in DOMAIN EvdevModifier <=> k.name \in Modifiers
           /\ k.name \in Modifiers => EvdevModifier[k.evdev] = k.name
<1>1. ASSUME k.name \in Modifiers
      PROVE  k.evdev \in DOMAIN EvdevModifier /\ EvdevModifier[k.evdev] = k.name
  <2>1. k.evdev \in DOMAIN EvdevModifier
    BY <1>1, ModifierIs, EvdevDomain
  <2> QED BY <1>1, <2>1, ModifierIs, EvdevNames
<1>2. ASSUME k.evdev \in DOMAIN EvdevModifier PROVE k.name \in Modifiers
  <2>1. k.evdev \in {42, 54, 29, 97, 56, 100, 125, 126}
    BY <1>2, EvdevDomain
  <2> QED BY <2>1, KeyboardAssumption DEF HasCodes, Modifiers
<1> QED BY <1>1, <1>2

LEMMA CapturedModifier ==
    ASSUME NEW k \in Keyboard, k.name \in Modifiers, NEW p \in {"x11", "windows"}
    PROVE  CapturedOn(p, k) = Named(k.name)
<1>1. k.evdev \in 1..247
  BY KeyTyped
<1>2. physical_key_from_linux_x11_keycode(k.evdev + XORG_EVDEV_KEYCODE_OFFSET) = Named(k.name)
  BY <1>1, EvdevIsModifier DEF physical_key_from_linux_x11_keycode, XORG_EVDEV_KEYCODE_OFFSET
<1>3. physical_key_from_windows_raw_keyboard(k) = Named(k.name)
  BY ModifierIs DEF physical_key_from_windows_raw_keyboard, GenericVKey, Modifiers
<1> QED BY <1>2, <1>3 DEF CapturedOn

LEMMA CapturedCode ==
    ASSUME NEW k \in Keyboard, k.name \notin Modifiers
    PROVE  /\ CapturedOn("x11", k) = Code(k.evdev)
           /\ CapturedOn("windows", k) = Code(k.scan)
<1>1. k.evdev \in 1..247 /\ k.name \in {"Backspace", "Code"} /\ (k.name = "Backspace" => k.scan = 14)
  BY KeyTyped
<1>2. physical_key_from_linux_x11_keycode(k.evdev + XORG_EVDEV_KEYCODE_OFFSET) = Code(k.evdev)
  BY <1>1, EvdevIsModifier DEF physical_key_from_linux_x11_keycode, XORG_EVDEV_KEYCODE_OFFSET
<1>3. physical_key_from_windows_raw_keyboard(k) = Code(k.scan)
  BY <1>1 DEF physical_key_from_windows_raw_keyboard, GenericVKey, Modifiers, DEFAULT_PANIC_HOTKEY_KEY
<1> QED BY <1>2, <1>3 DEF CapturedOn

LEMMA InjectedModifier ==
    ASSUME NEW k \in Keyboard, k.name \in Modifiers, NEW p \in {"x11", "windows"}
    PROVE  InjectedOn(p, Named(k.name)) = {k}
<1>1. \A l \in Keyboard : l.name = k.name => l = k
  BY ModifierIs, KeysDiffer
<1>2. Named(k.name).name = k.name /\ k.name # "Code"
  BY DEF Named, Modifiers
<1>3. windows_scan_code_for_physical_key(Named(k.name)) = <<k.scan, k.extended>>
  <2> DEFINE w == windows_scan_code_for_physical_key(Named(k.name))
  <2>1. /\ k.name = "LeftShift" => w = <<42, FALSE>>
        /\ k.name = "RightShift" => w = <<54, FALSE>>
        /\ k.name = "LeftControl" => w = <<29, FALSE>>
        /\ k.name = "RightControl" => w = <<29, TRUE>>
        /\ k.name = "LeftAlt" => w = <<56, FALSE>>
        /\ k.name = "RightAlt" => w = <<56, TRUE>>
        /\ k.name = "LeftMeta" => w = <<91, TRUE>>
        /\ k.name = "RightMeta" => w = <<92, TRUE>>
    BY <1>2 DEF windows_scan_code_for_physical_key
  <2> SUFFICES w = <<k.scan, k.extended>>
    OBVIOUS
  <2> HIDE DEF w
  <2>2. /\ k.name = "LeftShift" => k.scan = 42 /\ k.extended = FALSE
        /\ k.name = "RightShift" => k.scan = 54 /\ k.extended = FALSE
        /\ k.name = "LeftControl" => k.scan = 29 /\ k.extended = FALSE
        /\ k.name = "RightControl" => k.scan = 29 /\ k.extended = TRUE
        /\ k.name = "LeftAlt" => k.scan = 56 /\ k.extended = FALSE
        /\ k.name = "RightAlt" => k.scan = 56 /\ k.extended = TRUE
        /\ k.name = "LeftMeta" => k.scan = 91 /\ k.extended = TRUE
        /\ k.name = "RightMeta" => k.scan = 92 /\ k.extended = TRUE
    BY KeyboardAssumption DEF HasCodes
  <2>3. k.extended \in BOOLEAN
    BY KeyTyped
  <2>4. \/ k.name = "LeftShift" \/ k.name = "RightShift" \/ k.name = "LeftControl"
        \/ k.name = "RightControl" \/ k.name = "LeftAlt" \/ k.name = "RightAlt"
        \/ k.name = "LeftMeta" \/ k.name = "RightMeta"
    BY DEF Modifiers
  <2> QED BY <2>1, <2>2, <2>3, <2>4
<1>4. WindowsInjects(Named(k.name)) = {k}
  BY <1>3, KeysDiffer DEF WindowsInjects
<1>5. LinuxX11Injects(Named(k.name)) = {k}
  BY <1>1, <1>2 DEF LinuxX11Injects
<1> QED BY <1>4, <1>5 DEF InjectedOn

LEMMA InjectedCode ==
    ASSUME NEW k \in Keyboard, NEW c \in 1..247
    PROVE  /\ InjectedOn("x11", Code(c)) = {k} <=> k.evdev = c
           /\ InjectedOn("windows", Code(c)) = {k} <=> k.scan = c /\ ~k.extended
<1>1. Code(c).name = "Code" /\ Code(c).code = c
  BY DEF Code
<1>2. linux_x11_keycode_from_physical_code(c) = c + XORG_EVDEV_KEYCODE_OFFSET
  BY DEF linux_x11_keycode_from_physical_code, XORG_EVDEV_KEYCODE_OFFSET
<1>3. InjectedOn("x11", Code(c)) = {l \in Keyboard : l.evdev + XORG_EVDEV_KEYCODE_OFFSET = c + XORG_EVDEV_KEYCODE_OFFSET}
  BY <1>1, <1>2 DEF InjectedOn, LinuxX11Injects
<1>4. \A l \in Keyboard : l.evdev + XORG_EVDEV_KEYCODE_OFFSET = c + XORG_EVDEV_KEYCODE_OFFSET <=> l.evdev = c
  BY KeyTyped DEF XORG_EVDEV_KEYCODE_OFFSET
<1>5. InjectedOn("x11", Code(c)) = {k} <=> k.evdev = c
  BY <1>3, <1>4, KeysDiffer
<1>6. windows_scan_code_for_physical_key(Code(c)) = <<c, FALSE>>
  BY <1>1 DEF windows_scan_code_for_physical_key
<1>7. \A l \in Keyboard : <<l.scan, l.extended>> = <<c, FALSE>> <=> l.scan = c /\ ~l.extended
  BY KeyTyped
<1>8. InjectedOn("windows", Code(c)) = {l \in Keyboard : <<l.scan, l.extended>> = <<c, FALSE>>}
  BY <1>6 DEF InjectedOn, WindowsInjects
<1>9. InjectedOn("windows", Code(c)) = {k} <=> k.scan = c /\ ~k.extended
  BY <1>7, <1>8, KeysDiffer
<1> QED BY <1>5, <1>9

LEMMA KeysArrive ==
    ASSUME NEW k \in Keyboard, NEW source \in {"x11", "windows"}, NEW target \in {"x11", "windows"}
    PROVE  InjectedOn(target, OnTheWire(CapturedOn(source, k))) = {k}
              <=> k.name \in Modifiers \/ CodeCarries(k, source, target)
<1>1. CASE k.name \in Modifiers
  BY <1>1, CapturedModifier, WireKeepsNames, InjectedModifier
<1>2. CASE k.name \notin Modifiers
  <2>1. /\ k.scan \in 1..127 /\ k.evdev \in 1..247 /\ k.extended \in BOOLEAN
        /\ k.extended => k.scan # k.evdev
    BY KeyTyped
  <2>2. /\ OnTheWire(Code(k.scan)) = Code(k.scan) /\ OnTheWire(Code(k.evdev)) = Code(k.evdev)
        /\ k.scan \in 1..247
    BY <2>1, WireKeepsCodes, CodesFit
  <2>3. CASE source = "x11"
    <3>1. OnTheWire(CapturedOn(source, k)) = Code(k.evdev)
      BY <1>2, <2>2, <2>3, CapturedCode
    <3> QED BY <1>2, <2>1, <2>3, <3>1, InjectedCode DEF CodeCarries
  <2>4. CASE source = "windows"
    <3>1. OnTheWire(CapturedOn(source, k)) = Code(k.scan)
      BY <1>2, <2>2, <2>4, CapturedCode
    <3> QED BY <1>2, <2>1, <2>2, <2>4, <3>1, InjectedCode DEF CodeCarries
  <2> QED BY <2>3, <2>4
<1> QED BY <1>1, <1>2

LEMMA CapturesAgree ==
    ASSUME NEW k \in Keyboard
    PROVE  /\ physical_key_from_windows_hook(k) = physical_key_from_windows_raw_keyboard(k)
           /\ k.name = "Backspace" =>
                 \A p \in {"x11", "windows"} : CapturedOn(p, k) = DEFAULT_PANIC_HOTKEY_KEY
<1>1. CASE k.name \in Modifiers
  <2>1. physical_key_from_windows_raw_keyboard(k) = Named(k.name)
    BY <1>1, CapturedModifier DEF CapturedOn
  <2> QED BY <1>1, <2>1 DEF physical_key_from_windows_hook, Modifiers
<1>2. CASE k.name \notin Modifiers
  <2>1. physical_key_from_windows_raw_keyboard(k) = Code(k.scan)
    BY <1>2, CapturedCode DEF CapturedOn
  <2> QED BY <1>2, <2>1, CapturedCode, KeyTyped
          DEF physical_key_from_windows_hook, DEFAULT_PANIC_HOTKEY_KEY
<1> QED BY <1>1, <1>2

LEMMA ScrollsClick ==
    ASSUME NEW d \in Int, d # 0, -120 <= d, d <= 120, NEW p, NEW n
    PROVE  ScrollClicks(d, p, n) = IF d > 0 THEN <<p>> ELSE <<n>>
<1>1. linux_x11_scroll_click_count(d) = 1
  BY DEF linux_x11_scroll_click_count, LINUX_X11_SCROLL_DELTA_PER_CLICK
<1> QED BY <1>1 DEF ScrollClicks

LEMMA NothingClicks == \A p, n : ScrollClicks(0, p, n) = << >>
<1>1. linux_x11_scroll_click_count(0) = 0
  BY DEF linux_x11_scroll_click_count, LINUX_X11_SCROLL_DELTA_PER_CLICK
<1> QED BY <1>1 DEF ScrollClicks

LEMMA WheelClicks ==
    ASSUME NEW d \in 1..120
    PROVE  /\ LinuxX11Clicks(Scroll(0, d)) = <<4>> /\ LinuxX11Clicks(Scroll(0, -d)) = <<5>>
           /\ LinuxX11Clicks(Scroll(d, 0)) = <<7>> /\ LinuxX11Clicks(Scroll(-d, 0)) = <<6>>
<1>1. /\ ScrollClicks(d, 4, 5) = <<4>> /\ ScrollClicks(-d, 4, 5) = <<5>>
      /\ ScrollClicks(d, 7, 6) = <<7>> /\ ScrollClicks(-d, 7, 6) = <<6>>
  BY ScrollsClick
<1>2. ScrollClicks(0, 4, 5) = << >> /\ ScrollClicks(0, 7, 6) = << >>
  BY NothingClicks
<1>3. \A dx, dy : LinuxX11Clicks(Scroll(dx, dy)) = ScrollClicks(dy, 4, 5) \o ScrollClicks(dx, 7, 6)
  BY DEF LinuxX11Clicks, Scroll, linux_x11_scroll_button_events
<1> QED BY <1>1, <1>2, <1>3

LEMMA ButtonsClick ==
    ASSUME NEW n \in 1..9
    PROVE  LinuxX11Clicks(captured_press_from_linux_x11_raw_button(n)) = <<n>>
<1>1. CASE n \in 4..7
  <2>1. 120 \in 1..120 /\ LINUX_X11_SCROLL_DELTA_PER_CLICK = 120
    BY DEF LINUX_X11_SCROLL_DELTA_PER_CLICK
  <2>2. /\ n = 4 => captured_press_from_linux_x11_raw_button(n) = Scroll(0, 120)
        /\ n = 5 => captured_press_from_linux_x11_raw_button(n) = Scroll(0, -120)
        /\ n = 6 => captured_press_from_linux_x11_raw_button(n) = Scroll(-120, 0)
        /\ n = 7 => captured_press_from_linux_x11_raw_button(n) = Scroll(120, 0)
    BY <2>1 DEF captured_press_from_linux_x11_raw_button
  <2>3. n = 4 \/ n = 5 \/ n = 6 \/ n = 7
    BY <1>1
  <2>4. /\ LinuxX11Clicks(Scroll(0, 120)) = <<4>> /\ LinuxX11Clicks(Scroll(0, -120)) = <<5>>
        /\ LinuxX11Clicks(Scroll(-120, 0)) = <<6>> /\ LinuxX11Clicks(Scroll(120, 0)) = <<7>>
    BY <2>1, WheelClicks
  <2> QED BY <2>2, <2>3, <2>4
<1>2. CASE n \in {1, 2, 3, 8, 9}
  <2>1. PICK b \in Buttons : /\ captured_press_from_linux_x11_raw_button(n) = Button(b)
                             /\ linux_x11_mouse_button_number(b) = n
    BY <1>2 DEF captured_press_from_linux_x11_raw_button, linux_x11_mouse_button_number, Buttons
  <2>2. n # NoKey
    BY KeyboardAssumption
  <2>3. Button(b).kind # "scroll" /\ Button(b).button = b
    BY DEF Button
  <2> QED BY <2>1, <2>2, <2>3 DEF LinuxX11Clicks
<1> QED BY <1>1, <1>2

LEMMA InputDoesArrive == InputArrives
<1>1. \A d \in 1..LINUX_X11_SCROLL_DELTA_PER_CLICK :
         LinuxX11Clicks(Scroll(0, d)) = <<4>> /\ LinuxX11Clicks(Scroll(0, -d)) = <<5>>
  BY WheelClicks DEF LINUX_X11_SCROLL_DELTA_PER_CLICK
<1> QED BY <1>1, KeysArrive, CapturesAgree, ButtonsClick DEF InputArrives

----
(***************************************************************************)
(* Frames.  A command is read back from its payload.                       *)
(***************************************************************************)
LEMMA NamesBack ==
    ASSUME NEW table, NEW x \in DOMAIN table, \A y \in DOMAIN table : table[y] = table[x] => y = x
    PROVE  NamedBy(table, Word(table[x])) = x
<1>1. Word(table[x]).text = table[x] /\ Word(table[x]).number = 0
  BY DEF Word
<1>2. \E y \in DOMAIN table : table[y] = Word(table[x]).text
  BY <1>1
<1>3. (CHOOSE y \in DOMAIN table : table[y] = Word(table[x]).text) = x
  BY <1>1
<1> QED BY <1>1, <1>2, <1>3 DEF NamedBy

LEMMA StatesBack == \A s \in DOMAIN PressStateName : NamedBy(PressStateName, Word(PressStateName[s])) = s
<1>1. DOMAIN PressStateName = {"Pressed", "Released"}
  BY DEF PressStateName
<1>2. PressStateName["Pressed"] = "pressed" /\ PressStateName["Released"] = "released"
  BY DEF PressStateName
<1>3. \A s, t \in DOMAIN PressStateName : PressStateName[t] = PressStateName[s] => t = s
  BY <1>1, <1>2
<1> QED BY <1>3, NamesBack

LEMMA EdgesBack == \A e \in DOMAIN ScreenEdgeName : NamedBy(ScreenEdgeName, Word(ScreenEdgeName[e])) = e
<1>1. DOMAIN ScreenEdgeName = {"Left", "Right", "Top", "Bottom"}
  BY DEF ScreenEdgeName
<1>2. /\ ScreenEdgeName["Left"] = "left" /\ ScreenEdgeName["Right"] = "right"
      /\ ScreenEdgeName["Top"] = "top" /\ ScreenEdgeName["Bottom"] = "bottom"
  BY DEF ScreenEdgeName
<1>3. \A s, t \in DOMAIN ScreenEdgeName : ScreenEdgeName[t] = ScreenEdgeName[s] => t = s
  BY <1>1, <1>2
<1> QED BY <1>3, NamesBack

LEMMA ButtonNames ==
    /\ DOMAIN MouseButtonName = Buttons
    /\ \A b \in Buttons : /\ NamedBy(MouseButtonName, Word(MouseButtonName[b])) = b
                          /\ MouseButtonName[b] # "other:"
<1>1. DOMAIN MouseButtonName = Buttons
  BY DEF MouseButtonName
<1>2. /\ MouseButtonName["Left"] = "left" /\ MouseButtonName["Right"] = "right"
      /\ MouseButtonName["Middle"] = "middle" /\ MouseButtonName["Back"] = "back"
      /\ MouseButtonName["Forward"] = "forward"
  BY DEF MouseButtonName, Buttons
<1>3. \A s, t \in Buttons : MouseButtonName[t] = MouseButtonName[s] => t = s
  BY <1>2 DEF Buttons
<1>4. \A b \in Buttons : MouseButtonName[b] # "other:"
  BY <1>2 DEF Buttons
<1> QED BY <1>1, <1>3, <1>4, NamesBack

LEMMA ButtonsBack ==
    ASSUME NEW b, IsMouseButton(b)
    PROVE  parse_mouse_button_name(mouse_button_name(b)) = b /\ b # Err
<1>1. CASE b = [name |-> "Other", code |-> b.code] /\ b.code \in 0..MaxCode
  <2>1. b.name = "Other"
    BY <1>1
  <2>2. b # Err
    BY <1>1, FrameAssumption
  <2>3. mouse_button_name(b) = [text |-> "other:", number |-> b.code]
    BY <2>1 DEF mouse_button_name
  <2> QED BY <1>1, <2>2, <2>3 DEF parse_mouse_button_name
<1>2. ASSUME NEW n \in Buttons, b = Named(n)
      PROVE  parse_mouse_button_name(mouse_button_name(b)) = b /\ b # Err
  <2>1. b.name = n /\ n # "Other" /\ b = [name |-> n, code |-> 0]
    BY <1>2 DEF Named, Buttons
  <2>2. b # Err /\ n # Err
    <3>1. MaxCode \in Nat
      BY DEF MaxCode
    <3> QED BY <2>1, <3>1, FrameAssumption
  <2>3. mouse_button_name(b) = Word(MouseButtonName[n])
    BY <2>1 DEF mouse_button_name
  <2>4. Word(MouseButtonName[n]).text # "other:"
    BY ButtonNames DEF Word
  <2> QED BY <1>2, <2>2, <2>3, <2>4, ButtonNames DEF parse_mouse_button_name
<1> QED BY <1>1, <1>2 DEF IsMouseButton

LEMMA PhysicalKeysBack ==
    ASSUME NEW k, IsPhysicalKey(k)
    PROVE  parse_physical_key_name(physical_key_name(k)) = k /\ k # Err
<1>1. MaxCode \in Nat
  BY DEF MaxCode
<1>2. ASSUME NEW m \in Modifiers, k = Named(m)
      PROVE  parse_physical_key_name(physical_key_name(k)) = k /\ k # Err
  <2>1. k # Err
    BY <1>1, <1>2, FrameAssumption DEF Named
  <2> QED BY <1>2, <2>1, WireKeepsNames DEF OnTheWire
<1>3. CASE k = Code(k.code) /\ k.code \in 0..MaxCode
  <2>1. k # Err
    BY <1>1, <1>3, FrameAssumption DEF Code
  <2> QED BY <1>3, <2>1, WireKeepsCodes DEF OnTheWire
<1> QED BY <1>2, <1>3 DEF IsPhysicalKey

LEMMA EventsBack ==
    ASSUME NEW e, IsInputEvent(e)
    PROVE  into_input_event(EventPayload(e)) = e /\ e # Err
<1> DEFINE p == EventPayload(e)
<1>1. e # Err
  BY DEF IsInputEvent
<1>2. CASE /\ e.kind = "Key" /\ e = [kind |-> "Key", key |-> e.key, state |-> e.state]
           /\ IsPhysicalKey(e.key) /\ e.state \in DOMAIN PressStateName
  <2>1. p = [kind |-> "key", code |-> physical_key_name(e.key), state |-> Word(PressStateName[e.state])]
    BY <1>2 DEF EventPayload
  <2>2. /\ p.kind = "key" /\ p.code = physical_key_name(e.key)
        /\ p.state = Word(PressStateName[e.state])
    BY <2>1
  <2>3. NamedBy(PressStateName, p.state) = e.state /\ e.state # Err
    BY <1>2, <2>2, StatesBack, FrameAssumption
  <2>4. parse_physical_key_name(p.code) = e.key /\ e.key # Err
    BY <1>2, <2>2, PhysicalKeysBack
  <2> HIDE DEF p
  <2>5. into_input_event(p) = [kind |-> "Key", key |-> e.key, state |-> e.state]
    BY <2>2, <2>3, <2>4 DEF into_input_event
  <2> QED BY <1>1, <1>2, <2>5 DEF p
<1>3. CASE /\ e.kind = "MouseButton" /\ e = [kind |-> "MouseButton", button |-> e.button, state |-> e.state]
           /\ IsMouseButton(e.button) /\ e.state \in DOMAIN PressStateName
  <2>1. p = [kind |-> "mouseButton", code |-> mouse_button_name(e.button),
             state |-> Word(PressStateName[e.state])]
    BY <1>3 DEF EventPayload
  <2>2. /\ p.kind = "mouseButton" /\ p.code = mouse_button_name(e.button)
        /\ p.state = Word(PressStateName[e.state])
    BY <2>1
  <2>3. NamedBy(PressStateName, p.state) = e.state /\ e.state # Err
    BY <1>3, <2>2, StatesBack, FrameAssumption
  <2>4. parse_mouse_button_name(p.code) = e.button /\ e.button # Err
    BY <1>3, <2>2, ButtonsBack
  <2> HIDE DEF p
  <2>5. into_input_event(p) = [kind |-> "MouseButton", button |-> e.button, state |-> e.state]
    BY <2>2, <2>3, <2>4 DEF into_input_event
  <2> QED BY <1>1, <1>3, <2>5 DEF p
<1>4. CASE e.kind \in {"PointerMoved", "Scroll"} /\ e = [kind |-> e.kind, delta |-> e.delta]
  <2>1. CASE e.kind = "PointerMoved"
    <3>1. p = [kind |-> "pointerMoved", delta |-> e.delta]
      BY <2>1 DEF EventPayload
    <3> HIDE DEF p
    <3>2. into_input_event(p) = [kind |-> "PointerMoved", delta |-> e.delta]
      BY <3>1 DEF into_input_event
    <3> QED BY <1>1, <1>4, <2>1, <3>2 DEF p
  <2>2. CASE e.kind = "Scroll"
    <3>1. p = [kind |-> "scroll", delta |-> e.delta]
      BY <2>2 DEF EventPayload
    <3> HIDE DEF p
    <3>2. into_input_event(p) = [kind |-> "Scroll", delta |-> e.delta]
      BY <3>1 DEF into_input_event
    <3> QED BY <1>1, <1>4, <2>2, <3>2 DEF p
  <2> QED BY <1>4, <2>1, <2>2
<1> QED BY <1>2, <1>3, <1>4 DEF IsInputEvent

LEMMA CrossingsBack ==
    ASSUME NEW c, c = Err \/ IsCoreCrossing(c)
    PROVE  /\ into_crossing(CrossingPayload(c)) = c
           /\ CrossingPayload(c) = Err \/ IsCrossing(CrossingPayload(c))
<1>1. CASE c = Err
  BY <1>1 DEF CrossingPayload, into_crossing
<1>2. CASE IsCoreCrossing(c)
  <2> DEFINE p == CrossingPayload(c)
  <2>1. /\ c = [peer |-> c.peer, local |-> c.local, remote |-> c.remote, exit |-> c.exit]
        /\ c.local \in DOMAIN ScreenEdgeName /\ c.remote \in DOMAIN ScreenEdgeName
        /\ c # Err /\ p # Err
    BY <1>2 DEF IsCoreCrossing
  <2>2. p = [peer |-> c.peer, local |-> Word(ScreenEdgeName[c.local]),
             remote |-> Word(ScreenEdgeName[c.remote]), exit |-> c.exit]
    BY <2>1 DEF CrossingPayload
  <2>3. /\ NamedBy(ScreenEdgeName, Word(ScreenEdgeName[c.local])) = c.local
        /\ NamedBy(ScreenEdgeName, Word(ScreenEdgeName[c.remote])) = c.remote
    BY <2>1, EdgesBack
  <2> HIDE DEF p
  <2>4. into_crossing(p) = [peer |-> c.peer, local |-> c.local, remote |-> c.remote, exit |-> c.exit]
    BY <2>1, <2>2, <2>3 DEF into_crossing
  <2>5. IsCrossing(p)
    <3>1. c.local # Err /\ c.remote # Err
      BY <2>1, FrameAssumption
    <3>2. p.local = Word(ScreenEdgeName[c.local]) /\ p.remote = Word(ScreenEdgeName[c.remote])
      BY <2>2
    <3> QED BY <2>3, <3>1, <3>2 DEF IsCrossing
  <2> QED BY <2>1, <2>4, <2>5 DEF p
<1> QED BY <1>1, <1>2

LEMMA CommandsBack ==
    ASSUME NEW c, IsCommand(c)
    PROVE  into_command(CommandPayload(c)) = c /\ c # Err
<1> DEFINE p == CommandPayload(c)
<1>1. c # Err
  BY DEF IsCommand
<1>2. CASE /\ c.kind = "StartRemoteSession"
           /\ c = [kind |-> "StartRemoteSession", peer |-> c.peer, crossing |-> c.crossing]
           /\ c.crossing = Err \/ IsCoreCrossing(c.crossing)
  <2>1. p = [kind |-> "startRemoteSession", peer |-> c.peer, crossing |-> CrossingPayload(c.crossing)]
    BY <1>2 DEF CommandPayload
  <2>2. p.kind = "startRemoteSession" /\ p.peer = c.peer /\ p.crossing = CrossingPayload(c.crossing)
    BY <2>1
  <2>3. /\ into_crossing(p.crossing) = c.crossing
        /\ p.crossing = Err \/ IsCrossing(p.crossing)
    BY <1>2, <2>2, CrossingsBack
  <2> HIDE DEF p
  <2>4. into_command(p) = [kind |-> "StartRemoteSession", peer |-> c.peer, crossing |-> c.crossing]
    BY <2>2, <2>3 DEF into_command
  <2> QED BY <1>1, <1>2, <2>4 DEF p
<1>3. CASE c.kind = "ForwardInput" /\ c = [kind |-> "ForwardInput", event |-> c.event] /\ IsInputEvent(c.event)
  <2>1. p = [kind |-> "forwardInput", event |-> EventPayload(c.event)]
    BY <1>3 DEF CommandPayload
  <2>2. p.kind = "forwardInput" /\ p.event = EventPayload(c.event)
    BY <2>1
  <2>3. into_input_event(p.event) = c.event /\ c.event # Err
    BY <1>3, <2>2, EventsBack
  <2> HIDE DEF p
  <2>4. into_command(p) = [kind |-> "ForwardInput", event |-> c.event]
    BY <2>2, <2>3 DEF into_command
  <2> QED BY <1>1, <1>3, <2>4 DEF p
<1>4. CASE c = [kind |-> "ReleaseAllInputs"]
  <2>1. p = [kind |-> "releaseAllInputs"]
    BY <1>4 DEF CommandPayload
  <2> HIDE DEF p
  <2>2. into_command(p) = [kind |-> "ReleaseAllInputs"]
    BY <2>1 DEF into_command
  <2> QED BY <1>1, <1>4, <2>2 DEF p
<1>5. CASE c.kind = "StopRemoteSession" /\ c = [kind |-> "StopRemoteSession", session |-> c.session]
  <2>1. p = [kind |-> "stopRemoteSession", session |-> c.session]
    BY <1>5 DEF CommandPayload
  <2> HIDE DEF p
  <2>2. into_command(p) = [kind |-> "StopRemoteSession", session |-> c.session]
    BY <2>1 DEF into_command
  <2> QED BY <1>1, <1>5, <2>2 DEF p
<1> QED BY <1>2, <1>3, <1>4, <1>5 DEF IsCommand

LEMMA OneShotsBack ==
    ASSUME NEW c, IsCommand(c), NEW mine, NEW theirs
    PROVE  OneShotReads(theirs, OneShotMessage(mine, c)) = IF mine.major = theirs.major THEN c ELSE Err
<1> DEFINE m == OneShotMessage(mine, c)
<1>1. m.protocol = mine /\ m.payload = CommandPayload(c)
  BY DEF OneShotMessage
<1> HIDE DEF m
<1>2. OneShotReads(theirs, m) = IF mine.major = theirs.major THEN into_command(CommandPayload(c)) ELSE Err
  BY <1>1 DEF OneShotReads
<1> QED BY <1>2, CommandsBack DEF m

----
(***************************************************************************)
(* The listener.  What it is after each frame, and that it is what the     *)
(* definition without the automaton says.                                  *)
(***************************************************************************)
(* From one number of a set to the next. *)
LEMMA Upward ==
    ASSUME NEW S, NEW lo \in Nat, NEW hi \in Nat, lo \in S,
           \A n \in lo..hi : n \in S /\ n < hi => n + 1 \in S
    PROVE  \A n \in lo..hi : n \in S
<1> DEFINE T == {n \in Nat : n \in lo..hi /\ n \notin S}
<1> SUFFICES ASSUME T # {} PROVE FALSE
  OBVIOUS
<1>1. T \subseteq Nat
  OBVIOUS
<1>2. PICK t \in T : \A u \in T : <<u, t>> \notin OpToRel(<, Nat)
  BY <1>1, NatLessThanWellFounded, WFMin
<1>3. \A u \in T : ~(u < t)
  BY <1>1, <1>2 DEF OpToRel
<1>4. t \in Nat /\ t \in lo..hi /\ t \notin S /\ t # lo
  OBVIOUS
<1>5. t - 1 \in Nat /\ t - 1 \in lo..hi /\ t - 1 < t /\ t - 1 < hi /\ (t - 1) + 1 = t
  BY <1>4
<1>6. t - 1 \in S
  BY <1>3, <1>5
<1> QED BY <1>4, <1>5, <1>6

(* The states of a listener are those of a function. *)
LEMMA States ==
    ASSUME NEW frames, Len(frames) \in Nat
    PROVE  \E after :
              /\ after[0] = ListenerStart
              /\ \A n \in 1..Len(frames) : after[n] = TakesFrame(after[n - 1], frames[n])
              /\ AfterFrames(frames) = after[Len(frames)]
<1> DEFINE L == Len(frames)
           Step(f, m) == [n \in 0..m |-> IF n = 0 THEN ListenerStart ELSE TakesFrame(f[n - 1], frames[n])]
           S == {m \in Nat : \E f : f = Step(f, m)}
<1>1. 0 \in S
  <2> DEFINE f == [n \in 0..0 |-> ListenerStart]
  <2>1. f = Step(f, 0)
    OBVIOUS
  <2> QED BY <2>1
<1>2. ASSUME NEW m \in Nat, m \in S PROVE m + 1 \in S
  <2>1. PICK f : f = Step(f, m)
    BY <1>2
  <2> DEFINE g == [n \in 0..(m + 1) |-> IF n = m + 1 THEN TakesFrame(f[m], frames[m + 1]) ELSE f[n]]
  <2>2. \A n \in 0..m : f[n] = IF n = 0 THEN ListenerStart ELSE TakesFrame(f[n - 1], frames[n])
    BY <2>1
  <2>3. \A n \in 0..(m + 1) : g[n] = IF n = m + 1 THEN TakesFrame(f[m], frames[m + 1]) ELSE f[n]
    OBVIOUS
  <2>4. DOMAIN g = 0..(m + 1) /\ g = [n \in 0..(m + 1) |-> g[n]]
    OBVIOUS
  <2> HIDE DEF g
  <2>5. ASSUME NEW n \in 0..(m + 1)
        PROVE  g[n] = IF n = 0 THEN ListenerStart ELSE TakesFrame(g[n - 1], frames[n])
    <3>1. CASE n = m + 1
      <4>1. n - 1 = m /\ m \in 0..(m + 1) /\ m # m + 1 /\ n # 0
        BY <3>1
      <4> QED BY <2>3, <3>1, <4>1
    <3>2. CASE n # m + 1 /\ n # 0
      <4>1. n \in 0..m /\ n - 1 \in 0..(m + 1) /\ n - 1 # m + 1
        BY <3>2
      <4> QED BY <2>2, <2>3, <3>2, <4>1
    <3>3. CASE n = 0
      BY <2>2, <2>3, <3>3
    <3> QED BY <3>1, <3>2, <3>3
  <2>6. g = Step(g, m + 1)
    BY <2>4, <2>5
  <2> QED BY <2>6
<1> HIDE DEF S
<1>3. \A n \in 0..L : n \in S
  <2>1. \A n \in 0..L : n \in S /\ n < L => n + 1 \in S
    BY <1>2
  <2>2. L \in Nat /\ 0 \in Nat
    OBVIOUS
  <2> HIDE DEF L
  <2> QED BY <1>1, <2>1, <2>2, Upward
<1>4. \E f : f = Step(f, L)
  BY <1>3 DEF S
<1> DEFINE after == CHOOSE f : f = Step(f, L)
<1>5. after = Step(after, L)
  <2> HIDE DEF Step
  <2> QED BY <1>4
<1>6. AfterFrames(frames) = after[L]
  BY DEF AfterFrames
<1> HIDE DEF after
<1>7. /\ after[0] = ListenerStart
      /\ \A n \in 1..L : after[n] = TakesFrame(after[n - 1], frames[n])
  <2>1. \A n \in 0..L : after[n] = IF n = 0 THEN ListenerStart ELSE TakesFrame(after[n - 1], frames[n])
    BY <1>5
  <2> QED BY <2>1
<1> QED BY <1>6, <1>7

----
(* How many commands there are up to a frame. *)
Count(at, n) == Cardinality({j \in at : j <= n})

LEMMA Counts ==
    ASSUME NEW hi \in Nat, NEW at \in SUBSET (4..hi)
    PROVE  /\ \A n \in Nat : Count(at, n) \in Nat
           /\ \A n \in Nat : /\ n + 1 \in at => Count(at, n + 1) = Count(at, n) + 1
                             /\ n + 1 \notin at => Count(at, n + 1) = Count(at, n)
           /\ Count(at, 3) = 0 /\ Count(at, hi) = Cardinality(at)
           /\ \A i \in at : Place(at, Count(at, i)) = i
<1> DEFINE Upto(n) == {j \in at : j <= n}
<1>1. IsFiniteSet(at) /\ \A j \in at : j \in Nat /\ j >= 4 /\ j <= hi
  <2>1. \A j \in at : j \in 4..hi
    OBVIOUS
  <2>2. IsFiniteSet(4..hi)
    BY FS_Interval
  <2>3. IsFiniteSet(at)
    BY <2>2, FS_Subset
  <2> QED BY <2>1, <2>3
<1>2. ASSUME NEW n \in Nat PROVE IsFiniteSet(Upto(n)) /\ Cardinality(Upto(n)) \in Nat
  BY <1>1, FS_Subset, FS_CardinalityType
<1>3. ASSUME NEW n \in Nat, n + 1 \in at
      PROVE  Cardinality(Upto(n + 1)) = Cardinality(Upto(n)) + 1
  <2>1. \A j \in at : j <= n + 1 <=> j <= n \/ j = n + 1
    BY <1>1
  <2>2. ~(n + 1 <= n) /\ n + 1 <= n + 1
    OBVIOUS
  <2>3. Upto(n + 1) = Upto(n) \cup {n + 1} /\ n + 1 \notin Upto(n)
    BY <1>3, <2>1, <2>2
  <2> HIDE DEF Upto
  <2> QED BY <1>2, <2>3, FS_AddElement
<1>4. ASSUME NEW n \in Nat, n + 1 \notin at PROVE Upto(n + 1) = Upto(n)
  <2>1. \A j \in at : j <= n + 1 <=> j <= n \/ j = n + 1
    BY <1>1
  <2>2. \A j \in at : j <= n + 1 <=> j <= n
    BY <1>4, <2>1
  <2> QED BY <2>2
<1>5. Upto(3) = {} /\ Upto(hi) = at
  <2>1. \A j \in at : ~(j <= 3) /\ j <= hi
    BY <1>1
  <2> QED BY <2>1
<1>6. ASSUME NEW i \in at, NEW j \in at, Cardinality(Upto(i)) = Cardinality(Upto(j)) PROVE i = j
  <2>1. ASSUME NEW a \in at, NEW b \in at, a < b
        PROVE  Upto(a) \subseteq Upto(b) /\ Upto(a) # Upto(b)
    <3>1. \A l \in at : l <= a => l <= b
      BY <1>1, <2>1
    <3>2. b <= b /\ ~(b <= a)
      BY <1>1, <2>1
    <3>3. b \in Upto(b) /\ b \notin Upto(a)
      BY <3>2
    <3> QED BY <3>1, <3>3
  <2>2. \A a \in at : a \in Nat /\ IsFiniteSet(Upto(a))
    BY <1>1, <1>2
  <2> HIDE DEF Upto
  <2>3. ASSUME NEW a \in at, NEW b \in at, a < b, Cardinality(Upto(a)) = Cardinality(Upto(b)) PROVE FALSE
    BY <2>1, <2>2, <2>3, FS_Subset
  <2>4. i < j \/ j < i \/ i = j
    BY <2>2
  <2> QED BY <1>6, <2>3, <2>4
<1>7. ASSUME NEW i \in at PROVE Place(at, Cardinality(Upto(i))) = i
  <2>1. \A j \in at : Cardinality({l \in at : l <= j}) = Cardinality(Upto(i)) => j = i
    BY <1>6
  <2>2. Cardinality({l \in at : l <= i}) = Cardinality(Upto(i))
    OBVIOUS
  <2> HIDE DEF Upto
  <2>3. (CHOOSE j \in at : Cardinality({l \in at : l <= j}) = Cardinality(Upto(i))) = i
    BY <2>1, <2>2
  <2> QED BY <2>3 DEF Place
<1>8. \A n : Count(at, n) = Cardinality(Upto(n))
  BY DEF Count
<1>9. Cardinality({}) = 0
  BY FS_EmptySet
<1> HIDE DEF Upto
<1>10. \A n \in Nat : Count(at, n) \in Nat
  BY <1>2, <1>8
<1>11. \A n \in Nat : /\ n + 1 \in at => Count(at, n + 1) = Count(at, n) + 1
                      /\ n + 1 \notin at => Count(at, n + 1) = Count(at, n)
  BY <1>3, <1>4, <1>8
<1>12. Count(at, 3) = 0 /\ Count(at, hi) = Cardinality(at)
  BY <1>5, <1>8, <1>9
<1>13. \A i \in at : Place(at, Count(at, i)) = i
  BY <1>7, <1>8
<1> QED BY <1>10, <1>11, <1>12, <1>13

(* The run that decides. *)
LEMMA RunIs ==
    ASSUME NEW frames, Len(frames) \in Nat, Len(frames) >= 3
    PROVE  /\ LongestRun(frames) \in 3..Len(frames)
           /\ \A i \in 4..LongestRun(frames) : InOrder(frames, i)
           /\ LongestRun(frames) < Len(frames) => ~InOrder(frames, LongestRun(frames) + 1)
<1> DEFINE S == {n \in 3..Len(frames) : \A i \in 4..n : InOrder(frames, i)}
           m == Max(S)
<1>1. S \in SUBSET Int /\ 3 \in S /\ \A v \in S : v <= Len(frames)
  OBVIOUS
<1>2. m \in S /\ \A v \in S : v <= m
  <2>1. S \in SUBSET Int /\ S # {} /\ Len(frames) \in Int /\ \A v \in S : v <= Len(frames)
    BY <1>1
  <2> HIDE DEF S
  <2> QED BY <2>1, GreatestExists
<1> HIDE DEF m
<1>3. m \in 3..Len(frames) /\ \A i \in 4..m : InOrder(frames, i)
  BY <1>2
<1>4. ASSUME m < Len(frames), InOrder(frames, m + 1) PROVE FALSE
  <2>1. m + 1 \in 3..Len(frames) /\ \A i \in 4..(m + 1) : i \in 4..m \/ i = m + 1
    BY <1>3, <1>4
  <2>2. m + 1 \in S
    BY <1>3, <1>4, <2>1
  <2> QED BY <1>2, <1>3, <2>2
<1>5. \E n \in 3..Len(frames) : /\ \A i \in 4..n : InOrder(frames, i)
                                /\ n < Len(frames) => ~InOrder(frames, n + 1)
  BY <1>3, <1>4
<1> QED BY <1>5 DEF LongestRun

----
(* A listener, and one with a field changed. *)
Listener(a, b, c, d, e) == [stage |-> a, expected |-> b, executed |-> c, guard |-> d, written |-> e]

LEMMA ListenerFields ==
    ASSUME NEW a, NEW b, NEW c, NEW d, NEW e
    PROVE  LET s == Listener(a, b, c, d, e)
           IN /\ s.stage = a /\ s.expected = b /\ s.executed = c /\ s.guard = d /\ s.written = e
              /\ \A x : [s EXCEPT !.stage = x] = Listener(x, b, c, d, e)
              /\ \A x : [s EXCEPT !.expected = x] = Listener(a, x, c, d, e)
              /\ \A x : [s EXCEPT !.executed = x] = Listener(a, b, x, d, e)
              /\ \A x : [s EXCEPT !.guard = x] = Listener(a, b, c, x, e)
              /\ \A x : [s EXCEPT !.written = x] = Listener(a, b, c, d, x)
BY DEF Listener

(* What was executed up to a frame, and what a listener is then. *)
Executed(frames, at, n) == [k \in 1..Count(at, n) |-> into_command(frames[Place(at, k)].payload)]

Reading(commands, n) == Listener("frames", n - 3, commands, Holds(commands), << >>)

LEMMA CommandIs ==
    ASSUME NEW p, into_command(p) # Err
    PROVE  /\ into_command(p).kind \in {"StartRemoteSession", "ForwardInput", "ReleaseAllInputs",
                                        "StopRemoteSession"}
           /\ into_command(p).kind = "ReleaseAllInputs" <=> into_command(p) = Released
<1> DEFINE c == into_command(p)
<1>1. \/ c = [kind |-> "StartRemoteSession", peer |-> p.peer, crossing |-> into_crossing(p.crossing)]
      \/ c = [kind |-> "ForwardInput", event |-> into_input_event(p.event)]
      \/ c = [kind |-> "ReleaseAllInputs"]
      \/ c = [kind |-> "StopRemoteSession", session |-> p.session]
  BY DEF into_command
<1> HIDE DEF c
<1>2. \/ c.kind = "StartRemoteSession" \/ c.kind = "ForwardInput" \/ c.kind = "StopRemoteSession"
      \/ c.kind = "ReleaseAllInputs" /\ c = [kind |-> "ReleaseAllInputs"]
  BY <1>1
<1>3. Released.kind = "ReleaseAllInputs" /\ Released = [kind |-> "ReleaseAllInputs"]
  BY DEF Released
<1> QED BY <1>2, <1>3 DEF c

LEMMA HoldsAppend ==
    ASSUME NEW T, NEW e \in Seq(T), NEW c \in T,
           c.kind \in {"StartRemoteSession", "ForwardInput", "ReleaseAllInputs", "StopRemoteSession"},
           c.kind = "ReleaseAllInputs" <=> c = Released
    PROVE  Holds(Append(e, c)) = Guarded(Holds(e), c)
<1> DEFINE a == Append(e, c)
           n == Len(e) + 1
<1>1. /\ DOMAIN e = 1..(n - 1) /\ DOMAIN a = 1..n /\ n \in Nat /\ n \in 1..n
      /\ \A i \in 1..(n - 1) : a[i] = e[i] /\ i \in 1..n /\ n > i /\ ~(i > n)
      /\ a[n] = c /\ ~(n > n)
      /\ \A i \in 1..n : i \in 1..(n - 1) \/ i = n
  OBVIOUS
<1> HIDE DEF a, n
<1>2. CASE c.kind \in {"StartRemoteSession", "ForwardInput"}
  <2>1. c # Released /\ IsHolding(c)
    BY <1>2 DEF IsHolding
  <2>2. \A j \in DOMAIN a : ~(j > n)
    BY <1>1
  <2>3. Holds(a)
    BY <1>1, <2>1, <2>2 DEF Holds
  <2>4. Guarded(Holds(e), c) = TRUE
    BY <1>2 DEF Guarded
  <2> QED BY <2>3, <2>4 DEF a, Holds
<1>3. CASE c.kind = "ReleaseAllInputs"
  <2>1. c = Released /\ ~IsHolding(c)
    BY <1>3 DEF IsHolding
  <2>2. ~Holds(a)
    BY <1>1, <2>1 DEF Holds
  <2>3. Guarded(Holds(e), c) = FALSE
    BY <1>3 DEF Guarded
  <2> QED BY <2>2, <2>3 DEF a, Holds
<1>4. CASE c.kind = "StopRemoteSession"
  <2>1. c # Released /\ ~IsHolding(c)
    BY <1>4 DEF IsHolding
  <2>2. Holds(a) => Holds(e)
    BY <1>1, <2>1 DEF Holds
  <2>3. Holds(e) => Holds(a)
    BY <1>1, <2>1 DEF Holds
  <2>4. Guarded(Holds(e), c) = Holds(e)
    BY <1>4 DEF Guarded
  <2>5. Holds(a) \in BOOLEAN /\ Holds(e) \in BOOLEAN
    BY DEF Holds
  <2> QED BY <2>2, <2>3, <2>4, <2>5 DEF a
<1> QED BY <1>2, <1>3, <1>4

(* A frame that is in order is taken, any other ends the session. *)
LEMMA TakesCommand ==
    ASSUME NEW frames, NEW e, NEW n \in Nat, n >= 3, InOrder(frames, n + 1), frames[n + 1].kind = "command",
           NEW c, c = into_command(frames[n + 1].payload),
           Holds(Append(e, c)) = Guarded(Holds(e), c)
    PROVE  TakesFrame(Reading(e, n), frames[n + 1]) = Reading(Append(e, c), n + 1)
<1> DEFINE s == Reading(e, n)
           f == frames[n + 1]
<1>1. /\ s.stage = "frames" /\ s.expected = n - 3 /\ s.executed = e /\ s.guard = Holds(e)
      /\ s = Listener("frames", n - 3, e, Holds(e), << >>)
  BY ListenerFields DEF Reading
<1>2. f.kind = "command" /\ f.sequence = n - 3 /\ c # Err /\ c = into_command(f.payload)
  BY DEF InOrder
<1>3. Numbered(s, f)
  BY <1>1, <1>2 DEF Numbered
<1> HIDE DEF s, f
<1>4. TakesFrame(s, f) = [s EXCEPT !.expected = @ + 1, !.executed = Append(@, c), !.guard = Guarded(@, c)]
  BY <1>1, <1>2, <1>3 DEF TakesFrame
<1>5. TakesFrame(s, f) = Listener("frames", (n - 3) + 1, Append(e, c), Guarded(Holds(e), c), << >>)
  <2> DEFINE x == (n - 3) + 1
             y == Append(e, c)
             z == Guarded(Holds(e), c)
  <2>1. s.expected + 1 = x /\ Append(s.executed, c) = y /\ Guarded(s.guard, c) = z
    BY <1>1
  <2> SUFFICES TakesFrame(s, f) = Listener("frames", x, y, z, << >>)
    OBVIOUS
  <2> HIDE DEF x, y, z
  <2>2. TakesFrame(s, f) = [s EXCEPT !.expected = x, !.executed = y, !.guard = z]
    BY <1>4, <2>1
  <2>3. [s EXCEPT !.expected = x] = Listener("frames", x, e, Holds(e), << >>)
    BY <1>1, ListenerFields
  <2>4. [Listener("frames", x, e, Holds(e), << >>) EXCEPT !.executed = y]
        = Listener("frames", x, y, Holds(e), << >>)
    BY ListenerFields
  <2>5. [Listener("frames", x, y, Holds(e), << >>) EXCEPT !.guard = z]
        = Listener("frames", x, y, z, << >>)
    BY ListenerFields
  <2> QED BY <2>2, <2>3, <2>4, <2>5
<1>6. (n - 3) + 1 = (n + 1) - 3
  OBVIOUS
<1> QED BY <1>5, <1>6 DEF Reading, s, f

LEMMA TakesHeartbeat ==
    ASSUME NEW frames, NEW e, NEW n \in Nat, n >= 3, InOrder(frames, n + 1), frames[n + 1].kind # "command"
    PROVE  TakesFrame(Reading(e, n), frames[n + 1]) = Reading(e, n + 1)
<1> DEFINE s == Reading(e, n)
           f == frames[n + 1]
<1>1. /\ s.stage = "frames" /\ s.expected = n - 3
      /\ s = Listener("frames", n - 3, e, Holds(e), << >>)
  BY ListenerFields DEF Reading
<1>2. f.kind = "heartbeat" /\ f.sequence = n - 3
  BY DEF InOrder
<1>3. Numbered(s, f)
  BY <1>1, <1>2 DEF Numbered
<1> HIDE DEF s, f
<1>4. TakesFrame(s, f) = [s EXCEPT !.expected = @ + 1]
  BY <1>1, <1>2, <1>3 DEF TakesFrame
<1>5. TakesFrame(s, f) = Listener("frames", (n - 3) + 1, e, Holds(e), << >>)
  BY <1>1, <1>4, ListenerFields
<1>6. (n - 3) + 1 = (n + 1) - 3
  OBVIOUS
<1> QED BY <1>5, <1>6 DEF Reading, s, f

LEMMA EndsOtherwise ==
    ASSUME NEW frames, NEW e, NEW n \in Nat, n >= 3, ~InOrder(frames, n + 1)
    PROVE  TakesFrame(Reading(e, n), frames[n + 1]) = Ended(Reading(e, n))
<1> DEFINE s == Reading(e, n)
           f == frames[n + 1]
<1>1. s.stage = "frames" /\ s.expected = n - 3
  BY ListenerFields DEF Reading
<1>2. Numbered(s, f) => f.kind = "command" /\ into_command(f.payload) = Err
  BY <1>1 DEF Numbered, InOrder
<1> HIDE DEF s, f
<1>3. TakesFrame(s, f) = Ended(s)
  BY <1>1, <1>2 DEF TakesFrame
<1> QED BY <1>3 DEF s, f

LEMMA ReadingEnds ==
    ASSUME NEW T, NEW e \in Seq(T), NEW n
    PROVE  Ended(Reading(e, n))
              = Listener("over", n - 3, e \o (IF Holds(e) THEN <<Released>> ELSE << >>), Holds(e), << >>)
<1> DEFINE s == Reading(e, n)
           x == e \o (IF Holds(e) THEN <<Released>> ELSE << >>)
<1>1. /\ s.stage = "frames" /\ s.executed = e /\ s.guard = Holds(e)
      /\ s = Listener("frames", n - 3, e, Holds(e), << >>)
  BY ListenerFields DEF Reading
<1>2. e \o << >> = e /\ e \o <<Released>> = Append(e, Released)
  OBVIOUS
<1>3. (IF s.stage = "frames" /\ s.guard THEN Append(s.executed, Released) ELSE s.executed) = x
  BY <1>1, <1>2
<1> HIDE DEF s, x
<1>4. Ended(s) = [s EXCEPT !.stage = "over", !.executed = x]
  BY <1>3 DEF Ended
<1>5. Ended(s) = Listener("over", n - 3, x, Holds(e), << >>)
  <2>1. [s EXCEPT !.stage = "over"] = Listener("over", n - 3, e, Holds(e), << >>)
    BY <1>1, ListenerFields
  <2>2. [Listener("over", n - 3, e, Holds(e), << >>) EXCEPT !.executed = x]
        = Listener("over", n - 3, x, Holds(e), << >>)
    BY ListenerFields
  <2> QED BY <1>4, <2>1, <2>2
<1> QED BY <1>5 DEF s, x

(* An ended session stays as it is. *)
LEMMA OverStays ==
    ASSUME NEW s, s.stage = "over"
    PROVE  \A f : TakesFrame(s, f) = s
BY DEF TakesFrame, Numbered

LEMMA EndsOnce ==
    ASSUME NEW a, a # "frames", NEW b, NEW c, NEW d, NEW e
    PROVE  Ended(Listener(a, b, c, d, e)) = Listener("over", b, c, d, e)
<1> DEFINE s == Listener(a, b, c, d, e)
<1>1. s.stage = a /\ s.executed = c
  BY ListenerFields
<1>2. (IF s.stage = "frames" /\ s.guard THEN Append(s.executed, Released) ELSE s.executed) = c
  BY <1>1
<1> HIDE DEF s
<1>3. Ended(s) = [s EXCEPT !.stage = "over", !.executed = c]
  BY <1>2 DEF Ended
<1>4. [s EXCEPT !.stage = "over"] = Listener("over", b, c, d, e)
  BY ListenerFields DEF s
<1>5. [Listener("over", b, c, d, e) EXCEPT !.executed = c] = Listener("over", b, c, d, e)
  BY ListenerFields
<1> QED BY <1>3, <1>4, <1>5 DEF s

LEMMA ExecutedGrows ==
    ASSUME NEW frames, NEW hi \in Nat, NEW at \in SUBSET (4..hi), NEW n \in Nat
    PROVE  /\ n + 1 \notin at => Executed(frames, at, n + 1) = Executed(frames, at, n)
           /\ n + 1 \in at => Executed(frames, at, n + 1)
                                 = Append(Executed(frames, at, n), into_command(frames[n + 1].payload))
<1> DEFINE c(k) == into_command(frames[Place(at, k)].payload)
           m == Count(at, n)
<1>1. m \in Nat /\ Executed(frames, at, n) = [k \in 1..m |-> c(k)]
  BY Counts DEF Executed
<1>3. ASSUME n + 1 \notin at PROVE Executed(frames, at, n + 1) = Executed(frames, at, n)
  <2>1. Count(at, n + 1) = m
    BY <1>3, Counts
  <2> QED BY <2>1 DEF Executed
<1>4. ASSUME n + 1 \in at
      PROVE  Executed(frames, at, n + 1)
                = Append(Executed(frames, at, n), into_command(frames[n + 1].payload))
  <2>1. Count(at, n + 1) = m + 1
    BY <1>4, Counts
  <2>2. Place(at, m + 1) = n + 1
    <3>1. Place(at, Count(at, n + 1)) = n + 1
      BY <1>4, Counts
    <3> QED BY <2>1, <3>1
  <2>3. into_command(frames[n + 1].payload) = c(m + 1)
    BY <2>2
  <2>4. Executed(frames, at, n + 1) = [k \in 1..(m + 1) |-> c(k)]
    BY <2>1 DEF Executed
  <2> HIDE DEF c, m
  <2>5. [k \in 1..(m + 1) |-> c(k)] = Append([k \in 1..m |-> c(k)], c(m + 1))
    BY <1>1
  <2> QED BY <1>1, <2>3, <2>4, <2>5
<1> QED BY <1>3, <1>4

LEMMA StaysOver ==
    ASSUME NEW frames, Len(frames) \in Nat, NEW after,
           \A n \in 1..Len(frames) : after[n] = TakesFrame(after[n - 1], frames[n]),
           NEW m \in 0..Len(frames), after[m].stage = "over"
    PROVE  after[Len(frames)] = after[m]
<1> DEFINE S == {n \in Nat : after[n] = after[m]}
           L == Len(frames)
<1>1. \A n \in m..L : n \in S /\ n < L => n + 1 \in S
  <2> SUFFICES ASSUME NEW n \in m..L, after[n] = after[m], n < L PROVE after[n + 1] = after[m]
    OBVIOUS
  <2>1. n + 1 \in 1..Len(frames) /\ (n + 1) - 1 = n
    OBVIOUS
  <2>2. after[n + 1] = TakesFrame(after[n], frames[n + 1])
    BY <2>1
  <2> QED BY <2>2, OverStays
<1>2. m \in S /\ m \in Nat /\ L \in Nat /\ L \in m..L
  OBVIOUS
<1> HIDE DEF S
<1>3. L \in S
  <2> HIDE DEF L
  <2> QED BY <1>1, <1>2, Upward
<1> QED BY <1>3 DEF S

(* A listener in the prelude, and after one that came to nothing. *)
Unguarded == FALSE
Waiting(st) == Listener(st, 0, << >>, Unguarded, << >>)
Over(written) == Listener("over", 0, << >>, Unguarded, written)

LEMMA WaitingIs ==
    /\ \A st : Waiting(st).stage = st
    /\ \A st, x : [Waiting(st) EXCEPT !.stage = x] = Waiting(x)
    /\ \A st : st # "frames" => Ended(Waiting(st)) = Waiting("over")
    /\ \A x : [Waiting("over") EXCEPT !.written = x] = Over(x)
    /\ Over(<< >>) = Waiting("over")
    /\ \A x : Over(x).stage = "over" /\ Over(x).executed = << >> /\ Over(x).written = x
    /\ \A x : Ended(Over(x)) = Over(x)
<1>1. \A st : Waiting(st).stage = st
  BY ListenerFields DEF Waiting
<1>2. \A st, x : [Waiting(st) EXCEPT !.stage = x] = Waiting(x)
  BY ListenerFields DEF Waiting
<1>3. \A x : [Waiting("over") EXCEPT !.written = x] = Over(x)
  BY ListenerFields DEF Waiting, Over
<1>4. Over(<< >>) = Waiting("over")
  BY DEF Waiting, Over
<1>5. \A x : Over(x).stage = "over" /\ Over(x).executed = << >> /\ Over(x).written = x
  BY ListenerFields DEF Over
<1>6. \A st : st # "frames" => Ended(Waiting(st)) = Waiting("over")
  BY EndsOnce DEF Waiting
<1>7. \A x : Ended(Over(x)) = Over(x)
  BY EndsOnce DEF Over
<1> QED BY <1>1, <1>2, <1>3, <1>4, <1>5, <1>6, <1>7

LEMMA TakesPrelude ==
    /\ TakesFrame(Waiting("hello"), Checked("hello", TRUE))
          = Waiting("authProof")
    /\ TakesFrame(Waiting("authProof"), Checked("authProof", TRUE))
          = Waiting("sessionReady")
    /\ TakesFrame(Waiting("sessionReady"), Checked("sessionReady", TRUE))
          = Waiting("frames")
<1>1. ASSUME NEW st \in {"hello", "authProof", "sessionReady"}
      PROVE  TakesFrame(Waiting(st), Checked(st, TRUE))
                = Waiting(CASE st = "hello" -> "authProof" [] st = "authProof" -> "sessionReady"
                            [] OTHER -> "frames")
  <2> DEFINE s == Waiting(st)
             f == Checked(st, TRUE)
             next == CASE st = "hello" -> "authProof" [] st = "authProof" -> "sessionReady"
                       [] OTHER -> "frames"
  <2>1. s.stage = st /\ f.kind = st /\ f.good = TRUE
    BY WaitingIs DEF Checked
  <2>2. TakesFrame(s, f) = [s EXCEPT !.stage = next]
    <3> HIDE DEF s, f
    <3> QED BY <2>1 DEF TakesFrame, Numbered
  <2> HIDE DEF next
  <2>3. [s EXCEPT !.stage = next] = Waiting(next)
    BY WaitingIs
  <2> QED BY <2>2, <2>3 DEF next
<1> QED BY <1>1

LEMMA TurnsAway ==
    ASSUME NEW st \in {"hello", "authProof", "sessionReady"}, NEW f, IsFrame(f), f # Checked(st, TRUE)
    PROVE  TakesFrame(Waiting(st), f)
              = Over(IF st = "hello" /\ f = Checked("identityProbe", TRUE)
                     THEN <<Checked("identityDocument", TRUE)>> ELSE << >>)
<1> DEFINE s == Waiting(st)
           doc == <<Checked("identityDocument", TRUE)>>
<1>1. s.stage = st
  BY WaitingIs
<1>2. ~(f.kind = st /\ f.good)
  <2> SUFFICES ASSUME f.kind = st, f.good PROVE FALSE
    OBVIOUS
  <2>1. f = Checked(f.kind, f.good) /\ f.good \in BOOLEAN
    BY DEF IsFrame
  <2>2. f.good = TRUE
    BY <2>1
  <2> QED BY <2>1, <2>2
<1>3. f.kind = "identityProbe" /\ f.good <=> f = Checked("identityProbe", TRUE)
  <2>1. ASSUME f.kind = "identityProbe", f.good PROVE f = Checked("identityProbe", TRUE)
    <3>1. f = Checked(f.kind, f.good) /\ f.good \in BOOLEAN
      BY <2>1 DEF IsFrame
    <3>2. f.good = TRUE
      BY <2>1, <3>1
    <3> QED BY <2>1, <3>1, <3>2
  <2>2. ASSUME f = Checked("identityProbe", TRUE) PROVE f.kind = "identityProbe" /\ f.good
    BY <2>2 DEF Checked
  <2> QED BY <2>1, <2>2
<1>4. CASE st = "hello" /\ f = Checked("identityProbe", TRUE)
  <2>1. TakesFrame(s, f) = [s EXCEPT !.stage = "over", !.written = doc]
    <3> HIDE DEF s, doc
    <3>1. f.kind = "identityProbe" /\ f.good
      BY <1>3, <1>4
    <3> QED BY <1>1, <1>2, <1>4, <3>1 DEF TakesFrame, Numbered, doc
  <2> HIDE DEF doc
  <2>2. [s EXCEPT !.stage = "over"] = Waiting("over")
    BY WaitingIs
  <2>3. [Waiting("over") EXCEPT !.written = doc]
        = Over(doc)
    BY WaitingIs
  <2>4. TakesFrame(s, f) = Over(doc)
    BY <2>1, <2>2, <2>3
  <2> QED BY <1>4, <2>4 DEF doc
<1>5. CASE ~(st = "hello" /\ f = Checked("identityProbe", TRUE))
  <2>1. TakesFrame(s, f) = Ended(s)
    <3> HIDE DEF s
    <3>1. ~(st = "hello" /\ f.kind = "identityProbe" /\ f.good)
      BY <1>3, <1>5
    <3> QED BY <1>1, <1>2, <3>1 DEF TakesFrame, Numbered
  <2>2. Ended(s) = Waiting("over")
    BY WaitingIs
  <2> QED BY <1>5, <2>1, <2>2, WaitingIs
<1> QED BY <1>4, <1>5

LEMMA ReadsRun ==
    ASSUME NEW frames, Len(frames) \in Nat, Authentic(frames), NEW after,
           after[0] = ListenerStart,
           \A n \in 1..Len(frames) : after[n] = TakesFrame(after[n - 1], frames[n])
    PROVE  \A n \in 3..LongestRun(frames) :
              after[n] = Reading(Executed(frames, CommandsAt(frames), n), n)
<1> DEFINE L == LongestRun(frames)
           at == CommandsAt(frames)
           S == {n \in Nat : after[n] = Reading(Executed(frames, at, n), n)}
<1>1. /\ Len(frames) >= 3 /\ frames[1] = Checked("hello", TRUE) /\ frames[2] = Checked("authProof", TRUE)
      /\ frames[3] = Checked("sessionReady", TRUE)
  <2>1. Len(frames) >= 3 /\ \A i \in 1..3 : frames[i] = PreludeFrames[i]
    BY DEF Authentic
  <2>2. 1 \in 1..3 /\ 2 \in 1..3 /\ 3 \in 1..3
    OBVIOUS
  <2>3. /\ PreludeFrames[1] = Checked("hello", TRUE) /\ PreludeFrames[2] = Checked("authProof", TRUE)
        /\ PreludeFrames[3] = Checked("sessionReady", TRUE)
    BY DEF PreludeFrames
  <2> QED BY <2>1, <2>2, <2>3
<1>2. L \in 3..Len(frames) /\ \A i \in 4..L : InOrder(frames, i)
  BY <1>1, RunIs
<1>3. L \in Nat /\ at \in SUBSET (4..L)
  BY <1>2 DEF CommandsAt
<1>4. after[3] = Waiting("frames")
  <2>1. 1 \in 1..Len(frames) /\ 2 \in 1..Len(frames) /\ 3 \in 1..Len(frames)
    BY <1>1
  <2>2. /\ after[1] = TakesFrame(after[0], frames[1]) /\ after[2] = TakesFrame(after[1], frames[2])
        /\ after[3] = TakesFrame(after[2], frames[3])
    BY <2>1
  <2>3. after[0] = Waiting("hello")
    BY DEF ListenerStart, Waiting, Listener, Unguarded
  <2> QED BY <1>1, <2>2, <2>3, TakesPrelude
<1>5. 3 \in S
  <2>1. Executed(frames, at, 3) = << >>
    BY <1>3, Counts DEF Executed
  <2>2. Holds(<< >>) = Unguarded
    BY DEF Holds, Unguarded
  <2>3. 3 - 3 = 0
    OBVIOUS
  <2>4. Reading(<< >>, 3) = Waiting("frames")
    BY <2>2, <2>3 DEF Reading, Waiting
  <2> QED BY <1>4, <2>1, <2>4
<1>6. ASSUME NEW n \in 3..L, n \in S, n < L PROVE n + 1 \in S
  <2> DEFINE e == Executed(frames, at, n)
             c == into_command(frames[n + 1].payload)
             U == {e[i] : i \in DOMAIN e} \cup {c}
  <2>1. after[n] = Reading(e, n) /\ n \in Nat /\ n >= 3
    BY <1>6
  <2>2. n + 1 \in 1..Len(frames) /\ (n + 1) - 1 = n /\ n + 1 \in 4..L
    BY <1>2, <1>6
  <2>3. after[n + 1] = TakesFrame(Reading(e, n), frames[n + 1])
    BY <2>1, <2>2
  <2>4. InOrder(frames, n + 1)
    BY <1>2, <2>2
  <2>5. n + 1 \in at <=> frames[n + 1].kind = "command"
    BY <2>2 DEF CommandsAt
  <2>6. CASE frames[n + 1].kind # "command"
    <3>1. after[n + 1] = Reading(e, n + 1)
      BY <2>1, <2>3, <2>4, <2>6, TakesHeartbeat
    <3>2. Count(at, n + 1) = Count(at, n)
      BY <1>3, <2>1, <2>5, <2>6, Counts
    <3>3. Executed(frames, at, n + 1) = e
      BY <3>2 DEF Executed
    <3> QED BY <2>1, <3>1, <3>3
  <2>7. CASE frames[n + 1].kind = "command"
    <3>1. c # Err
      BY <2>4, <2>7 DEF InOrder
    <3>2. e \in Seq(U) /\ c \in U
      <4>1. Count(at, n) \in Nat
        BY <1>3, <2>1, Counts
      <4> QED BY <4>1 DEF Executed
    <3>3. /\ c.kind \in {"StartRemoteSession", "ForwardInput", "ReleaseAllInputs", "StopRemoteSession"}
          /\ c.kind = "ReleaseAllInputs" <=> c = Released
      BY <3>1, CommandIs
    <3>4. Holds(Append(e, c)) = Guarded(Holds(e), c)
      <4> HIDE DEF e, c, U
      <4> QED BY <3>2, <3>3, HoldsAppend
    <3>5. after[n + 1] = Reading(Append(e, c), n + 1)
      BY <2>1, <2>3, <2>4, <2>7, <3>4, TakesCommand
    <3>6. Executed(frames, at, n + 1) = Append(e, c)
      BY <1>3, <2>1, <2>5, <2>7, ExecutedGrows
    <3>7. after[n + 1] = Reading(Executed(frames, at, n + 1), n + 1)
      BY <3>5, <3>6
    <3> QED BY <2>1, <3>7
  <2> QED BY <2>6, <2>7
<1> HIDE DEF S
<1>7. \A n \in 3..L : n \in S
  <2>1. \A n \in 3..L : n \in S /\ n < L => n + 1 \in S
    BY <1>6
  <2>2. 3 \in Nat /\ L \in Nat
    BY <1>3
  <2> HIDE DEF L
  <2> QED BY <1>5, <2>1, <2>2, Upward
<1> QED BY <1>7 DEF S

LEMMA ReadsAuthentic ==
    ASSUME NEW frames, Len(frames) \in Nat, Authentic(frames)
    PROVE  LET should == ShouldExecute(frames)
               read == ListenerReads(frames)
           IN /\ read.executed = should \o (IF Holds(should) THEN <<Released>> ELSE << >>)
              /\ read.written = << >>
<1> DEFINE L == LongestRun(frames)
           at == CommandsAt(frames)
           e == Executed(frames, at, L)
           T == {e[i] : i \in DOMAIN e}
           x == e \o (IF Holds(e) THEN <<Released>> ELSE << >>)
<1>1. PICK after : /\ after[0] = ListenerStart
                   /\ \A n \in 1..Len(frames) : after[n] = TakesFrame(after[n - 1], frames[n])
                   /\ AfterFrames(frames) = after[Len(frames)]
  BY States
<1>2. Len(frames) >= 3
  BY DEF Authentic
<1>3. L \in 3..Len(frames) /\ (L < Len(frames) => ~InOrder(frames, L + 1))
  BY <1>2, RunIs
<1>4. L \in Nat /\ at \in SUBSET (4..L)
  BY <1>3 DEF CommandsAt
<1>5. after[L] = Reading(e, L)
  BY <1>1, <1>3, ReadsRun
<1>6. ShouldExecute(frames) = e
  <2>1. Count(at, L) = Cardinality(at)
    BY <1>4, Counts
  <2> QED BY <2>1 DEF ShouldExecute, Executed
<1>7. e \in Seq(T)
  <2>1. Count(at, L) \in Nat
    BY <1>4, Counts
  <2> QED BY <2>1 DEF Executed
<1> HIDE DEF e, at, T
<1>8. Ended(Reading(e, L)) = Listener("over", L - 3, x, Holds(e), << >>)
  BY <1>7, ReadingEnds
<1>9. Ended(Listener("over", L - 3, x, Holds(e), << >>)) = Listener("over", L - 3, x, Holds(e), << >>)
  BY EndsOnce
<1> HIDE DEF x
<1>10. ListenerReads(frames) = Listener("over", L - 3, x, Holds(e), << >>)
  <2>1. CASE L = Len(frames)
    BY <1>1, <1>5, <1>8, <2>1 DEF ListenerReads
  <2>2. CASE L < Len(frames)
    <3>1. L + 1 \in 1..Len(frames) /\ L + 1 \in 0..Len(frames) /\ (L + 1) - 1 = L /\ L >= 3
      BY <1>3, <1>4, <2>2
    <3>2. after[L + 1] = TakesFrame(Reading(e, L), frames[L + 1])
      BY <1>1, <1>5, <3>1
    <3>3. after[L + 1] = Listener("over", L - 3, x, Holds(e), << >>)
      BY <1>3, <1>4, <1>8, <2>2, <3>1, <3>2, EndsOtherwise
    <3>4. after[L + 1].stage = "over"
      BY <3>3, ListenerFields
    <3>5. after[Len(frames)] = after[L + 1]
      BY <1>1, <3>1, <3>4, StaysOver
    <3> QED BY <1>1, <1>9, <3>3, <3>5 DEF ListenerReads
  <2> QED BY <1>3, <2>1, <2>2
<1>11. ListenerReads(frames).executed = x /\ ListenerReads(frames).written = << >>
  BY <1>10, ListenerFields
<1> QED BY <1>6, <1>11 DEF x

LEMMA ReadsOther ==
    ASSUME NEW frames, Len(frames) \in Nat, ~Authentic(frames), \A i \in 1..Len(frames) : IsFrame(frames[i])
    PROVE  ListenerReads(frames)
              = Over(IF Len(frames) >= 1 /\ frames[1] = Checked("identityProbe", TRUE)
                     THEN <<Checked("identityDocument", TRUE)>> ELSE << >>)
<1> DEFINE L == Len(frames)
           w == IF L >= 1 /\ frames[1] = Checked("identityProbe", TRUE)
                THEN <<Checked("identityDocument", TRUE)>> ELSE << >>
<1>1. PICK after : /\ after[0] = ListenerStart
                   /\ \A n \in 1..L : after[n] = TakesFrame(after[n - 1], frames[n])
                   /\ AfterFrames(frames) = after[L]
  BY States
<1>2. after[0] = Waiting("hello")
  BY <1>1 DEF ListenerStart, Waiting, Listener, Unguarded
<1>3. /\ L >= 1 => after[1] = TakesFrame(after[0], frames[1]) /\ IsFrame(frames[1])
      /\ L >= 2 => after[2] = TakesFrame(after[1], frames[2]) /\ IsFrame(frames[2])
      /\ L >= 3 => after[3] = TakesFrame(after[2], frames[3]) /\ IsFrame(frames[3])
  <2>1. \A n \in 1..3 : L >= n => n \in 1..L /\ after[n] = TakesFrame(after[n - 1], frames[n])
    BY <1>1
  <2>2. 1 - 1 = 0 /\ 2 - 1 = 1 /\ 3 - 1 = 2
    OBVIOUS
  <2> QED BY <2>1, <2>2
<1>4. Checked("hello", TRUE) # Checked("identityProbe", TRUE)
  BY DEF Checked
<1>0. SUFFICES ListenerReads(frames) = Over(w)
  OBVIOUS
<1> HIDE DEF w
<1>5. ASSUME NEW st, st # "frames", after[L] = Waiting(st), w = << >> PROVE ListenerReads(frames) = Over(w)
  <2>1. Ended(Waiting(st)) = Over(<< >>)
    BY <1>5, WaitingIs
  <2>2. ListenerReads(frames) = Ended(Waiting(st))
    BY <1>1, <1>5 DEF ListenerReads
  <2> QED BY <1>5, <2>1, <2>2
<1>6. ASSUME NEW m \in 0..L, after[m] = Over(w) PROVE ListenerReads(frames) = Over(w)
  <2>1. after[m].stage = "over"
    BY <1>6, WaitingIs
  <2>2. after[L] = after[m]
    BY <1>1, <2>1, StaysOver
  <2>3. ListenerReads(frames) = Ended(Over(w))
    BY <1>1, <1>6, <2>2 DEF ListenerReads
  <2> QED BY <2>3, WaitingIs
<1>7. CASE L = 0
  <2>1. after[L] = Waiting("hello") /\ w = << >>
    BY <1>2, <1>7 DEF w
  <2> QED BY <1>5, <2>1
<1>8. CASE L >= 1 /\ frames[1] # Checked("hello", TRUE)
  <2>1. after[1] = Over(w)
    BY <1>2, <1>3, <1>8, TurnsAway DEF w
  <2>2. 1 \in 0..L
    BY <1>8
  <2> QED BY <1>6, <2>1, <2>2
<1>9. CASE L >= 1 /\ frames[1] = Checked("hello", TRUE)
  <2>1. w = << >>
    BY <1>4, <1>9 DEF w
  <2>2. after[1] = Waiting("authProof")
    BY <1>2, <1>3, <1>9, TakesPrelude
  <2>3. CASE L = 1
    BY <1>5, <2>1, <2>2, <2>3
  <2>4. CASE L >= 2 /\ frames[2] # Checked("authProof", TRUE)
    <3>1. after[2] = Over(w)
      BY <1>3, <2>1, <2>2, <2>4, TurnsAway
    <3>2. 2 \in 0..L
      BY <2>4
    <3> QED BY <1>6, <3>1, <3>2
  <2>5. CASE L >= 2 /\ frames[2] = Checked("authProof", TRUE)
    <3>1. after[2] = Waiting("sessionReady")
      BY <1>3, <2>2, <2>5, TakesPrelude
    <3>2. CASE L = 2
      BY <1>5, <2>1, <3>1, <3>2
    <3>3. CASE L >= 3
      <4>1. frames[3] # Checked("sessionReady", TRUE)
        <5>1. /\ PreludeFrames[1] = Checked("hello", TRUE) /\ PreludeFrames[2] = Checked("authProof", TRUE)
              /\ PreludeFrames[3] = Checked("sessionReady", TRUE)
          BY DEF PreludeFrames
        <5>2. PICK i \in 1..3 : frames[i] # PreludeFrames[i]
          BY <3>3 DEF Authentic
        <5>3. i = 1 \/ i = 2 \/ i = 3
          OBVIOUS
        <5> QED BY <1>9, <2>5, <5>1, <5>2, <5>3
      <4>2. after[3] = Over(w)
        BY <1>3, <2>1, <3>1, <3>3, <4>1, TurnsAway
      <4>3. 3 \in 0..L
        BY <3>3
      <4> QED BY <1>6, <4>2, <4>3
    <3>4. L = 2 \/ L >= 3
      BY <2>5
    <3> QED BY <3>2, <3>3, <3>4
  <2>6. L = 1 \/ L >= 2
    BY <1>9
  <2> QED BY <2>3, <2>4, <2>5, <2>6
<1>10. L = 0 \/ L >= 1
  OBVIOUS
<1> QED BY <1>7, <1>8, <1>9, <1>10

LEMMA ReadsAsMeant ==
    ASSUME NEW T, NEW frames \in Seq(T), \A i \in DOMAIN frames : IsFrame(frames[i])
    PROVE  LET read == ListenerReads(frames)
               should == ShouldExecute(frames)
           IN /\ read.executed = should \o (IF Holds(should) THEN <<Released>> ELSE << >>)
              /\ ProberTakes(read.written) <=> frames # << >> /\ frames[1] = Checked("identityProbe", TRUE)
<1>1. /\ Len(frames) \in Nat /\ DOMAIN frames = 1..Len(frames)
      /\ frames # << >> <=> Len(frames) >= 1
  OBVIOUS
<1>2. ~ProberTakes(<< >>)
  BY DEF ProberTakes
<1>3. CASE Authentic(frames)
  <2>1. frames[1] = Checked("hello", TRUE)
    <3>1. 1 \in 1..3 /\ \A i \in 1..3 : frames[i] = PreludeFrames[i]
      BY <1>3 DEF Authentic
    <3>2. PreludeFrames[1] = Checked("hello", TRUE)
      BY DEF PreludeFrames
    <3> QED BY <3>1, <3>2
  <2>2. frames[1] # Checked("identityProbe", TRUE)
    BY <2>1 DEF Checked
  <2> QED BY <1>1, <1>2, <1>3, <2>2, ReadsAuthentic
<1>4. CASE ~Authentic(frames)
  <2> DEFINE w == IF Len(frames) >= 1 /\ frames[1] = Checked("identityProbe", TRUE)
                  THEN <<Checked("identityDocument", TRUE)>> ELSE << >>
  <2>1. ListenerReads(frames) = Over(w)
    BY <1>1, <1>4, ReadsOther
  <2>2. ProberTakes(w) <=> Len(frames) >= 1 /\ frames[1] = Checked("identityProbe", TRUE)
    BY DEF ProberTakes, Checked
  <2> HIDE DEF w
  <2>3. ListenerReads(frames).executed = << >> /\ ListenerReads(frames).written = w
    BY <2>1, WaitingIs
  <2>4. ShouldExecute(frames) = << >> /\ ~Holds(<< >>)
    BY <1>4 DEF ShouldExecute, Holds
  <2>5. << >> \o << >> = << >>
    OBVIOUS
  <2> QED BY <1>1, <2>2, <2>3, <2>4, <2>5
<1> QED BY <1>3, <1>4

(* A session of a command, a heartbeat and a command: both are executed, in
   this order, and nothing before or between them. *)
LEMMA SessionReads ==
    ASSUME NEW c, NEW d, c # Err, d # Err,
           into_command(CommandPayload(c)) = c, into_command(CommandPayload(d)) = d
    PROVE  SubSeq(ListenerReads(SessionFrames(<<c, Err, d>>)).executed, 1, 2) = <<c, d>>
<1> DEFINE f == SessionFrames(<<c, Err, d>>)
           should == ShouldExecute(f)
           at == CommandsAt(f)
<1>1. /\ Len(f) = 6 /\ \A i \in 1..3 : f[i] = PreludeFrames[i]
      /\ f[4] = CommandFrame(0, c) /\ f[5] = HeartbeatFrame(1) /\ f[6] = CommandFrame(2, d)
  <2> DEFINE items == <<c, Err, d>>
             g == [i \in DOMAIN items |-> IF items[i] = Err THEN HeartbeatFrame(i - 1)
                                                            ELSE CommandFrame(i - 1, items[i])]
             T == {g[i] : i \in 1..3} \cup {PreludeFrames[i] : i \in 1..3}
  <2>1. DOMAIN items = 1..3 /\ items[1] = c /\ items[2] = Err /\ items[3] = d
    OBVIOUS
  <2>2. 1 - 1 = 0 /\ 2 - 1 = 1 /\ 3 - 1 = 2
    OBVIOUS
  <2>3. f = PreludeFrames \o g
    BY DEF SessionFrames
  <2> HIDE DEF items, f
  <2>4. DOMAIN g = 1..3 /\ g[1] = CommandFrame(0, c) /\ g[2] = HeartbeatFrame(1) /\ g[3] = CommandFrame(2, d)
    BY <2>1, <2>2
  <2>5. g \in Seq(T) /\ Len(g) = 3
    <3>1. g = [i \in 1..3 |-> g[i]]
      BY <2>4
    <3> HIDE DEF g
    <3>2. \A i \in 1..3 : g[i] \in T
      OBVIOUS
    <3> HIDE DEF T
    <3> QED BY <3>1, <3>2
  <2>6. PreludeFrames \in Seq(T) /\ Len(PreludeFrames) = 3
    <3>1. /\ PreludeFrames = [i \in 1..3 |-> PreludeFrames[i]] /\ Len(PreludeFrames) = 3
      BY DEF PreludeFrames
    <3> HIDE DEF g
    <3>2. \A i \in 1..3 : PreludeFrames[i] \in T
      OBVIOUS
    <3> HIDE DEF T
    <3> QED BY <3>1, <3>2
  <2> HIDE DEF g, T
  <2>7. /\ Len(f) = 3 + 3 /\ \A i \in 1..3 : f[i] = PreludeFrames[i]
        /\ \A i \in 1..3 : f[3 + i] = g[i]
    <3>1. /\ Len(PreludeFrames \o g) = Len(PreludeFrames) + Len(g)
          /\ \A i \in 1..Len(PreludeFrames) : (PreludeFrames \o g)[i] = PreludeFrames[i]
          /\ \A i \in 1..Len(g) : (PreludeFrames \o g)[Len(PreludeFrames) + i] = g[i]
      <4>1. PreludeFrames \in Seq(T) /\ g \in Seq(T)
        BY <2>5, <2>6
      <4> QED BY <4>1, Joined
    <3>2. /\ Len(f) = Len(PreludeFrames) + Len(g)
          /\ \A i \in 1..Len(PreludeFrames) : f[i] = PreludeFrames[i]
          /\ \A i \in 1..Len(g) : f[Len(PreludeFrames) + i] = g[i]
      BY <2>3, <3>1, Zenon
    <3>3. Len(PreludeFrames) = 3 /\ Len(g) = 3
      BY <2>5, <2>6
    <3> QED BY <3>2, <3>3
  <2>8. 1 \in 1..3 /\ 2 \in 1..3 /\ 3 \in 1..3 /\ 3 + 1 = 4 /\ 3 + 2 = 5 /\ 3 + 3 = 6
    OBVIOUS
  <2> QED BY <2>4, <2>7, <2>8
<1> HIDE DEF f
<1>2. Authentic(f) /\ Len(f) \in Nat
  BY <1>1 DEF Authentic
<1>3. /\ f[4].kind = "command" /\ f[4].sequence = 0 /\ into_command(f[4].payload) = c
      /\ f[5].kind = "heartbeat" /\ f[5].sequence = 1
      /\ f[6].kind = "command" /\ f[6].sequence = 2 /\ into_command(f[6].payload) = d
  <2>1. \A n, x : /\ CommandFrame(n, x).kind = "command" /\ CommandFrame(n, x).sequence = n
                 /\ CommandFrame(n, x).payload = CommandPayload(x)
                 /\ HeartbeatFrame(n).kind = "heartbeat" /\ HeartbeatFrame(n).sequence = n
    BY DEF CommandFrame, HeartbeatFrame
  <2> QED BY <1>1, <2>1
<1>4. InOrder(f, 4) /\ InOrder(f, 5) /\ InOrder(f, 6)
  <2>1. 4 - 4 = 0 /\ 5 - 4 = 1 /\ 6 - 4 = 2
    OBVIOUS
  <2> QED BY <1>3, <2>1 DEF InOrder
<1>5. LongestRun(f) = 6
  <2>1. LongestRun(f) \in 3..6 /\ (LongestRun(f) < 6 => ~InOrder(f, LongestRun(f) + 1))
    <3>1. Len(f) \in Nat /\ Len(f) >= 3
      BY <1>1
    <3> QED BY <1>1, <3>1, RunIs
  <2>2. \A n \in 3..6 : n < 6 => n = 3 \/ n = 4 \/ n = 5
    OBVIOUS
  <2> QED BY <1>4, <2>1, <2>2
<1>6. at = {4, 6}
  <2>1. 4..6 = {4, 5, 6}
    OBVIOUS
  <2>2. at = {i \in {4, 5, 6} : f[i].kind = "command"}
    BY <1>5, <2>1 DEF CommandsAt
  <2> QED BY <1>3, <2>2
<1> HIDE DEF at
<1>7. Cardinality(at) = 2 /\ Place(at, 1) = 4 /\ Place(at, 2) = 6
  <2>1. at \in SUBSET (4..6) /\ 6 \in Nat
    BY <1>6
  <2>2. /\ 3 + 1 \in at /\ 4 + 1 \notin at /\ 5 + 1 \in at /\ 3 + 1 = 4 /\ 4 + 1 = 5 /\ 5 + 1 = 6
        /\ 0 + 1 = 1 /\ 1 + 1 = 2
    BY <1>6
  <2>3. /\ \A n \in Nat : /\ n + 1 \in at => Count(at, n + 1) = Count(at, n) + 1
                          /\ n + 1 \notin at => Count(at, n + 1) = Count(at, n)
        /\ Count(at, 3) = 0 /\ Count(at, 6) = Cardinality(at)
        /\ \A i \in at : Place(at, Count(at, i)) = i
    BY <2>1, Counts
  <2>4. Count(at, 4) = 1
    BY <2>2, <2>3
  <2>5. Count(at, 5) = 1
    BY <2>2, <2>3, <2>4
  <2>6. Count(at, 6) = 2
    BY <2>2, <2>3, <2>5
  <2> QED BY <1>6, <2>3, <2>4, <2>6
<1>8. should = <<c, d>>
  <2>1. should = [k \in 1..2 |-> into_command(f[Place(at, k)].payload)]
    BY <1>2, <1>7 DEF ShouldExecute, at
  <2>2. 1..2 = {1, 2}
    OBVIOUS
  <2> DEFINE g == [k \in 1..2 |-> into_command(f[Place(at, k)].payload)]
  <2>3. g[1] = c /\ g[2] = d
    BY <1>3, <1>7
  <2> HIDE DEF should
  <2>4. DOMAIN should = 1..2 /\ should[1] = c /\ should[2] = d
    BY <2>1, <2>3
  <2>5. should = [k \in 1..2 |-> should[k]]
    BY <2>1
  <2> QED BY <2>2, <2>4, <2>5
<1>9. ListenerReads(f).executed = should \o (IF Holds(should) THEN <<Released>> ELSE << >>)
  BY <1>2, ReadsAuthentic
<1> DEFINE tail == IF Holds(should) THEN <<Released>> ELSE << >>
           U == {c, d, Released}
<1>10. tail \in Seq(U)
  <2>1. <<Released>> \in Seq(U) /\ << >> \in Seq(U)
    OBVIOUS
  <2> HIDE DEF should, U
  <2> QED BY <2>1
<1> HIDE DEF tail, should
<1>11. SubSeq(<<c, d>> \o tail, 1, 2) = <<c, d>>
  <2> DEFINE s == <<c, d>> \o tail
  <2>1. <<c, d>> \in Seq(U) /\ Len(<<c, d>>) = 2 /\ Len(tail) \in Nat
    BY <1>10
  <2> HIDE DEF U
  <2>2. s \in Seq(U) /\ Len(s) >= 2 /\ s[1] = c /\ s[2] = d
    BY <1>10, <2>1
  <2> HIDE DEF s
  <2>3. SubSeq(s, 1, 2) \in Seq(U) /\ Len(SubSeq(s, 1, 2)) = 2
        /\ SubSeq(s, 1, 2)[1] = c /\ SubSeq(s, 1, 2)[2] = d
    BY <2>2
  <2>4. SubSeq(s, 1, 2) = <<c, d>>
    <3> DEFINE u == SubSeq(s, 1, 2)
    <3>1. 1..2 = {1, 2}
      OBVIOUS
    <3>2. u = [i \in 1..Len(u) |-> u[i]]
      BY <2>3
    <3>3. Len(u) = 2 /\ u[1] = c /\ u[2] = d
      BY <2>3
    <3> HIDE DEF u
    <3>4. u = <<c, d>>
      BY <3>1, <3>2, <3>3
    <3> QED BY <3>4 DEF u
  <2> QED BY <2>4 DEF s
<1>12. ListenerReads(f).executed = <<c, d>> \o tail
  BY <1>8, <1>9 DEF tail
<1> QED BY <1>11, <1>12 DEF f

(* What is said of the frames, for the commands and the frames of a session. *)
LEMMA FramesDoReadBack == FramesReadBack(Commands, FrameSeqs, Versions)
<1>1. \A c \in Commands : /\ c # Err /\ into_command(CommandPayload(c)) = c
                          /\ \A mine, theirs \in Versions :
                                OneShotReads(theirs, OneShotMessage(mine, c))
                                   = IF mine.major = theirs.major THEN c ELSE Err
  BY CommandsBack, OneShotsBack, AdaptersAssumption
<1>2. \A c, d \in Commands : SubSeq(ListenerReads(SessionFrames(<<c, Err, d>>)).executed, 1, 2) = <<c, d>>
  BY <1>1, SessionReads
<1>3. ASSUME NEW fs \in FrameSeqs
      PROVE  LET read == ListenerReads(fs)
                 should == ShouldExecute(fs)
             IN /\ read.executed = should \o (IF Holds(should) THEN <<Released>> ELSE << >>)
                /\ ProberTakes(read.written) <=> fs # << >> /\ fs[1] = Checked("identityProbe", TRUE)
  <2>1. fs \in Seq(ToSet(fs)) /\ \A i \in DOMAIN fs : IsFrame(fs[i])
    BY AdaptersAssumption
  <2> QED BY <2>1, ReadsAsMeant
<1> QED BY <1>1, <1>2, <1>3 DEF FramesReadBack

----
(***************************************************************************)
(* The watchdogs.  A change that is owed a recovery is one the next poll   *)
(* would see, and came after the last poll; no turn is later than the last *)
(* progress, and before the first inspection there was no turn.            *)
(***************************************************************************)
OwedIsSeen ==
    /\ owed["permission"] # Never => known /\ ~able
    /\ owed["layout"] # Never => screen \notin {layout, Unread}

OwedSincePoll == \A c \in Changes : owed[c] # Never => owed[c] <= envAge

IdleSinceTurn ==
    /\ turnAge <= idleAge
    /\ ~watching => turnAge = idleAge

WInv == WatchTypeOK /\ OwedIsSeen /\ OwedSincePoll /\ IdleSinceTurn /\ WatchKeepsUp

----
LEMMA WatchTypes ==
    ASSUME WatchTypeOK
    PROVE  /\ able \in BOOLEAN /\ remote \in BOOLEAN /\ watching \in BOOLEAN
           /\ known \in BOOLEAN /\ idleReported \in BOOLEAN
           /\ screen \in Bounds \cup {Unread} /\ layout \in Bounds
           /\ envAge \in 0..MaxAge /\ turnAge \in 0..MaxAge /\ idleAge \in 0..MaxAge
           /\ owed \in [Changes -> Never..MaxAge]
BY DEF WatchTypeOK

LEMMA OlderProps ==
    ASSUME NEW age \in 0..MaxAge
    PROVE  /\ Older(age) \in 0..MaxAge
           /\ age < MaxAge => Older(age) = age + 1
           /\ age = MaxAge => Older(age) = MaxAge
BY WatchAssumption DEF Older

LEMMA OwedProps ==
    ASSUME owed \in [Changes -> Never..MaxAge], NEW c \in Changes
    PROVE  owed[c] = -1 \/ owed[c] \in 0..MaxAge
BY WatchAssumption DEF Never

LEMMA NothingIsOwed ==
    /\ NothingOwed \in [Changes -> Never..MaxAge]
    /\ \A c \in Changes : NothingOwed[c] = Never
BY WatchAssumption DEF NothingOwed, Never

(* What an inspection does: it is due and settles what is owed, or it is not
   and leaves all as it is. *)
LEMMA Inspected ==
    ASSUME WInv, NEW resumed \in BOOLEAN, Inspect(resumed)
    PROVE  /\ envAge' \in 0..MaxAge /\ layout' \in Bounds /\ known' \in BOOLEAN
           /\ remote' \in BOOLEAN
           /\ \/ owed' = NothingOwed
              \/ /\ owed' = owed /\ UNCHANGED <<envAge, layout, known>>
                 /\ envAge < PollGap
              \/ /\ owed' = owed /\ \A c \in Changes : owed[c] = Never
<1> DEFINE due   == envAge >= PollGap
           moved == due /\ screen \notin {layout, Unread}
           lost  == due /\ known /\ ~able
<1>1. /\ envAge \in 0..MaxAge /\ PollGap \in Nat /\ MaxAge \in Nat /\ 0 \in 0..MaxAge
      /\ screen \in Bounds \cup {Unread} /\ layout \in Bounds
      /\ able \in BOOLEAN /\ known \in BOOLEAN /\ remote \in BOOLEAN
  BY WatchTypes, WatchAssumption DEF WInv
<1>2. /\ envAge' = IF due THEN 0 ELSE envAge
      /\ layout' = IF moved THEN screen ELSE layout
      /\ known' = IF due THEN able ELSE known
      /\ remote' = (remote /\ ~(resumed \/ moved \/ lost))
      /\ owed' = IF resumed \/ moved \/ lost THEN NothingOwed ELSE owed
  BY DEF Inspect, Recover, PollKept
<1>3. /\ envAge' \in 0..MaxAge /\ layout' \in Bounds /\ known' \in BOOLEAN /\ remote' \in BOOLEAN
  BY <1>1, <1>2
<1>4. CASE resumed \/ moved \/ lost
  BY <1>2, <1>3, <1>4
<1>5. CASE ~due /\ ~resumed
  <2>1. owed' = owed /\ UNCHANGED <<envAge, layout, known>>
    BY <1>2, <1>5
  <2>2. envAge < PollGap
    BY <1>1, <1>5
  <2> QED BY <1>3, <2>1, <2>2
<1>6. CASE due /\ ~resumed /\ ~moved /\ ~lost
  <2>1. owed' = owed
    BY <1>2, <1>6
  <2>2. owed["permission"] = Never /\ owed["layout"] = Never
    BY <1>6 DEF WInv, OwedIsSeen
  <2> QED BY <1>3, <2>1, <2>2 DEF Changes
<1> QED BY <1>4, <1>5, <1>6

(* After an inspection in a turn of the loop, all that is owed is younger than
   a poll gap. *)
LEMMA OwedAfterTurn ==
    ASSUME WInv, NEW resumed \in BOOLEAN, Inspect(resumed), UNCHANGED <<able, screen>>
    PROVE  /\ owed' \in [Changes -> Never..MaxAge]
           /\ OwedIsSeen' /\ OwedSincePoll'
           /\ \A c \in Changes : owed'[c] # Never => owed'[c] < PollGap
<1>1. CASE \A c \in Changes : owed'[c] = Never
  <2>1. owed' \in [Changes -> Never..MaxAge]
    BY Inspected, NothingIsOwed, WatchTypes DEF WInv
  <2> QED BY <1>1, <2>1 DEF OwedIsSeen, OwedSincePoll, Changes
<1>2. CASE owed' = owed /\ UNCHANGED <<envAge, layout, known>> /\ envAge < PollGap
  <2>1. \A c \in Changes : owed[c] # Never => owed[c] < PollGap
    <3> SUFFICES ASSUME NEW c \in Changes, owed[c] # Never PROVE owed[c] < PollGap
      OBVIOUS
    <3>1. owed[c] \in 0..MaxAge /\ envAge \in 0..MaxAge /\ PollGap \in Nat /\ MaxAge \in Nat
      BY OwedProps, WatchTypes, WatchAssumption DEF WInv, Never
    <3>2. owed[c] <= envAge
      BY DEF WInv, OwedSincePoll
    <3> QED BY <1>2, <3>1, <3>2
  <2>2. owed' \in [Changes -> Never..MaxAge]
    BY <1>2, WatchTypes DEF WInv
  <2> QED BY <1>2, <2>1, <2>2 DEF WInv, OwedIsSeen, OwedSincePoll
<1> QED BY <1>1, <1>2, Inspected, NothingIsOwed

----
LEMMA WatchInitially == WatchInit => WInv
<1> SUFFICES ASSUME WatchInit PROVE WInv
  OBVIOUS
<1>1. /\ screen \in Bounds /\ layout = screen
      /\ envAge = PollGap /\ turnAge = 0 /\ idleAge = 0
      /\ able = TRUE /\ remote = FALSE /\ watching = FALSE /\ known = TRUE /\ idleReported = FALSE
  BY WatchAssumption DEF WatchInit
<1>2. envAge \in 0..MaxAge /\ 0 \in 0..MaxAge
  BY <1>1, WatchAssumption
<1>3. owed \in [Changes -> Never..MaxAge] /\ \A c \in Changes : owed[c] = Never
  BY NothingIsOwed DEF WatchInit
<1>4. WatchTypeOK
  BY <1>1, <1>2, <1>3 DEF WatchTypeOK
<1>5. OwedIsSeen /\ OwedSincePoll /\ WatchKeepsUp
  BY <1>1, <1>3 DEF OwedIsSeen, OwedSincePoll, WatchKeepsUp, Changes
<1>6. IdleSinceTurn
  BY <1>1 DEF IdleSinceTurn
<1> QED BY <1>4, <1>5, <1>6 DEF WInv

(* Time passes: the differences of two ages do not grow. *)
LEMMA TimeKeeps ==
    ASSUME WInv, TimePasses
    PROVE  WInv'
<1>1. /\ envAge \in 0..MaxAge /\ turnAge \in 0..MaxAge /\ idleAge \in 0..MaxAge
      /\ MaxAge \in Nat /\ PollGap \in Nat \ {0} /\ IdleTimeout \in Nat \ {0}
      /\ owed \in [Changes -> Never..MaxAge]
  BY WatchTypes, WatchAssumption DEF WInv
<1>2. /\ envAge' = Older(envAge) /\ turnAge' = Older(turnAge) /\ idleAge' = Older(idleAge)
      /\ UNCHANGED <<able, screen, remote, watching, known, layout, idleReported>>
  BY DEF TimePasses
<1>3. ASSUME NEW c \in Changes
      PROVE  /\ owed[c] = Never => owed'[c] = Never
             /\ owed[c] # Never => /\ owed[c] \in 0..MaxAge /\ owed'[c] = Older(owed[c])
                                   /\ owed'[c] # Never
             /\ owed'[c] \in Never..MaxAge
  <2>1. owed[c] # Never => owed[c] \in 0..MaxAge
    BY <1>1, OwedProps DEF Never
  <2>2. owed'[c] = IF owed[c] = Never THEN Never ELSE Older(owed[c])
    BY DEF TimePasses
  <2>3. Never \in Never..MaxAge
    BY <1>1 DEF Never
  <2>4. CASE owed[c] = Never
    BY <2>2, <2>3, <2>4
  <2>5. CASE owed[c] # Never
    <3>1. Older(owed[c]) \in 0..MaxAge
      BY <2>1, <2>5, OlderProps
    <3> QED BY <1>1, <2>1, <2>2, <2>5, <3>1 DEF Never
  <2> QED BY <2>4, <2>5
<1>4. owed' \in [Changes -> Never..MaxAge]
  <2>1. owed' = [c \in Changes |-> IF owed[c] = Never THEN Never ELSE Older(owed[c])]
    BY DEF TimePasses
  <2> QED BY <1>3, <2>1
<1>5. WatchTypeOK'
  BY <1>1, <1>2, <1>4, OlderProps DEF WInv, WatchTypeOK
<1>6. OwedIsSeen'
  BY <1>2, <1>3 DEF WInv, OwedIsSeen, Changes
<1>7. OwedSincePoll'
  <2> SUFFICES ASSUME NEW c \in Changes, owed[c] # Never
               PROVE  Older(owed[c]) <= Older(envAge)
    BY <1>2, <1>3 DEF OwedSincePoll
  <2>1. owed[c] \in 0..MaxAge /\ owed[c] <= envAge
    BY <1>3 DEF WInv, OwedSincePoll
  <2> QED BY <1>1, <2>1 DEF Older
<1>8. IdleSinceTurn'
  <2>1. turnAge <= idleAge /\ (~watching => turnAge = idleAge)
    BY DEF WInv, IdleSinceTurn
  <2>2. Older(turnAge) <= Older(idleAge)
    BY <1>1, <2>1 DEF Older
  <2> QED BY <1>2, <2>1, <2>2 DEF IdleSinceTurn
<1>9. WatchKeepsUp'
  <2>1. ASSUME NEW c \in Changes, owed[c] # Never
        PROVE  Older(owed[c]) - Older(turnAge) < PollGap
    <3>1. owed[c] \in 0..MaxAge /\ owed[c] - turnAge < PollGap
      BY <1>3, <2>1 DEF WInv, WatchKeepsUp
    <3> QED BY <1>1, <3>1 DEF Older
  <2>2. ASSUME watching, Older(idleAge) - Older(turnAge) >= IdleTimeout
        PROVE  idleReported
    <3>1. turnAge <= idleAge
      BY DEF WInv, IdleSinceTurn
    <3>2. idleAge - turnAge >= IdleTimeout
      BY <1>1, <2>2, <3>1 DEF Older
    <3> QED BY <2>2, <3>2 DEF WInv, WatchKeepsUp
  <2> QED BY <1>2, <1>3, <2>1, <2>2 DEF WatchKeepsUp
<1> QED BY <1>5, <1>6, <1>7, <1>8, <1>9 DEF WInv

LEMMA WatchPreserved == WInv /\ [WatchStep]_watchVars => WInv'
<1> SUFFICES ASSUME WInv, [WatchStep]_watchVars PROVE WInv'
  OBVIOUS
<1>1. /\ envAge \in 0..MaxAge /\ turnAge \in 0..MaxAge /\ idleAge \in 0..MaxAge
      /\ MaxAge \in Nat /\ PollGap \in Nat \ {0} /\ IdleTimeout \in Nat \ {0}
      /\ owed \in [Changes -> Never..MaxAge]
      /\ able \in BOOLEAN /\ remote \in BOOLEAN /\ watching \in BOOLEAN
      /\ known \in BOOLEAN /\ idleReported \in BOOLEAN
      /\ screen \in Bounds \cup {Unread} /\ layout \in Bounds
  BY WatchTypes, WatchAssumption DEF WInv
<1>2. CASE UNCHANGED watchVars
  BY <1>2 DEF watchVars, WInv, WatchTypeOK, OwedIsSeen, OwedSincePoll, IdleSinceTurn, WatchKeepsUp
<1>3. ASSUME NEW c \in Changes, NEW different \in BOOLEAN
      PROVE  \/ Owing(c, different) = Never
             \/ different /\ Owing(c, different) = 0
             \/ different /\ Owing(c, different) = owed[c]
  BY DEF Owing
(* A change of the surroundings: what is owed for it begins, goes on or ends. *)
<1>4. ASSUME NEW c \in Changes, NEW different \in BOOLEAN,
             owed' = [owed EXCEPT ![c] = Owing(c, different)],
             UNCHANGED <<watching, envAge, turnAge, idleAge, idleReported>>
      PROVE  /\ owed' \in [Changes -> Never..MaxAge]
             /\ OwedSincePoll' /\ IdleSinceTurn' /\ WatchKeepsUp'
             /\ \A d \in Changes \ {c} : owed'[d] = owed[d]
             /\ owed'[c] # Never => different
  <2>1. /\ \A d \in Changes \ {c} : owed'[d] = owed[d]
        /\ owed'[c] = Owing(c, different)
    BY <1>1, <1>4
  <2>2. Owing(c, different) \in Never..MaxAge
    <3>1. owed[c] \in Never..MaxAge /\ 0 \in Never..MaxAge /\ Never \in Never..MaxAge
      BY <1>1 DEF Never
    <3> QED BY <1>3, <3>1
  <2>3. owed' \in [Changes -> Never..MaxAge]
    BY <1>1, <1>4, <2>2
  <2>4. \A d \in Changes : owed'[d] = Never \/ owed'[d] = 0 \/ owed'[d] = owed[d]
    BY <1>3, <2>1
  <2>5. OwedSincePoll'
    BY <1>1, <1>4, <2>4 DEF WInv, OwedSincePoll
  <2>6. WatchKeepsUp'
    <3>1. 0 - turnAge < PollGap
      BY <1>1
    <3> QED BY <1>4, <2>4, <3>1 DEF WInv, WatchKeepsUp
  <2>7. owed'[c] # Never => different
    BY <1>3, <2>1
  <2> QED BY <1>4, <2>1, <2>3, <2>5, <2>6, <2>7 DEF WInv, IdleSinceTurn
<1>5. CASE PermissionChanges
  <2>1. /\ owed' = [owed EXCEPT !["permission"] = Owing("permission", known /\ ~able')]
        /\ able' = ~able
        /\ UNCHANGED <<screen, remote, watching, known, layout, envAge, turnAge, idleAge, idleReported>>
    BY <1>5 DEF PermissionChanges
  <2>2. PICK different \in BOOLEAN : different = (known /\ ~able')
    BY <1>1, <2>1
  <2>3. "permission" \in Changes /\ "layout" \in Changes
    BY DEF Changes
  <2>4. /\ owed' \in [Changes -> Never..MaxAge]
        /\ OwedSincePoll' /\ IdleSinceTurn' /\ WatchKeepsUp'
        /\ owed'["layout"] = owed["layout"]
        /\ owed'["permission"] # Never => known /\ ~able'
    BY <1>4, <2>1, <2>2, <2>3
  <2>5. OwedIsSeen'
    BY <2>1, <2>4 DEF WInv, OwedIsSeen
  <2>6. WatchTypeOK'
    BY <1>1, <2>1, <2>4 DEF WatchTypeOK
  <2> QED BY <2>4, <2>5, <2>6 DEF WInv
<1>6. CASE ScreenChanges
  <2>1. /\ owed' = [owed EXCEPT !["layout"] = Owing("layout", screen' \notin {layout, Unread})]
        /\ screen' \in Bounds \cup {Unread}
        /\ UNCHANGED <<able, remote, watching, known, layout, envAge, turnAge, idleAge, idleReported>>
    BY <1>6 DEF ScreenChanges
  <2>2. PICK different \in BOOLEAN : different = (screen' \notin {layout, Unread})
    OBVIOUS
  <2>3. "permission" \in Changes /\ "layout" \in Changes
    BY DEF Changes
  <2>4. /\ owed' \in [Changes -> Never..MaxAge]
        /\ OwedSincePoll' /\ IdleSinceTurn' /\ WatchKeepsUp'
        /\ owed'["permission"] = owed["permission"]
        /\ owed'["layout"] # Never => screen' \notin {layout, Unread}
    BY <1>4, <2>1, <2>2, <2>3
  <2>5. OwedIsSeen'
    BY <2>1, <2>4 DEF WInv, OwedIsSeen
  <2>6. WatchTypeOK'
    BY <1>1, <2>1, <2>4 DEF WatchTypeOK
  <2> QED BY <2>4, <2>5, <2>6 DEF WInv
<1>7. CASE TimePasses
  BY <1>7, TimeKeeps
<1>8. CASE ModeChanges
  <2>1. /\ remote' \in BOOLEAN /\ owed' = NothingOwed
        /\ UNCHANGED <<able, screen, watching, known, layout, envAge, turnAge, idleAge, idleReported>>
    BY <1>1, <1>8 DEF ModeChanges
  <2>2. owed' \in [Changes -> Never..MaxAge] /\ \A c \in Changes : owed'[c] = Never
    BY <2>1, NothingIsOwed
  <2>3. OwedIsSeen' /\ OwedSincePoll'
    BY <2>2 DEF OwedIsSeen, OwedSincePoll, Changes
  <2>4. IdleSinceTurn' /\ WatchKeepsUp'
    BY <2>1, <2>2 DEF WInv, IdleSinceTurn, WatchKeepsUp
  <2>5. WatchTypeOK'
    BY <1>1, <2>1, <2>2 DEF WatchTypeOK
  <2> QED BY <2>3, <2>4, <2>5 DEF WInv
<1>9. CASE BeginWatching
  <2>1. /\ watching' = TRUE /\ ~watching /\ Inspect(FALSE)
        /\ UNCHANGED <<able, screen, turnAge, idleAge, idleReported>>
    BY <1>9 DEF BeginWatching
  <2>2. /\ envAge' \in 0..MaxAge /\ layout' \in Bounds /\ known' \in BOOLEAN /\ remote' \in BOOLEAN
    BY <2>1, Inspected
  <2>3. /\ owed' \in [Changes -> Never..MaxAge] /\ OwedIsSeen' /\ OwedSincePoll'
        /\ \A c \in Changes : owed'[c] # Never => owed'[c] < PollGap
    BY <2>1, OwedAfterTurn
  <2>4. turnAge = idleAge
    BY <2>1 DEF WInv, IdleSinceTurn
  <2>5. WatchKeepsUp'
    <3>1. ASSUME NEW c \in Changes, owed'[c] # Never PROVE owed'[c] - turnAge' < PollGap
      <4>1. owed'[c] \in Int /\ owed'[c] < PollGap
        BY <1>1, <2>3, <3>1 DEF Never
      <4> QED BY <1>1, <2>1, <4>1
    <3>2. ~(idleAge' - turnAge' >= IdleTimeout)
      BY <1>1, <2>1, <2>4
    <3> QED BY <3>1, <3>2 DEF WatchKeepsUp
  <2>6. WatchTypeOK'
    BY <1>1, <2>1, <2>2, <2>3 DEF WatchTypeOK
  <2>7. IdleSinceTurn'
    BY <1>1, <2>1, <2>4 DEF IdleSinceTurn
  <2> QED BY <2>3, <2>5, <2>6, <2>7 DEF WInv
(* A turn of the loop. *)
<1>10. ASSUME owed' \in [Changes -> Never..MaxAge], OwedIsSeen', OwedSincePoll',
              \A c \in Changes : owed'[c] # Never => owed'[c] < PollGap,
              envAge' \in 0..MaxAge, layout' \in Bounds, known' \in BOOLEAN, remote' \in BOOLEAN,
              idleReported' \in BOOLEAN, watching, UNCHANGED <<able, screen, watching>>,
              turnAge' = 0,
              \/ idleAge' = 0
              \/ idleAge' = idleAge /\ (idleAge >= IdleTimeout => idleReported')
       PROVE  WInv'
  <2>1. 0 \in 0..MaxAge
    BY <1>1
  <2>2. WatchTypeOK'
    BY <1>1, <1>10, <2>1 DEF WatchTypeOK
  <2>3. IdleSinceTurn'
    BY <1>1, <1>10 DEF IdleSinceTurn
  <2>4. WatchKeepsUp'
    <3>1. ASSUME NEW c \in Changes, owed'[c] # Never PROVE owed'[c] - turnAge' < PollGap
      <4>1. owed'[c] \in Int /\ owed'[c] < PollGap
        BY <1>1, <1>10, <3>1 DEF Never
      <4> QED BY <1>1, <1>10, <4>1
    <3>2. ASSUME idleAge' - turnAge' >= IdleTimeout PROVE idleReported'
      <4>1. idleAge' >= IdleTimeout /\ ~(0 >= IdleTimeout)
        BY <1>1, <1>10, <3>2
      <4> QED BY <1>10, <4>1
    <3> QED BY <3>1, <3>2 DEF WatchKeepsUp
  <2> QED BY <1>10, <2>2, <2>3, <2>4 DEF WInv
<1>11. CASE EventTurn
  <2>1. /\ Inspect(Resumed) /\ Resumed \in BOOLEAN /\ watching
        /\ turnAge' = 0 /\ idleAge' = 0 /\ idleReported' = FALSE
        /\ UNCHANGED <<able, screen, watching>>
    BY <1>11 DEF EventTurn, Resumed
  <2>2. /\ envAge' \in 0..MaxAge /\ layout' \in Bounds /\ known' \in BOOLEAN /\ remote' \in BOOLEAN
    BY <2>1, Inspected
  <2>3. /\ owed' \in [Changes -> Never..MaxAge] /\ OwedIsSeen' /\ OwedSincePoll'
        /\ \A c \in Changes : owed'[c] # Never => owed'[c] < PollGap
    BY <2>1, OwedAfterTurn
  <2> QED BY <1>10, <2>1, <2>2, <2>3
<1>12. CASE ResumedTurn
  <2>1. /\ owed' = NothingOwed /\ remote' \in BOOLEAN /\ watching
        /\ turnAge' = 0 /\ idleAge' = 0 /\ idleReported' = FALSE
        /\ UNCHANGED <<able, screen, watching, known, layout, envAge>>
    BY <1>1, <1>12 DEF ResumedTurn, Recover
  <2>2. owed' \in [Changes -> Never..MaxAge] /\ \A c \in Changes : owed'[c] = Never
    BY <2>1, NothingIsOwed
  <2>3. OwedIsSeen' /\ OwedSincePoll'
    BY <2>2 DEF OwedIsSeen, OwedSincePoll, Changes
  <2> QED BY <1>1, <1>10, <2>1, <2>2, <2>3
<1>13. CASE IdleTurn
  <2>1. /\ Inspect(FALSE) /\ watching /\ turnAge' = 0
        /\ idleReported' = (idleReported \/ idleAge >= IdleTimeout)
        /\ UNCHANGED <<able, screen, watching, idleAge>>
    BY <1>13 DEF IdleTurn
  <2>2. /\ envAge' \in 0..MaxAge /\ layout' \in Bounds /\ known' \in BOOLEAN /\ remote' \in BOOLEAN
    BY <2>1, Inspected
  <2>3. /\ owed' \in [Changes -> Never..MaxAge] /\ OwedIsSeen' /\ OwedSincePoll'
        /\ \A c \in Changes : owed'[c] # Never => owed'[c] < PollGap
    BY <2>1, OwedAfterTurn
  <2>4. idleReported' \in BOOLEAN /\ (idleAge >= IdleTimeout => idleReported')
    BY <2>1
  <2> QED BY <1>10, <2>1, <2>2, <2>3, <2>4
<1> QED BY <1>2, <1>5, <1>6, <1>7, <1>8, <1>9, <1>11, <1>12, <1>13 DEF WatchStep

----
(***************************************************************************)
(* The parts together.  A step is one of one part's, with the others at    *)
(* rest, so each keeps its own invariant.                                  *)
(***************************************************************************)
PartsInv == InjInv /\ CapInv /\ AirInv /\ WInv

LEMMA PartsMove ==
    [Next]_vars => /\ [DiscoveryStep]_discoveryVars /\ [InjectedStep]_injectedVars
                   /\ [CaptureStep]_captureVars /\ [WatchStep]_watchVars
BY DEF Next, vars

LEMMA PartsHold == Spec => []PartsInv
<1>1. Init => PartsInv
  BY InjInitially, CapInitially, AirInitially, WatchInitially DEF Init, PartsInv
<1>2. PartsInv /\ [Next]_vars => PartsInv'
  BY PartsMove, InjPreserved, CapPreserved, AirPreserved, WatchPreserved DEF PartsInv
<1> QED BY <1>1, <1>2, PTL DEF Spec

(* The services known, the input held down, the session's queue and the ages
   of the watch have their types, and a lock is held by whoever releases. *)
THEOREM PartsTyped == Spec => []TypeOK
<1>1. PartsInv => TypeOK
  BY AirTypes, InjTypes DEF PartsInv, TypeOK, CapInv, WInv
<1> QED BY <1>1, PartsHold, PTL

(* Whatever the order in which an adapter injects, releases and ends, an input
   that is down on the desktop is one a release has yet to lift; and whatever
   the order in which the hook, its channel and its owner move, what the desktop
   takes for pressed and is not is accounted for. *)
THEOREM InputIsAccountedFor == Spec => []NothingStaysDown
<1>1. PartsInv => NothingStaysDown
  BY DEF PartsInv, InjInv, CapInv, NothingStaysDown
<1> QED BY <1>1, PartsHold, PTL

(* However the library's events and the polls interleave, the worker that has
   drained the events knows the services on the air; whatever it has published,
   the document it offers for a service is valid and another device's; and two
   devices that find one another show the same code. *)
THEOREM DiscoveryIsTrue == Spec => []DiscoveryPairs
<1>1. PartsInv => DiscoveryPairs
  BY AirTypes, OffersPair, CodesAgree, AdaptersAssumption DEF PartsInv, DiscoveryPairs
<1> QED BY <1>1, PartsHold, PTL

(* Whatever codes the keyboard has, a key arrives on the other desktop as itself
   exactly if it is a modifier or its code is carried between the two platforms,
   and buttons and wheel steps of X11 do.  Every command is read back as it was
   sent; and whatever frames come in whatever order, the listener executes those
   of the longest good run behind a whole prelude and no others, and releases at
   the end exactly if something may be held. *)
THEOREM CommandsDoArrive == Spec => []CommandsArrive
<1>1. CommandsArrive
  BY InputDoesArrive, FramesDoReadBack DEF CommandsArrive
<1> QED BY <1>1, PTL

(* Whatever the operating system answers to the probes, and whatever size the
   screens have, an adapter that says it can capture or inject can. *)
THEOREM ProbesTellTheTruth == Spec => []ProbesTruthful
<1>1. ProbesTruthful
  BY ProbeTells, AdaptersAssumption DEF ProbesTruthful
<1> QED BY <1>1, PTL

(* Whatever the turns of the worker's loop and the sleeps of the system, the
   watchdogs keep up: remote control is over by the first turn that comes a
   poll gap after what it stands on has gone, and a silence is reported by the
   turn that comes an idle timeout after the last event. *)
THEOREM WatchersKeepUp == Spec => []WatchKeepsUp
<1>1. PartsInv => WatchKeepsUp
  BY DEF PartsInv, WInv
<1> QED BY <1>1, PartsHold, PTL
=============================================================================
