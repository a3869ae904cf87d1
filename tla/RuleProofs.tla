----------------------------- MODULE RuleProofs -----------------------------
(***************************************************************************)
(* Proofs about the event bus with the rule service on it, for any rules,  *)
(* plugins, instances and events: however publishes and listeners nest,    *)
(* the cap holds and no event that cannot be cancelled carries the flag;   *)
(* the stored rules have an owner nobody has swept, and the bus calls the  *)
(* service for exactly their events; and a rule fires as seldom as its     *)
(* one-shot latch and its cooldown ask.                                    *)
(***************************************************************************)
EXTENDS RuleService, FiniteSetTheorems, WellFoundedInduction, TLAPS

LEMMA LeastNatural ==
    ASSUME NEW T, T \subseteq Nat, T # {} PROVE \E x \in T : \A y \in T : x <= y
<1>1. PICK x \in T : \A y \in T : ~ (<<y, x>> \in OpToRel(<, Nat))
  BY NatLessThanWellFounded, WFMin, Zenon
<1>2. \A y \in T : y < x => <<y, x>> \in OpToRel(<, Nat)
  BY Zenon DEF OpToRel
<1>3. \A y \in T : ~(y < x)
  BY <1>1, <1>2, Zenon
<1> QED
  BY <1>3

-----------------------------------------------------------------------------
(* The call stack *)

\* A stack is no longer or shorter for the set its frames are taken from.
LEMMA OwnRange == ASSUME NEW S, NEW q \in Seq(S) PROVE q \in Seq(Range(q))
<1>1. q \in [1 .. Len(q) -> Range(q)] /\ Len(q) \in Nat
  BY DEF Range
<1> QED
  BY <1>1

LEMMA PushIs ==
    ASSUME NEW st, st \in Seq(Range(st)), NEW frame
    PROVE LET more == Append(st, frame)
          IN  /\ more \in Seq(Range(more))
              /\ Len(st) \in Nat /\ DOMAIN st = 1 .. Len(st)
              /\ Len(more) = Len(st) + 1 /\ DOMAIN more = 1 .. Len(st) + 1
              /\ \A i \in DOMAIN st : more[i] = st[i]
              /\ more[Len(st) + 1] = frame
<1> DEFINE S == Range(st) \cup {frame}
<1>1. st \in [1 .. Len(st) -> Range(st)] /\ Len(st) \in Nat /\ DOMAIN st = 1 .. Len(st)
  OBVIOUS
<1>2. st \in Seq(S) /\ frame \in S
  BY <1>1
<1> HIDE DEF S
<1>3. /\ Append(st, frame) \in Seq(S)
      /\ Len(Append(st, frame)) = Len(st) + 1 /\ DOMAIN Append(st, frame) = 1 .. Len(st) + 1
      /\ \A i \in 1 .. Len(st) : Append(st, frame)[i] = st[i]
      /\ Append(st, frame)[Len(st) + 1] = frame
  BY <1>1, <1>2
<1>4. Append(st, frame) \in Seq(Range(Append(st, frame)))
  BY <1>3, OwnRange
<1> QED
  BY <1>1, <1>3, <1>4

LEMMA PopIs ==
    ASSUME NEW st, st \in Seq(Range(st)), st # <<>>
    PROVE LET below == Front(st)
          IN  /\ below \in Seq(Range(below))
              /\ Len(st) \in Nat \ {0} /\ DOMAIN st = 1 .. Len(st)
              /\ Len(below) = Len(st) - 1 /\ DOMAIN below = 1 .. Len(st) - 1
              /\ \A i \in DOMAIN below : below[i] = st[i]
<1> DEFINE S == Range(st)
<1>1. st \in Seq(S) /\ Len(st) \in Nat /\ DOMAIN st = 1 .. Len(st)
  OBVIOUS
<1> HIDE DEF S
<1>2. /\ SubSeq(st, 1, Len(st) - 1) \in Seq(S) /\ Len(st) # 0
      /\ Len(SubSeq(st, 1, Len(st) - 1)) = Len(st) - 1
      /\ DOMAIN SubSeq(st, 1, Len(st) - 1) = 1 .. Len(st) - 1
      /\ \A i \in 1 .. Len(st) - 1 : SubSeq(st, 1, Len(st) - 1)[i] = st[i]
  BY <1>1
<1> QED
  BY <1>1, <1>2, OwnRange DEF Front

\* Rewriting one frame leaves the length and the others.
LEMMA RewriteIs ==
    ASSUME NEW st, st \in Seq(Range(st)), NEW k \in DOMAIN st, NEW frame
    PROVE LET other == [st EXCEPT ![k] = frame]
          IN  /\ other \in Seq(Range(other))
              /\ Len(st) \in Nat /\ Len(other) = Len(st) /\ DOMAIN st = 1 .. Len(st)
              /\ DOMAIN other = 1 .. Len(st)
              /\ other[k] = frame /\ \A i \in DOMAIN st : i # k => other[i] = st[i]
<1> DEFINE other == [st EXCEPT ![k] = frame]
           S == Range(st) \cup {frame}
<1>1. st \in [1 .. Len(st) -> Range(st)] /\ Len(st) \in Nat /\ DOMAIN st = 1 .. Len(st)
  OBVIOUS
<1>2. st \in [1 .. Len(st) -> S] /\ frame \in S
  BY <1>1
<1> HIDE DEF S
<1>3. other \in [1 .. Len(st) -> S] /\ other[k] = frame
      /\ \A i \in DOMAIN st : i # k => other[i] = st[i]
  BY <1>1, <1>2
<1>4. DOMAIN other = 1 .. Len(st)
  BY <1>1
<1> HIDE DEF other
<1>5. other \in Seq(S) /\ Len(other) = Len(st)
  BY <1>1, <1>3, <1>4
<1>6. other \in Seq(Range(other))
  BY <1>5, OwnRange
<1>7. QED
  BY <1>1, <1>3, <1>4, <1>5, <1>6 DEF other

-----------------------------------------------------------------------------
(* How many of its frames are publishes, and which flags are looked at       *)

Publishes(st) == {i \in DOMAIN st : IsPublish(st[i])}

\* No listener stands on the publish at i.
Uncovered(st, i) == IsPublish(st[i]) /\ (i = Len(st) \/ IsPublish(st[i + 1]))

Steady(st) ==
    /\ Alternates(st)
    /\ Depth(st) <= MaxPublishDepth
    /\ \A i \in DOMAIN st : Uncovered(st, i) => FlagIsSound(st[i].event)

LEMMA SteadyIs == DispatchInv <=> Steady(stack)
BY DEF DispatchInv, DispatchIsSound, Steady, Uncovered

LEMMA LengthIs ==
    ASSUME NEW st, Alternates(st), st # <<>>
    PROVE Len(st) \in Nat \ {0} /\ DOMAIN st = 1 .. Len(st) /\ Last(st) = st[Len(st)]
<1>1. st \in Seq(Range(st))
  BY DEF Alternates
<1> QED
  BY <1>1 DEF Last

\* What stands on the stack is a publish, or the listener of the publish below.
LEMMA CoveredIs ==
    ASSUME NEW st, Alternates(st), st # <<>>, ~IsPublish(Last(st))
    PROVE Len(st) - 1 \in DOMAIN st /\ IsPublish(st[Len(st) - 1])
<1>1. Len(st) \in Nat \ {0} /\ DOMAIN st = 1 .. Len(st) /\ ~IsPublish(st[Len(st)])
  BY LengthIs
<1> QED
  BY <1>1 DEF Alternates

\* An open publish counts once.
LEMMA DepthIs ==
    ASSUME NEW st, Alternates(st)
    PROVE /\ Depth(st) = Cardinality(Publishes(st)) /\ IsFiniteSet(Publishes(st))
          /\ Depth(st) \in Nat
<1>1. st \in Seq(Range(st))
  BY DEF Alternates
<1>2. Len(st) \in Nat /\ DOMAIN st = 1 .. Len(st)
  BY <1>1
<1>3. IsFiniteSet(1 .. Len(st))
  BY <1>2, FS_Interval
<1>4. Publishes(st) \subseteq 1 .. Len(st)
  BY <1>2 DEF Publishes
<1>5. IsFiniteSet(Publishes(st))
  BY <1>3, <1>4, FS_Subset
<1>6. Cardinality(Publishes(st)) \in Nat
  BY <1>5, FS_CardinalityType
<1> QED
  BY <1>5, <1>6 DEF Depth, Publishes

LEMMA DepthFalls ==
    ASSUME NEW st, NEW other, Alternates(st), Alternates(other),
           Publishes(other) \subseteq Publishes(st)
    PROVE Depth(other) <= Depth(st)
<1>1. IsFiniteSet(Publishes(st)) /\ Depth(st) = Cardinality(Publishes(st))
  BY DepthIs
<1>2. Depth(other) = Cardinality(Publishes(other))
  BY DepthIs
<1>3. Cardinality(Publishes(other)) <= Cardinality(Publishes(st))
  BY <1>1, FS_Subset
<1> QED
  BY <1>1, <1>2, <1>3

LEMMA DepthGrows ==
    ASSUME NEW st, NEW other, Alternates(st), Alternates(other), NEW n,
           Publishes(other) = Publishes(st) \cup {n}, n \notin Publishes(st)
    PROVE Depth(other) = Depth(st) + 1
<1>1. IsFiniteSet(Publishes(st)) /\ Depth(st) = Cardinality(Publishes(st))
  BY DepthIs
<1>2. Depth(other) = Cardinality(Publishes(other))
  BY DepthIs
<1>3. Cardinality(Publishes(st) \cup {n}) = Cardinality(Publishes(st)) + 1
  BY <1>1, FS_AddElement
<1> QED
  BY <1>1, <1>2, <1>3

-----------------------------------------------------------------------------
(* What each use of the stack does to it                                     *)

\* A frame is rewritten in what the stack's shape does not tell.
Alike(frame, old) ==
    /\ DOMAIN frame = DOMAIN old
    /\ frame.kind = old.kind
    /\ IsPublish(old) => DOMAIN frame.event = DOMAIN old.event

LEMMA RewrittenAlternates ==
    ASSUME NEW st, NEW other, Alternates(st), other \in Seq(Range(other)),
           DOMAIN other = DOMAIN st, Len(other) = Len(st),
           \A i \in DOMAIN st : Alike(other[i], st[i])
    PROVE /\ Alternates(other) /\ Publishes(other) = Publishes(st)
          /\ \A i \in DOMAIN st : Uncovered(other, i) <=> Uncovered(st, i)
<1>1. st \in Seq(Range(st))
  BY DEF Alternates
<1>2. Len(st) \in Nat /\ DOMAIN st = 1 .. Len(st)
  BY <1>1
<1>3. \A i \in DOMAIN st : IsPublish(other[i]) <=> IsPublish(st[i])
  BY DEF Alike, IsPublish
<1>4. \A i \in DOMAIN st : i # 1 => i - 1 \in DOMAIN st
  BY <1>2
<1>5. \A i \in DOMAIN st : i # Len(st) => i + 1 \in DOMAIN st
  BY <1>2
<1>6. Alternates(other)
  <2> SUFFICES ASSUME NEW i \in DOMAIN st
               PROVE /\ "kind" \in DOMAIN other[i]
                     /\ IsPublish(other[i]) <=> (i = 1 \/ ~IsPublish(other[i - 1]))
                     /\ IsPublish(other[i]) =>
                           /\ {"event", "todo"} \subseteq DOMAIN other[i]
                           /\ {"cancellable", "cancelled"} \subseteq DOMAIN other[i].event
    BY DEF Alternates
  <2>1. /\ "kind" \in DOMAIN st[i]
        /\ IsPublish(st[i]) <=> (i = 1 \/ ~IsPublish(st[i - 1]))
        /\ IsPublish(st[i]) => /\ {"event", "todo"} \subseteq DOMAIN st[i]
                               /\ {"cancellable", "cancelled"} \subseteq DOMAIN st[i].event
    BY DEF Alternates
  <2>2. Alike(other[i], st[i])
    OBVIOUS
  <2> QED
    BY <1>3, <1>4, <2>1, <2>2 DEF Alike
<1> QED
  BY <1>3, <1>5, <1>6 DEF Publishes, Uncovered

\* The frame on top goes on.
LEMMA GoesOnSteady ==
    ASSUME NEW st, Steady(st), st # <<>>, ~IsPublish(Last(st)), NEW frame, Alike(frame, Last(st))
    PROVE LET other == [st EXCEPT ![Len(st)] = frame]
          IN  Steady(other) /\ other # <<>> /\ Last(other) = frame /\ Len(other) = Len(st)
<1> DEFINE other == [st EXCEPT ![Len(st)] = frame]
<1>1. Alternates(st) /\ st \in Seq(Range(st))
  BY DEF Steady, Alternates
<1>2. /\ Len(st) \in Nat \ {0} /\ DOMAIN st = 1 .. Len(st) /\ Last(st) = st[Len(st)]
      /\ Len(st) \in DOMAIN st
  BY <1>1, LengthIs
<1>3. /\ other \in Seq(Range(other)) /\ Len(other) = Len(st) /\ DOMAIN other = 1 .. Len(st)
      /\ other[Len(st)] = frame /\ \A i \in DOMAIN st : i # Len(st) => other[i] = st[i]
  BY <1>1, <1>2, RewriteIs
<1> HIDE DEF other
<1>4. \A i \in DOMAIN st : Alike(other[i], st[i])
  BY <1>2, <1>3 DEF Alike
<1>5. /\ Alternates(other) /\ Publishes(other) = Publishes(st)
      /\ \A i \in DOMAIN st : Uncovered(other, i) <=> Uncovered(st, i)
  BY <1>1, <1>2, <1>3, <1>4, RewrittenAlternates
<1>6. Depth(other) <= MaxPublishDepth
  <2>1. Depth(other) <= Depth(st)
    BY <1>1, <1>5, DepthFalls
  <2> QED
    BY <2>1, <1>1, <1>5, DepthIs, DepthAssumption DEF Steady
<1>7. ASSUME NEW i \in DOMAIN st, Uncovered(other, i) PROVE FlagIsSound(other[i].event)
  BY <1>2, <1>3, <1>5, <1>7 DEF Steady, Uncovered
<1>8. Steady(other)
  BY <1>2, <1>3, <1>5, <1>6, <1>7 DEF Steady
<1>9. other # <<>> /\ Last(other) = frame
  BY <1>2, <1>3 DEF Last
<1> QED
  BY <1>3, <1>8, <1>9 DEF other

\* The listener on top writes the flag of the publish that called it.
LEMMA ClaimSteady ==
    ASSUME NEW st, Steady(st), st # <<>>, ~IsPublish(Last(st))
    PROVE Steady(Cancelled(st)) /\ Cancelled(st) # <<>> /\ Last(Cancelled(st)) = Last(st)
<1> DEFINE k == Len(st) - 1
           frame == [st[k] EXCEPT !.event.cancelled = TRUE]
           other == [st EXCEPT ![k] = frame]
<1>1. Alternates(st) /\ st \in Seq(Range(st))
  BY DEF Steady, Alternates
<1>2. Len(st) \in Nat \ {0} /\ DOMAIN st = 1 .. Len(st) /\ Last(st) = st[Len(st)]
  BY <1>1, LengthIs
<1>3. k \in DOMAIN st /\ IsPublish(st[k])
  BY <1>1, CoveredIs
<1>4. /\ other \in Seq(Range(other)) /\ Len(other) = Len(st) /\ DOMAIN other = 1 .. Len(st)
      /\ other[k] = frame /\ \A i \in DOMAIN st : i # k => other[i] = st[i]
  BY <1>1, <1>3, RewriteIs
<1>5. Alike(frame, st[k])
  <2>1. {"kind", "event"} \subseteq DOMAIN st[k]
    BY <1>1, <1>3 DEF Alternates
  <2> QED
    BY <2>1 DEF Alike
<1>6. other = Cancelled(st)
  BY DEF Cancelled
<1> HIDE DEF other, frame
<1>7. \A i \in DOMAIN st : Alike(other[i], st[i])
  BY <1>2, <1>4, <1>5 DEF Alike
<1>8. /\ Alternates(other) /\ Publishes(other) = Publishes(st)
      /\ \A i \in DOMAIN st : Uncovered(other, i) <=> Uncovered(st, i)
  BY <1>1, <1>2, <1>4, <1>7, RewrittenAlternates
<1>9. Depth(other) <= MaxPublishDepth
  <2>1. Depth(other) <= Depth(st)
    BY <1>1, <1>8, DepthFalls
  <2> QED
    BY <2>1, <1>1, <1>8, DepthIs, DepthAssumption DEF Steady
<1>10. ~Uncovered(st, k)
  <2>1. \A n \in Nat : (n - 1) + 1 = n /\ n - 1 # n
    OBVIOUS
  <2> QED
    BY <2>1, <1>2 DEF Uncovered
<1>11. ASSUME NEW i \in DOMAIN st, Uncovered(other, i) PROVE FlagIsSound(other[i].event)
  BY <1>2, <1>4, <1>8, <1>10, <1>11 DEF Steady
<1>12. Steady(other)
  BY <1>2, <1>4, <1>8, <1>9, <1>11 DEF Steady
<1>13. other # <<>> /\ Last(other) = Last(st)
  BY <1>2, <1>4 DEF Last
<1> QED
  BY <1>6, <1>12, <1>13

\* The publish on top is about to call: the listener stands on it.
LEMMA CallSteady ==
    ASSUME NEW st, Steady(st), st # <<>>, IsPublish(Last(st)),
           NEW frame, "kind" \in DOMAIN frame, ~IsPublish(frame)
    PROVE Steady(Append(Calling(st), frame))
<1> DEFINE n == Len(st)
           top == [st[n] EXCEPT !.todo = Tail(@)]
           called == [st EXCEPT ![n] = top]
           other == Append(called, frame)
<1>1. Alternates(st) /\ st \in Seq(Range(st))
  BY DEF Steady, Alternates
<1>2. n \in Nat \ {0} /\ n \in DOMAIN st /\ DOMAIN st = 1 .. n /\ IsPublish(st[n])
  BY <1>1, LengthIs
<1> HIDE DEF top
<1>3. /\ called \in Seq(Range(called)) /\ Len(called) = n /\ DOMAIN called = 1 .. n
      /\ called[n] = top /\ \A i \in DOMAIN st : i # n => called[i] = st[i]
  BY <1>1, <1>2, RewriteIs
<1>4. Alike(top, st[n])
  <2>1. {"kind", "event", "todo"} \subseteq DOMAIN st[n]
    BY <1>1, <1>2 DEF Alternates
  <2> QED
    BY <2>1 DEF Alike, top
<1>5. called = Calling(st)
  BY DEF Calling, top
<1> HIDE DEF called
<1>6. /\ other \in Seq(Range(other)) /\ Len(other) = n + 1 /\ DOMAIN other = 1 .. n + 1
      /\ \A i \in DOMAIN st : other[i] = called[i]
      /\ other[n + 1] = frame
  BY <1>2, <1>3, PushIs
<1> HIDE DEF other
<1>7. \A i \in DOMAIN st : Alike(called[i], st[i])
  BY <1>2, <1>3, <1>4 DEF Alike
<1>8. /\ Alternates(called) /\ Publishes(called) = Publishes(st)
      /\ \A i \in DOMAIN st : Uncovered(called, i) <=> Uncovered(st, i)
  BY <1>1, <1>2, <1>3, <1>7, RewrittenAlternates
<1> HIDE DEF n
<1>9. IsPublish(called[n])
  BY <1>2, <1>3, <1>4 DEF Alike, IsPublish
<1>10. Alternates(other)
  <2> SUFFICES ASSUME NEW i \in 1 .. n + 1
               PROVE /\ "kind" \in DOMAIN other[i]
                     /\ IsPublish(other[i]) <=> (i = 1 \/ ~IsPublish(other[i - 1]))
                     /\ IsPublish(other[i]) =>
                           /\ {"event", "todo"} \subseteq DOMAIN other[i]
                           /\ {"cancellable", "cancelled"} \subseteq DOMAIN other[i].event
    BY <1>6 DEF Alternates
  <2>1. CASE i = n + 1
    BY <2>1, <1>2, <1>6, <1>9
  <2>2. CASE i \in 1 .. n
    <3>1. /\ "kind" \in DOMAIN called[i]
          /\ IsPublish(called[i]) <=> (i = 1 \/ ~IsPublish(called[i - 1]))
          /\ IsPublish(called[i]) =>
                           /\ {"event", "todo"} \subseteq DOMAIN called[i]
                           /\ {"cancellable", "cancelled"} \subseteq DOMAIN called[i].event
      BY <2>2, <1>3, <1>8 DEF Alternates
    <3>2. other[i] = called[i] /\ (i # 1 => other[i - 1] = called[i - 1])
      BY <2>2, <1>2, <1>6
    <3> QED
      BY <3>1, <3>2
  <2> QED
    BY <2>1, <2>2, <1>2
<1>11. Publishes(other) = Publishes(st)
  <2>1. \A i \in 1 .. n : IsPublish(other[i]) <=> IsPublish(called[i])
    BY <1>2, <1>6
  <2>2. Publishes(other) = Publishes(called)
    BY <2>1, <1>2, <1>3, <1>6 DEF Publishes
  <2> QED
    BY <2>2, <1>8
<1>12. Depth(other) <= MaxPublishDepth
  <2>1. Depth(other) <= Depth(st)
    BY <1>1, <1>10, <1>11, DepthFalls
  <2> QED
    BY <2>1, <1>1, <1>10, DepthIs, DepthAssumption DEF Steady
<1>13. ASSUME NEW i \in 1 .. n + 1, Uncovered(other, i) PROVE FlagIsSound(other[i].event)
  <2>1. i \in 1 .. n
    BY <1>2, <1>6, <1>13 DEF Uncovered
  <2>2. i # n
    BY <1>2, <1>6, <1>13 DEF Uncovered
  <2>3. other[i] = st[i] /\ other[i + 1] = called[i + 1]
    BY <2>1, <2>2, <1>2, <1>3, <1>6
  <2>4. Uncovered(called, i)
    BY <2>1, <2>2, <2>3, <1>2, <1>3, <1>6, <1>13 DEF Uncovered
  <2> QED
    BY <2>1, <2>3, <2>4, <1>2, <1>8 DEF Steady
<1> QED
  BY <1>5, <1>6, <1>10, <1>12, <1>13 DEF Steady, other

\* The frame on top is gone.
LEMMA EndSteady ==
    ASSUME NEW st, Alternates(st), Depth(st) <= MaxPublishDepth, st # <<>>,
           \A i \in DOMAIN st : i < Len(st) - 1 /\ Uncovered(st, i) => FlagIsSound(st[i].event),
           Len(st) > 1 /\ IsPublish(st[Len(st) - 1]) => FlagIsSound(st[Len(st) - 1].event)
    PROVE Steady(Front(st))
<1> DEFINE other == Front(st)
           n == Len(st)
<1>1. st \in Seq(Range(st))
  BY DEF Alternates
<1>2. /\ other \in Seq(Range(other)) /\ n \in Nat \ {0} /\ DOMAIN st = 1 .. n
      /\ Len(other) = n - 1 /\ DOMAIN other = 1 .. n - 1
      /\ \A i \in DOMAIN other : other[i] = st[i]
  BY <1>1, PopIs
<1> HIDE DEF other, n
<1>3. Alternates(other)
  <2> SUFFICES ASSUME NEW i \in 1 .. n - 1
               PROVE /\ "kind" \in DOMAIN other[i]
                     /\ IsPublish(other[i]) <=> (i = 1 \/ ~IsPublish(other[i - 1]))
                     /\ IsPublish(other[i]) =>
                           /\ {"event", "todo"} \subseteq DOMAIN other[i]
                           /\ {"cancellable", "cancelled"} \subseteq DOMAIN other[i].event
    BY <1>2 DEF Alternates
  <2>1. i \in DOMAIN st /\ other[i] = st[i] /\ (i # 1 => other[i - 1] = st[i - 1])
    BY <1>2
  <2> QED
    BY <2>1 DEF Alternates
<1>4. Publishes(other) \subseteq Publishes(st)
  BY <1>2 DEF Publishes
<1>5. Depth(other) <= MaxPublishDepth
  <2>1. Depth(other) <= Depth(st)
    BY <1>3, <1>4, DepthFalls
  <2> QED
    BY <2>1, <1>3, DepthIs, DepthAssumption
<1>6. ASSUME NEW i \in 1 .. n - 1, Uncovered(other, i) PROVE FlagIsSound(other[i].event)
  <2>1. CASE i = n - 1
    <3>1. IsPublish(st[n - 1]) /\ n > 1 /\ other[i] = st[n - 1]
      BY <2>1, <1>2, <1>6 DEF Uncovered
    <3> QED
      BY <3>1 DEF n
  <2>2. CASE i < n - 1
    <3>1. i \in DOMAIN st /\ i + 1 \in DOMAIN other /\ i # Len(other)
      BY <2>2, <1>2
    <3>2. other[i] = st[i] /\ other[i + 1] = st[i + 1]
      BY <3>1, <1>2
    <3>3. Uncovered(st, i)
      BY <3>1, <3>2, <1>6 DEF Uncovered
    <3> QED
      BY <2>2, <3>1, <3>2, <3>3 DEF n
  <2> QED
    BY <2>1, <2>2, <1>2
<1> QED
  BY <1>2, <1>3, <1>5, <1>6 DEF Steady, other

\* A listener comes back, and its publish looks at the flag.
LEMMA ReturnSteady ==
    ASSUME NEW st, Steady(st), st # <<>>, ~IsPublish(Last(st))
    PROVE Steady(Returned(st))
<1> DEFINE n == Len(st)
           k == n - 1
           top == [st[k] EXCEPT !.event.cancelled = @ /\ st[k].event.cancellable]
           looked == [st EXCEPT ![k] = top]
<1>1. Alternates(st) /\ st \in Seq(Range(st))
  BY DEF Steady, Alternates
<1>2. /\ n \in Nat \ {0} /\ DOMAIN st = 1 .. n /\ Last(st) = st[n]
      /\ k \in DOMAIN st /\ IsPublish(st[k])
  BY <1>1, LengthIs, CoveredIs
<1>3. /\ Alike(top, st[k]) /\ FlagIsSound(top.event)
  <2>1. {"kind", "event"} \subseteq DOMAIN st[k] /\ {"cancellable", "cancelled"} \subseteq DOMAIN st[k].event
    BY <1>1, <1>2 DEF Alternates
  <2> DEFINE flag == st[k].event.cancelled /\ st[k].event.cancellable
  <2>2. top.event = [st[k].event EXCEPT !.cancelled = flag]
    BY <2>1
  <2>3. DOMAIN top = DOMAIN st[k] /\ top.kind = st[k].kind
    BY <2>1
  <2>4. top.event.cancelled = flag /\ top.event.cancellable = st[k].event.cancellable
        /\ DOMAIN top.event = DOMAIN st[k].event
    BY <2>1, <2>2
  <2> QED
    BY <2>3, <2>4 DEF Alike, FlagIsSound
<1> HIDE DEF top
<1>4. /\ looked \in Seq(Range(looked)) /\ Len(looked) = n /\ DOMAIN looked = 1 .. n
      /\ looked[k] = top /\ \A i \in DOMAIN st : i # k => looked[i] = st[i]
  <2>1. k \in DOMAIN st
    BY <1>2
  <2> QED
    BY <1>1, <2>1, RewriteIs
<1> HIDE DEF looked
<1>5. \A i \in DOMAIN st : Alike(looked[i], st[i])
  BY <1>2, <1>3, <1>4 DEF Alike
<1>6. /\ Alternates(looked) /\ Publishes(looked) = Publishes(st)
      /\ \A i \in DOMAIN st : Uncovered(looked, i) <=> Uncovered(st, i)
  BY <1>1, <1>2, <1>4, <1>5, RewrittenAlternates
<1>7. Depth(looked) <= MaxPublishDepth
  <2>1. Depth(looked) <= Depth(st)
    BY <1>1, <1>6, DepthFalls
  <2> QED
    BY <2>1, <1>1, <1>6, DepthIs, DepthAssumption DEF Steady
<1>8. looked # <<>>
  BY <1>2, <1>4
<1>9. Steady(Front(looked))
  <2>1. \A i \in DOMAIN looked : i < Len(looked) - 1 /\ Uncovered(looked, i)
                                   => FlagIsSound(looked[i].event)
    BY <1>2, <1>4, <1>6 DEF Steady
  <2>2. FlagIsSound(looked[Len(looked) - 1].event)
    BY <1>3, <1>4
  <2> QED
    BY <2>1, <2>2, <1>6, <1>7, <1>8, EndSteady
<1>10. Front(looked) = Returned(st)
  <2> DEFINE below == Front(st)
  <2>1. /\ below \in Seq(Range(below)) /\ Len(below) = k /\ DOMAIN below = 1 .. k
        /\ \A i \in DOMAIN below : below[i] = st[i]
    BY <1>1, PopIs
  <2>2. /\ Front(looked) \in Seq(Range(Front(looked))) /\ DOMAIN Front(looked) = 1 .. k
        /\ Len(Front(looked)) = k
        /\ \A i \in 1 .. k : Front(looked)[i] = looked[i]
    BY <1>4, <1>8, PopIs
  <2> DEFINE back == [below EXCEPT ![k] = top]
  <2> HIDE DEF below
  <2>3. k \in DOMAIN below /\ below[k] = st[k] /\ Last(below) = st[k]
    <3>1. Last(below) = below[Len(below)]
      BY DEF Last
    <3> QED
      BY <3>1, <2>1, <1>2
  <2>4. back = Returned(st)
    BY <2>1, <2>3 DEF back, below, top, Returned
  <2>5. /\ back \in Seq(Range(back)) /\ Len(back) = k /\ DOMAIN back = 1 .. k
        /\ back[k] = top /\ \A i \in DOMAIN below : i # k => back[i] = below[i]
    <3>1. k \in DOMAIN below /\ below \in Seq(Range(below))
      BY <2>1, <2>3
    <3>2. Len(back) = Len(below) /\ DOMAIN back = 1 .. Len(below) /\ back \in Seq(Range(back))
          /\ back[k] = top /\ \A i \in DOMAIN below : i # k => back[i] = below[i]
      BY <3>1, RewriteIs
    <3> QED
      BY <3>2, <2>1
  <2> HIDE DEF back
  <2>6. \A i \in 1 .. k : back[i] = Front(looked)[i]
    BY <2>1, <2>2, <2>5, <1>2, <1>4
  <2>7. back = Front(looked)
    BY <2>2, <2>5, <2>6
  <2> QED
    BY <2>4, <2>7
<1> QED
  BY <1>9, <1>10

\* The loop of the publish on top is over.
LEMMA PublishEndsSteady ==
    ASSUME NEW st, Steady(st), st # <<>>, IsPublish(Last(st)) PROVE Steady(Front(st))
<1>1. Alternates(st)
  BY DEF Steady
<1>2. Len(st) \in Nat \ {0} /\ DOMAIN st = 1 .. Len(st) /\ IsPublish(st[Len(st)])
  BY <1>1, LengthIs
<1>3. Len(st) > 1 => ~IsPublish(st[Len(st) - 1])
  <2>1. Len(st) \in DOMAIN st
    BY <1>2
  <2> QED
    BY <2>1, <1>1, <1>2 DEF Alternates
<1> QED
  BY <1>1, <1>2, <1>3, EndSteady DEF Steady

\* The host, a plugin or a rule publishes below the cap.
LEMMA PublishSteady ==
    ASSUME NEW st, Steady(st), st = <<>> \/ ~IsPublish(Last(st)), NEW table, NEW event,
           PublishResult(st, table, event) = "Dispatched",
           {"cancellable", "cancelled"} \subseteq DOMAIN event, event.cancelled = FALSE
    PROVE Steady(Published(st, table, event))
<1> DEFINE listeners == [i \in DOMAIN table[event.id] |-> table[event.id][i].listener]
           frame == PublishFrame(event, listeners)
           n == Len(st)
           other == Append(st, frame)
<1>1. Alternates(st) /\ st \in Seq(Range(st))
  BY DEF Steady, Alternates
<1>2. Depth(st) < MaxPublishDepth
  BY <1>1, DepthIs, DepthAssumption DEF PublishResult
<1> HIDE DEF listeners
<1>3. /\ DOMAIN frame = {"kind", "event", "todo"} /\ IsPublish(frame) /\ frame.event = event
  BY DEF PublishFrame, IsPublish
<1>4. other = Published(st, table, event)
  BY DEF Published, listeners
<1> HIDE DEF frame
<1>5. /\ other \in Seq(Range(other)) /\ n \in Nat /\ DOMAIN st = 1 .. n
      /\ Len(other) = n + 1 /\ DOMAIN other = 1 .. n + 1
      /\ \A i \in DOMAIN st : other[i] = st[i]
      /\ other[n + 1] = frame
  BY <1>1, PushIs
<1>6. n # 0 => ~IsPublish(st[n])
  BY <1>1, LengthIs
<1>11. n = Len(st)
  OBVIOUS
<1> HIDE DEF other, n
<1>7. Alternates(other)
  <2> SUFFICES ASSUME NEW i \in 1 .. n + 1
               PROVE /\ "kind" \in DOMAIN other[i]
                     /\ IsPublish(other[i]) <=> (i = 1 \/ ~IsPublish(other[i - 1]))
                     /\ IsPublish(other[i]) =>
                           /\ {"event", "todo"} \subseteq DOMAIN other[i]
                           /\ {"cancellable", "cancelled"} \subseteq DOMAIN other[i].event
    BY <1>5 DEF Alternates
  <2>1. CASE i = n + 1
    <3>1. other[i] = frame
      BY <2>1, <1>5
    <3>2. i = 1 \/ ~IsPublish(other[i - 1])
      <4>1. n # 0 => other[n] = st[n] /\ i - 1 = n
        BY <2>1, <1>5
      <4> QED
        BY <4>1, <2>1, <1>5, <1>6
    <3> QED
      BY <3>1, <3>2, <1>3
  <2>2. CASE i \in 1 .. n
    <3>1. /\ "kind" \in DOMAIN st[i]
          /\ IsPublish(st[i]) <=> (i = 1 \/ ~IsPublish(st[i - 1]))
          /\ IsPublish(st[i]) => /\ {"event", "todo"} \subseteq DOMAIN st[i]
                                 /\ {"cancellable", "cancelled"} \subseteq DOMAIN st[i].event
      BY <2>2, <1>1, <1>5 DEF Alternates
    <3>2. other[i] = st[i] /\ (i # 1 => other[i - 1] = st[i - 1])
      BY <2>2, <1>5
    <3> QED
      BY <3>1, <3>2
  <2> QED
    BY <2>1, <2>2, <1>5
<1>8. Publishes(other) = Publishes(st) \cup {n + 1} /\ n + 1 \notin Publishes(st)
  <2>1. \A i \in 1 .. n : IsPublish(other[i]) <=> IsPublish(st[i])
    BY <1>5
  <2>2. IsPublish(other[n + 1])
    BY <1>3, <1>5
  <2>3. DOMAIN other = DOMAIN st \cup {n + 1} /\ n + 1 \notin DOMAIN st
    BY <1>5
  <2> QED
    BY <2>1, <2>2, <2>3, <1>5 DEF Publishes
<1>9. Depth(other) <= MaxPublishDepth
  <2>1. Depth(other) = Depth(st) + 1
    BY <1>1, <1>7, <1>8, DepthGrows
  <2> QED
    BY <2>1, <1>1, <1>2, DepthIs, DepthAssumption
<1>10. ASSUME NEW i \in 1 .. n + 1, Uncovered(other, i) PROVE FlagIsSound(other[i].event)
  <2>1. CASE i = n + 1
    BY <2>1, <1>3, <1>5 DEF FlagIsSound
  <2>2. CASE i \in 1 .. n
    <3>1. other[i] = st[i] /\ (i # n => i + 1 \in 1 .. n /\ other[i + 1] = st[i + 1])
      BY <2>2, <1>5
    <3>2. Uncovered(st, i)
      <4>1. IsPublish(st[i]) /\ i # Len(other) /\ IsPublish(other[i + 1])
        BY <3>1, <2>2, <1>5, <1>10 DEF Uncovered
      <4>2. i = Len(st) \/ IsPublish(st[i + 1])
        BY <4>1, <3>1, <2>2, <1>11
      <4> QED
        BY <4>1, <4>2 DEF Uncovered
    <3> QED
      BY <3>1, <3>2, <2>2, <1>5 DEF Steady
  <2> QED
    BY <2>1, <2>2, <1>5
<1> QED
  BY <1>4, <1>5, <1>7, <1>9, <1>10 DEF Steady

-----------------------------------------------------------------------------
(* The steps                                                                 *)

\* publish() as the caller sees it, who is nobody or a listener.
LEMMA PublishKeepsSteady ==
    ASSUME Steady(stack), stack = <<>> \/ ~IsPublish(Last(stack)), NEW table,
           NEW id, NEW uuid, NEW cancellable, NEW payload,
           PublishOn(table, Event(id, uuid, cancellable, payload))
    PROVE Steady(stack')
<1> DEFINE event == Event(id, uuid, cancellable, payload)
<1>1. {"cancellable", "cancelled"} \subseteq DOMAIN event /\ event.cancelled = FALSE
  BY DEF Event
<1> HIDE DEF event
<1>2. \/ stack' = stack
      \/ /\ PublishResult(stack, table, event) = "Dispatched"
         /\ stack' = Published(stack, table, event)
  BY DEF PublishOn, event
<1> QED
  BY <1>1, <1>2, PublishSteady

LEMMA CallerIsListener ==
    ASSUME Steady(stack), CallerRuns PROVE stack = <<>> \/ ~IsPublish(Last(stack))
BY DEF CallerRuns, HostRuns, Idle, Top, IsPublish

LEMMA OnEventSteady == ASSUME Steady(stack), OnEvent PROVE Steady(stack')
<1> DEFINE event == Top.event
           copy == OrderedRules(event)
           frame == [kind |-> "service", todo |-> IF event.cancelled THEN <<>> ELSE copy,
                     ctx |-> BuildContext(event), event |-> event, rule |-> <<>>,
                     actions |-> <<>>]
<1>1. stack' = Append(Calling(stack), frame) /\ stack # <<>> /\ IsPublish(Last(stack))
  BY DEF OnEvent, AtPublish, Idle, Top
<1> HIDE DEF copy
<1>2. "kind" \in DOMAIN frame /\ ~IsPublish(frame)
  BY DEF IsPublish
<1> HIDE DEF frame
<1> QED
  BY <1>1, <1>2, CallSteady

LEMMA OnPluginSteady == ASSUME Steady(stack), OnPlugin PROVE Steady(stack')
<1> DEFINE frame == [kind |-> "plugin", owner |-> NextListener]
<1>1. stack' = Append(Calling(stack), frame) /\ stack # <<>> /\ IsPublish(Last(stack))
  BY DEF OnPlugin, AtPublish, Idle, Top
<1>2. "kind" \in DOMAIN frame /\ ~IsPublish(frame)
  BY DEF IsPublish
<1> HIDE DEF frame
<1> QED
  BY <1>1, <1>2, CallSteady

\* The service writes fields of its own frame.
LEMMA ServiceFrame ==
    ASSUME Steady(stack), AtService
    PROVE /\ stack # <<>> /\ ~IsPublish(Last(stack)) /\ Last(stack) = stack[Len(stack)]
          /\ Len(stack) \in DOMAIN stack /\ "kind" \in DOMAIN Last(stack)
<1>1. stack # <<>> /\ ~IsPublish(Last(stack))
  BY DEF AtService, Idle, Top, IsPublish
<1>2. Alternates(stack)
  BY DEF Steady
<1>3. Last(stack) = stack[Len(stack)] /\ Len(stack) \in DOMAIN stack
  BY <1>1, <1>2, LengthIs
<1> QED
  BY <1>1, <1>2, <1>3 DEF Alternates

LEMMA SkipRuleSteady == ASSUME Steady(stack), SkipRule PROVE Steady(stack')
<1> DEFINE frame == [Last(stack) EXCEPT !.todo = Tail(@)]
<1>1. /\ stack # <<>> /\ ~IsPublish(Last(stack)) /\ Last(stack) = stack[Len(stack)]
      /\ Len(stack) \in DOMAIN stack /\ "kind" \in DOMAIN Last(stack)
  BY ServiceFrame DEF SkipRule, AtRule
<1>2. stack' = [stack EXCEPT ![Len(stack)] = frame]
  BY <1>1 DEF SkipRule
<1>3. Alike(frame, Last(stack))
  BY <1>1 DEF Alike
<1> HIDE DEF frame
<1> QED
  BY <1>1, <1>2, <1>3, GoesOnSteady

LEMMA ActionsSteady ==
    ASSUME Steady(stack), AtService, NEW actions
    PROVE LET rest == [stack EXCEPT ![Len(stack)].actions = actions]
          IN  Steady(rest) /\ rest # <<>> /\ ~IsPublish(Last(rest))
<1> DEFINE frame == [Last(stack) EXCEPT !.actions = actions]
           rest == [stack EXCEPT ![Len(stack)].actions = actions]
<1>1. /\ stack # <<>> /\ ~IsPublish(Last(stack)) /\ Last(stack) = stack[Len(stack)]
      /\ Len(stack) \in DOMAIN stack /\ "kind" \in DOMAIN Last(stack)
  BY ServiceFrame
<1>2. rest = [stack EXCEPT ![Len(stack)] = frame]
  BY <1>1
<1>3. Alike(frame, Last(stack)) /\ ~IsPublish(frame)
  BY <1>1 DEF Alike, IsPublish
<1> HIDE DEF frame, rest
<1> QED
  BY <1>1, <1>2, <1>3, GoesOnSteady DEF rest

LEMMA ActSteady == ASSUME Steady(stack), NEW willing, Act(willing) PROVE Steady(stack')
BY ActionsSteady DEF Act, AtAction

LEMMA ActPublishSteady == ASSUME Steady(stack), ActPublish PROVE Steady(stack')
<1> DEFINE event == Event(Head(Top.actions)["event"].v, Top.event.uuid, FALSE, <<>>)
           result == PublishResult(stack, subs, event)
           actions == IF result \in {"Ok", "Dispatched"} THEN Tail(stack[Len(stack)].actions) ELSE <<>>
           rest == [stack EXCEPT ![Len(stack)].actions = actions]
<1>1. stack' = IF result = "Dispatched" THEN Published(rest, subs, event) ELSE rest
  BY DEF ActPublish
<1>2. {"cancellable", "cancelled"} \subseteq DOMAIN event /\ event.cancelled = FALSE
  BY DEF Event
<1>3. Steady(rest) /\ rest # <<>> /\ ~IsPublish(Last(rest))
  BY ActionsSteady DEF ActPublish, AtAction
<1>4. result = "Dispatched" => PublishResult(rest, subs, event) = "Dispatched"
  <2>1. Depth(rest) = Depth(stack)
    <3>1. /\ stack # <<>> /\ Last(stack) = stack[Len(stack)]
          /\ Len(stack) \in DOMAIN stack /\ "kind" \in DOMAIN Last(stack)
      BY ServiceFrame DEF ActPublish, AtAction
    <3>2. DOMAIN rest = DOMAIN stack /\ \A i \in DOMAIN stack : rest[i].kind = stack[i].kind
      BY <3>1
    <3> HIDE DEF rest
    <3> QED
      BY <3>2 DEF Depth, IsPublish
  <2> HIDE DEF rest, event
  <2> QED
    BY <2>1 DEF PublishResult
<1> HIDE DEF rest, event
<1> QED
  BY <1>1, <1>2, <1>3, <1>4, PublishSteady

LEMMA FireRuleSteady == ASSUME Steady(stack), FireRule PROVE Steady(stack')
<1> DEFINE rule == NextRule
           n == Len(stack)
           frame == [Last(stack) EXCEPT !.todo = Tail(@), !.rule = rule,
                                        !.actions = IF rule.dryRun THEN <<>> ELSE rule.actions]
           begun == [stack EXCEPT ![Len(stack)].todo = Tail(@),
                                  ![Len(stack)].rule = rule,
                                  ![Len(stack)].actions =
                                      IF rule.dryRun THEN <<>> ELSE rule.actions]
<1>1. /\ stack # <<>> /\ ~IsPublish(Last(stack)) /\ Last(stack) = stack[n]
      /\ n \in DOMAIN stack /\ "kind" \in DOMAIN Last(stack)
  BY ServiceFrame DEF FireRule, AtRule
<1>2. begun = [stack EXCEPT ![n] = frame]
  BY <1>1
<1>3. Alike(frame, Last(stack)) /\ ~IsPublish(frame)
  BY <1>1 DEF Alike, IsPublish
<1>4. stack' = IF rule.cancelDefault /\ ~rule.dryRun THEN Cancelled(begun) ELSE begun
  BY DEF FireRule
<1> HIDE DEF frame, begun, rule
<1>5. Steady(begun) /\ begun # <<>> /\ ~IsPublish(Last(begun))
  BY <1>1, <1>2, <1>3, GoesOnSteady
<1>6. Steady(Cancelled(begun))
  BY <1>5, ClaimSteady
<1> QED
  BY <1>4, <1>5, <1>6

LEMMA ServiceReturnsSteady == ASSUME Steady(stack), ServiceReturns PROVE Steady(stack')
BY ServiceFrame, ReturnSteady DEF ServiceReturns

LEMMA PluginReturnsSteady ==
    ASSUME Steady(stack), NEW claims, PluginReturns(claims) PROVE Steady(stack')
<1>1. stack # <<>> /\ ~IsPublish(Last(stack))
  BY DEF PluginReturns, Idle, Top, IsPublish
<1>2. Steady(Cancelled(stack)) /\ Cancelled(stack) # <<>> /\ ~IsPublish(Last(Cancelled(stack)))
  BY <1>1, ClaimSteady
<1>3. Steady(Returned(stack)) /\ Steady(Returned(Cancelled(stack)))
  BY <1>1, <1>2, ReturnSteady
<1> QED
  BY <1>3 DEF PluginReturns

LEMMA DispatchSteady == ASSUME Steady(stack), Dispatch PROVE Steady(stack')
<1>1. CASE OnEvent
  BY <1>1, OnEventSteady
<1>2. CASE OnPlugin
  BY <1>2, OnPluginSteady
<1>3. CASE SkipRule
  BY <1>3, SkipRuleSteady
<1>4. CASE FireRule
  BY <1>4, FireRuleSteady
<1>5. CASE ActPublish
  BY <1>5, ActPublishSteady
<1>6. CASE ServiceReturns
  BY <1>6, ServiceReturnsSteady
<1>7. CASE PublishReturns
  BY <1>7, PublishEndsSteady DEF PublishReturns, PublishEnds, AtPublish, Idle, Top
<1>8. ASSUME NEW b \in BOOLEAN, Act(b) PROVE Steady(stack')
  BY <1>8, ActSteady
<1>9. ASSUME NEW b \in BOOLEAN, PluginReturns(b) PROVE Steady(stack')
  BY <1>9, PluginReturnsSteady
<1> QED
  BY <1>1, <1>2, <1>3, <1>4, <1>5, <1>6, <1>7, <1>8, <1>9 DEF Dispatch

LEMMA EnvironmentSteady == ASSUME Steady(stack), Environment PROVE Steady(stack')
<1>1. ASSUME NEW h \in HostEvents, HostPublishes(h) PROVE Steady(stack')
  BY <1>1, CallerIsListener, PublishKeepsSteady DEF HostPublishes, Publish
<1>2. ASSUME NEW p \in Plugins, NEW e \in EventIds, PluginPublishes(p, e) PROVE Steady(stack')
  <2>1. stack = <<>> \/ ~IsPublish(Last(stack))
    BY <1>2 DEF PluginPublishes, Running, Called, Idle, Top, IsPublish
  <2> QED
    BY <1>2, <2>1, PublishKeepsSteady DEF PluginPublishes, Publish
<1>3. CASE Tick \/ SwitchWrites \/ NextEra
  BY <1>3 DEF Tick, SwitchWrites, NextEra
<1>4. ASSUME NEW p \in Plugins, StartPlugin(p) \/ InitializeFails(p) \/ ShutdownBegins(p)
      PROVE Steady(stack')
  BY <1>4 DEF StartPlugin, InitializeFails, ShutdownBegins
<1>9. ASSUME NEW p \in Plugins, InitializeReturns(p) \/ StopPlugin(p) PROVE Steady(stack')
  BY <1>9, PublishKeepsSteady DEF InitializeReturns, StopPlugin, Publish, PluginEvent, Idle
<1>5. ASSUME NEW p \in Plugins, NEW d \in Docs,
             RegisterPluginRule(p, d) \/ UnregisterPluginRule(p, Get(d, "id").v)
      PROVE Steady(stack')
  BY <1>5 DEF RegisterPluginRule, UnregisterPluginRule
<1>6. ASSUME NEW w \in Wanted,
             PluginUnsubscribes(w[1], w[2]) \/ PluginSubscribes(w[1], w[2], w[3])
      PROVE Steady(stack')
  BY <1>6 DEF PluginUnsubscribes, PluginSubscribes
<1>7. ASSUME NEW us \in SUBSET Uuids, NEW ok \in SUBSET Uuids, NEW new \in [us -> Rows],
             RosterChanged(new, ok)
      PROVE Steady(stack')
  BY <1>7 DEF RosterChanged
<1>8. ASSUME NEW u \in Uuids, NEW pack, InstanceStateChanged(u, pack) PROVE Steady(stack')
  BY <1>8 DEF InstanceStateChanged
<1> QED
  BY <1>1, <1>2, <1>3, <1>4, <1>5, <1>6, <1>7, <1>8, <1>9 DEF Environment

LEMMA DispatchInitially == RuleInit => DispatchInv
<1> SUFFICES ASSUME stack = <<>> PROVE Steady(stack)
  BY SteadyIs DEF RuleInit
<1>1. stack \in Seq(Range(stack)) /\ DOMAIN stack = {}
  OBVIOUS
<1>2. Alternates(stack)
  BY <1>1 DEF Alternates
<1>3. Publishes(stack) = {}
  BY <1>1 DEF Publishes
<1>4. Depth(stack) = 0
  BY <1>2, <1>3, DepthIs, FS_EmptySet
<1> QED
  BY <1>1, <1>2, <1>4, DepthAssumption DEF Steady

LEMMA DispatchInductive == DispatchInv /\ [RuleNext]_ruleVars => DispatchInv'
<1> SUFFICES ASSUME DispatchInv, [RuleNext]_ruleVars PROVE Steady(stack')
  <2>1. DispatchInv' <=> Steady(stack')
    BY DEF DispatchInv, DispatchIsSound, Steady, Uncovered
  <2> QED
    BY <2>1
<1>1. Steady(stack)
  BY SteadyIs
<1>2. CASE UNCHANGED ruleVars
  BY <1>1, <1>2 DEF ruleVars
<1>3. CASE Dispatch
  BY <1>1, <1>3, DispatchSteady
<1>4. CASE Environment
  BY <1>1, <1>4, EnvironmentSteady
<1> QED
  BY <1>2, <1>3, <1>4 DEF RuleNext

\* However listeners publish from within a dispatch, and whatever they write
\* to its flag: publishes and listeners alternate on the stack.
THEOREM DispatchInvHolds == RuleSpec => []DispatchInv
BY DispatchInitially, DispatchInductive, PTL DEF RuleSpec

\* The cap of nested publishes holds, and between two listeners no event that
\* cannot be cancelled carries the flag.
THEOREM DispatchIsSoundHolds == RuleSpec => []DispatchIsSound
BY DispatchInvHolds, PTL DEF DispatchInv

-----------------------------------------------------------------------------
(* Lists *)

\* The first n values of list are the members of S.
Enumerates(list, n, S) ==
    n \in Nat /\ list \in [1 .. n -> S] /\ \A y \in S : \E k \in 1 .. n : list[k] = y

\* What is gathered from entries at the places S: those, and nothing else.
Gathers(got, entries, S, E) ==
    /\ got \in Seq(E)
    /\ \A k \in DOMAIN got : \E i \in S : got[k] = entries[i]
    /\ \A i \in S : \E k \in DOMAIN got : got[k] = entries[i]

\* A set is listed once each by an order that is one: the places of its
\* members are as many different numbers as there are members.
LEMMA ListedIs ==
    ASSUME NEW S, IsFiniteSet(S), NEW upto,
           \A x, y, z \in S : <<x, y>> \in upto /\ <<y, z>> \in upto => <<x, z>> \in upto,
           \A x, y \in S : <<x, y>> \in upto \/ <<y, x>> \in upto,
           \A x, y \in S : <<x, y>> \in upto /\ <<y, x>> \in upto => x = y
    PROVE  Enumerates(Listed(S, upto), Cardinality(S), S)
<1> DEFINE Below(y) == {x \in S : <<x, y>> \in upto}
           n == Cardinality(S)
           place == [y \in S |-> Cardinality(Below(y))]
<1>1. n \in Nat
  BY FS_CardinalityType
<1>2. ASSUME NEW y \in S
      PROVE IsFiniteSet(Below(y)) /\ Below(y) \subseteq S /\ y \in Below(y)
            /\ place[y] \in 1 .. n
  <2>1. Below(y) \in SUBSET S /\ y \in Below(y)
    OBVIOUS
  <2>2. IsFiniteSet(Below(y)) /\ Cardinality(Below(y)) <= n
    BY <2>1, FS_Subset
  <2>3. Cardinality(Below(y)) \in Nat /\ Cardinality(Below(y)) # 0
    BY <2>1, <2>2, FS_CardinalityType, FS_EmptySet
  <2> QED
    BY <1>1, <2>1, <2>2, <2>3
<1>3. ASSUME NEW x \in S, NEW y \in S, x # y, <<x, y>> \in upto PROVE place[x] # place[y]
  <2>1. Below(x) \subseteq Below(y) /\ y \in Below(y) /\ y \notin Below(x)
    BY <1>3
  <2>2. IsFiniteSet(Below(y)) /\ Below(x) \in SUBSET Below(y)
    BY <1>2, <2>1
  <2> HIDE DEF Below
  <2>3. Cardinality(Below(y)) # Cardinality(Below(x))
    BY <2>1, <2>2, FS_Subset
  <2> QED
    BY <2>3
<1>4. place \in Injection(S, 1 .. n)
  <2>1. place \in [S -> 1 .. n]
    BY <1>2
  <2>2. \A x, y \in S : place[x] = place[y] => x = y
    BY <1>3
  <2> HIDE DEF place
  <2> QED
    BY <2>1, <2>2 DEF Injection, IsInjective
<1>5. place \in Surjection(S, 1 .. n)
  <2>1. IsFiniteSet(1 .. n) /\ Cardinality(1 .. n) = n
    BY <1>1, FS_Interval
  <2> HIDE DEF place
  <2> QED
    BY <1>4, <2>1, FS_Injection
<1>6. \A k \in 1 .. n : \E y \in S : place[y] = k
  BY <1>5 DEF Surjection
<1>7. \A k \in 1 .. n : Listed(S, upto)[k] \in S /\ place[Listed(S, upto)[k]] = k
  <2> SUFFICES ASSUME NEW k \in 1 .. n PROVE Listed(S, upto)[k] \in S /\ place[Listed(S, upto)[k]] = k
    OBVIOUS
  <2>1. Listed(S, upto)[k] = CHOOSE y \in S : Cardinality(Below(y)) = k
    BY DEF Listed
  <2>2. \E y \in S : Cardinality(Below(y)) = k
    BY <1>6
  <2> HIDE DEF Below
  <2> QED
    BY <2>1, <2>2
<1>8. ASSUME NEW y \in S PROVE \E k \in 1 .. n : Listed(S, upto)[k] = y
  <2>1. place[y] \in 1 .. n
    BY <1>2
  <2>2. place[Listed(S, upto)[place[y]]] = place[y] /\ Listed(S, upto)[place[y]] \in S
    BY <1>7, <2>1
  <2> HIDE DEF place
  <2>3. Listed(S, upto)[place[y]] = y
    BY <1>4, <2>2 DEF Injection, IsInjective
  <2> QED
    BY <2>1, <2>3
<1>9. Listed(S, upto) \in [1 .. n -> S]
  <2> DEFINE pick(k) == CHOOSE y \in S : Cardinality(Below(y)) = k
             list == [k \in 1 .. n |-> pick(k)]
  <2>1. Listed(S, upto) = list
    BY DEF Listed
  <2> HIDE DEF pick
  <2>2. \A k \in 1 .. n : list[k] = pick(k)
    OBVIOUS
  <2>3. \A k \in 1 .. n : pick(k) \in S
    <3> SUFFICES ASSUME NEW k \in 1 .. n PROVE pick(k) \in S
      OBVIOUS
    <3>1. Listed(S, upto)[k] = pick(k)
      BY <2>1, <2>2
    <3>2. Listed(S, upto)[k] \in S
      BY <1>7
    <3> QED
      BY <3>1, <3>2
  <2>4. list \in [1 .. n -> S]
    BY <2>3
  <2> QED
    BY <2>1, <2>4
<1> QED
  BY <1>1, <1>8, <1>9 DEF Enumerates

\* The entries at some places, each of them once.
LEMMA EntriesAtIs ==
    ASSUME NEW E, NEW entries \in Seq(E), NEW S, S \subseteq DOMAIN entries, NEW n,
           NEW places, Enumerates(places, n, S)
    PROVE  Gathers(EntriesAt(entries, places), entries, S, E)
<1>1. /\ \A i \in S : entries[i] \in E
      /\ n \in Nat /\ places \in [1 .. n -> S]
      /\ \A i \in S : \E k \in 1 .. n : places[k] = i
  BY DEF Enumerates
<1>2. EntriesAt(entries, places) = [k \in 1 .. n |-> entries[places[k]]]
  BY <1>1 DEF EntriesAt
<1> DEFINE got == [k \in 1 .. n |-> entries[places[k]]]
<1>3. \A k \in 1 .. n : places[k] \in S /\ got[k] = entries[places[k]]
  BY <1>1
<1>4. got \in [1 .. n -> E] /\ DOMAIN got = 1 .. n
  BY <1>1, <1>3
<1>5. got \in Seq(E)
  BY <1>1, <1>4
<1>6. \A i \in S : \E k \in 1 .. n : got[k] = entries[i]
  BY <1>1, <1>3
<1> HIDE DEF got
<1>7. EntriesAt(entries, places) = got
  BY <1>2 DEF got
<1> QED
  BY <1>3, <1>4, <1>5, <1>6, <1>7 DEF Gathers

\* A sort keeps the entries.
LEMMA ByPriorityIs ==
    ASSUME NEW E, NEW entries \in Seq(E), \A e \in E : e.priority \in Int
    PROVE  Gathers(ByPriority(entries), entries, DOMAIN entries, E)
<1> DEFINE all == DOMAIN entries
           upto == {p \in all \X all :
                       \/ entries[p[1]].priority < entries[p[2]].priority
                       \/ entries[p[1]].priority = entries[p[2]].priority /\ p[1] <= p[2]}
           places == Listed(all, upto)
<1>1. /\ all = 1 .. Len(entries) /\ Len(entries) \in Nat
      /\ \A i \in all : i \in Int /\ entries[i].priority \in Int
  OBVIOUS
<1>2. IsFiniteSet(all)
  BY <1>1, FS_Interval
<1> DEFINE rank == [i \in all |-> entries[i].priority]
<1>3. /\ \A i \in all : rank[i] \in Int
      /\ \A i, j \in all : <<i, j>> \in upto <=> rank[i] < rank[j] \/ (rank[i] = rank[j] /\ i <= j)
  BY <1>1
<1> HIDE DEF rank
<1> HIDE DEF upto
<1>4. Enumerates(places, Cardinality(all), all)
  <2>1. ASSUME NEW x \in all, NEW y \in all, NEW z \in all,
               <<x, y>> \in upto, <<y, z>> \in upto
        PROVE  <<x, z>> \in upto
    BY <1>1, <1>3, <2>1
  <2>2. ASSUME NEW x \in all, NEW y \in all
        PROVE  <<x, y>> \in upto \/ <<y, x>> \in upto
    <3>1. x \in Int /\ y \in Int /\ rank[x] \in Int /\ rank[y] \in Int
      BY <1>1, <1>3
    <3>2. (rank[x] < rank[y] \/ (rank[x] = rank[y] /\ x <= y))
          \/ (rank[y] < rank[x] \/ (rank[y] = rank[x] /\ y <= x))
      BY <3>1
    <3> QED
      BY <1>3, <3>2
  <2>3. \A x, y \in all : <<x, y>> \in upto /\ <<y, x>> \in upto => x = y
    BY <1>1, <1>3
  <2> HIDE DEF all
  <2> QED
    BY <1>2, <2>1, <2>2, <2>3, ListedIs
<1>5. ByPriority(entries) = EntriesAt(entries, places)
  BY DEF ByPriority, upto
<1> HIDE DEF places
<1> QED
  BY <1>4, <1>5, EntriesAtIs

\* What is kept is kept once, and nothing else.
LEMMA KeepingIs ==
    ASSUME NEW E, NEW entries \in Seq(E), NEW S, S \subseteq DOMAIN entries
    PROVE  Gathers(Keeping(entries, S), entries, S, E)
<1> DEFINE upto == {p \in S \X S : p[1] <= p[2]}
           places == Listed(S, upto)
<1>1. /\ DOMAIN entries = 1 .. Len(entries) /\ Len(entries) \in Nat
      /\ \A i \in S : i \in Int
  OBVIOUS
<1>2. IsFiniteSet(S)
  <2>1. IsFiniteSet(1 .. Len(entries)) /\ S \in SUBSET (1 .. Len(entries))
    BY <1>1, FS_Interval
  <2> QED
    BY <2>1, FS_Subset
<1>3. \A i, j \in S : <<i, j>> \in upto <=> i <= j
  OBVIOUS
<1> HIDE DEF upto
<1>4. Enumerates(places, Cardinality(S), S)
  <2>1. ASSUME NEW x \in S, NEW y \in S, NEW z \in S,
               <<x, y>> \in upto, <<y, z>> \in upto
        PROVE  <<x, z>> \in upto
    BY <1>1, <1>3, <2>1
  <2>2. ASSUME NEW x \in S, NEW y \in S
        PROVE  <<x, y>> \in upto \/ <<y, x>> \in upto
    <3>1. x <= y \/ y <= x
      BY <1>1
    <3> QED
      BY <1>3, <3>1
  <2>3. \A x, y \in S : <<x, y>> \in upto /\ <<y, x>> \in upto => x = y
    BY <1>1, <1>3
  <2> QED
    BY <1>2, <2>1, <2>2, <2>3, ListedIs
<1>5. Keeping(entries, S) = EntriesAt(entries, places)
  BY DEF Keeping, upto
<1> HIDE DEF places
<1> QED
  BY <1>4, <1>5, EntriesAtIs

-----------------------------------------------------------------------------
(* The table of the bus                                                      *)

Entries == [listener : {Service} \cup Plugins, priority : 0..Lowest,
            publisher : {Host} \cup Plugins]

RowIsSound(row) ==
    /\ row \in Seq(Entries)
    /\ \A i \in DOMAIN row : row[i].listener = Service => row[i].publisher = Host

SoundTable(table) ==
    /\ table \in [EventIds -> Seq(Entries)]
    /\ \A id \in EventIds : RowIsSound(table[id])

Hears(row) == \E i \in DOMAIN row : row[i].listener = Service

\* The service hears these events, and no others.
HearsJust(table, ids) == \A id \in EventIds : id \in ids <=> Hears(table[id])

LEMMA TableIs == TableIsSound <=> SoundTable(subs)
BY DEF TableIsSound, SoundTable, RowIsSound, Entries

LEMMA GatheredIsSound ==
    ASSUME NEW row, RowIsSound(row), NEW S, S \subseteq DOMAIN row, NEW got,
           Gathers(got, row, S, Entries)
    PROVE  RowIsSound(got) /\ (Hears(got) <=> \E i \in S : row[i].listener = Service)
BY DEF RowIsSound, Gathers, Hears

\* A listener that was there keeps its place, another comes last.
LEMMA MergedIsSound ==
    ASSUME NEW row, RowIsSound(row), NEW new \in Entries,
           new.listener = Service => new.publisher = Host
    PROVE  /\ RowIsSound(Merged(row, new))
           /\ Hears(Merged(row, new)) <=> Hears(row) \/ new.listener = Service
<1>1. row \in Seq(Entries) /\ DOMAIN row = 1 .. Len(row) /\ Len(row) \in Nat
  BY DEF RowIsSound
<1>2. CASE \E i \in DOMAIN row : row[i].listener = new.listener
  <2> DEFINE got == [i \in DOMAIN row |-> IF row[i].listener = new.listener THEN new ELSE row[i]]
  <2>1. Merged(row, new) = got
    BY <1>2 DEF Merged
  <2>2. /\ got \in Seq(Entries) /\ DOMAIN got = DOMAIN row
        /\ \A i \in DOMAIN row :
              got[i] = IF row[i].listener = new.listener THEN new ELSE row[i]
    BY <1>1
  <2> HIDE DEF got
  <2> QED
    BY <1>2, <2>1, <2>2 DEF RowIsSound, Hears
<1>3. CASE ~\E i \in DOMAIN row : row[i].listener = new.listener
  <2> DEFINE got == Append(row, new)
  <2>1. Merged(row, new) = got
    BY <1>3 DEF Merged
  <2>2. /\ got \in Seq(Entries) /\ DOMAIN got = DOMAIN row \cup {Len(row) + 1}
        /\ \A i \in DOMAIN row : got[i] = row[i]
        /\ got[Len(row) + 1] = new
    BY <1>1
  <2> HIDE DEF got
  <2> QED
    BY <2>1, <2>2 DEF RowIsSound, Hears
<1> QED
  BY <1>2, <1>3

LEMMA SubscribedIs ==
    ASSUME NEW table, SoundTable(table), NEW e \in EventIds,
           NEW listener \in {Service} \cup Plugins, NEW priority \in 0..Lowest,
           NEW publisher \in {Host} \cup Plugins,
           listener = Service => publisher = Host
    PROVE  LET new == Subscribed(table, e, listener, priority, publisher)
           IN  /\ SoundTable(new)
               /\ \A id \in EventIds : id # e => new[id] = table[id]
               /\ Hears(new[e]) <=>
                     Hears(table[e]) \/ (IsValidEventId(e) /\ listener = Service)
<1> DEFINE entry == Entry(listener, priority, publisher)
           merged == Merged(table[e], entry)
           row == ByPriority(merged)
<1>1. /\ entry \in Entries /\ entry.listener = listener
      /\ entry.listener = Service => entry.publisher = Host
  BY DEF Entry, Entries
<1> HIDE DEF entry
<1>2. /\ RowIsSound(merged)
      /\ Hears(merged) <=> Hears(table[e]) \/ listener = Service
  BY <1>1, MergedIsSound DEF SoundTable
<1> HIDE DEF merged
<1>3. RowIsSound(row) /\ (Hears(row) <=> Hears(merged))
  <2>1. \A x \in Entries : x.priority \in Int
    BY DEF Entries, Lowest
  <2>2. Gathers(row, merged, DOMAIN merged, Entries)
    BY <1>2, <2>1, ByPriorityIs DEF RowIsSound
  <2> HIDE DEF row
  <2>3. RowIsSound(row) /\ (Hears(row) <=> \E i \in DOMAIN merged : merged[i].listener = Service)
    BY <1>2, <2>2, GatheredIsSound
  <2> QED
    BY <2>3 DEF Hears
<1>4. Subscribed(table, e, listener, priority, publisher) =
         IF IsValidEventId(e) THEN [table EXCEPT ![e] = row] ELSE table
  BY DEF Subscribed, entry, merged
<1> HIDE DEF row
<1> QED
  BY <1>2, <1>3, <1>4 DEF SoundTable, RowIsSound

LEMMA UnsubscribedIs ==
    ASSUME NEW table, SoundTable(table), NEW e \in EventIds, NEW listener
    PROVE  LET new == Unsubscribed(table, e, listener)
           IN  /\ SoundTable(new)
               /\ \A id \in EventIds : id # e => new[id] = table[id]
               /\ Hears(new[e]) <=> Hears(table[e]) /\ listener # Service
<1> DEFINE S == {i \in DOMAIN table[e] : table[e][i].listener # listener}
           row == Keeping(table[e], S)
<1>1. RowIsSound(table[e])
  BY DEF SoundTable
<1>2. Gathers(row, table[e], S, Entries)
  BY <1>1, KeepingIs DEF RowIsSound
<1>3. Unsubscribed(table, e, listener) = [table EXCEPT ![e] = row]
  BY DEF Unsubscribed
<1>4. S \subseteq DOMAIN table[e]
  OBVIOUS
<1>5. (\E i \in S : table[e][i].listener = Service) <=> Hears(table[e]) /\ listener # Service
  BY DEF Hears
<1> HIDE DEF row, S
<1>6. RowIsSound(row) /\ (Hears(row) <=> \E i \in S : table[e][i].listener = Service)
  BY <1>1, <1>2, <1>4, GatheredIsSound
<1> QED
  BY <1>3, <1>5, <1>6 DEF SoundTable, RowIsSound

\* What a plugin published for is swept; the service's entries are the host's.
LEMMA UnsubscribedByPublisherIs ==
    ASSUME NEW table, SoundTable(table), NEW p \in Plugins
    PROVE  LET new == UnsubscribedByPublisher(table, p)
           IN  /\ SoundTable(new)
               /\ \A id \in EventIds : Hears(new[id]) <=> Hears(table[id])
<1> DEFINE S(id) == {i \in DOMAIN table[id] : table[id][i].publisher # p}
           row(id) == Keeping(table[id], S(id))
           new == UnsubscribedByPublisher(table, p)
<1>1. ASSUME NEW id \in EventIds PROVE RowIsSound(row(id)) /\ (Hears(row(id)) <=> Hears(table[id]))
  <2>1. RowIsSound(table[id])
    BY DEF SoundTable
  <2>2. Gathers(row(id), table[id], S(id), Entries)
    BY <2>1, KeepingIs DEF RowIsSound
  <2>3. S(id) \subseteq DOMAIN table[id]
    OBVIOUS
  <2>4. p # Host
    BY NamesAssumption
  <2>5. (\E i \in S(id) : table[id][i].listener = Service) <=> Hears(table[id])
    BY <2>1, <2>4 DEF Hears, RowIsSound
  <2> HIDE DEF row, S
  <2> QED
    BY <2>1, <2>2, <2>3, <2>5, GatheredIsSound
<1>2. new = [id \in EventIds |-> row(id)]
  BY DEF UnsubscribedByPublisher, SoundTable
<1> HIDE DEF row, new
<1>3. \A id \in EventIds : new[id] = row(id)
  BY <1>2
<1>4. new \in [EventIds -> Seq(Entries)]
  BY <1>1, <1>2 DEF RowIsSound
<1> QED
  BY <1>1, <1>3, <1>4 DEF SoundTable, new

LEMMA RecomputedIs ==
    ASSUME NEW table, SoundTable(table), HearsJust(table, subscribedIds), NEW e,
           \A id \in Desired(e) : IsValidEventId(id)
    PROVE  SoundTable(RecomputedSubs(table, e)) /\ HearsJust(RecomputedSubs(table, e), Desired(e))
<1> DEFINE on(id) == Subscribed(table, id, Service, Low, Host)
           off(id) == Unsubscribed(table, id, Service)
           row(id) == IF id \in Desired(e) \ subscribedIds THEN on(id)[id]
                      ELSE IF id \in subscribedIds \ Desired(e) THEN off(id)[id]
                      ELSE table[id]
           new == RecomputedSubs(table, e)
<1>1. ASSUME NEW id \in EventIds PROVE RowIsSound(row(id)) /\ (id \in Desired(e) <=> Hears(row(id)))
  <2>1. RowIsSound(table[id]) /\ (id \in subscribedIds <=> Hears(table[id]))
    BY DEF SoundTable, HearsJust
  <2>2. SoundTable(on(id)) /\ (Hears(on(id)[id]) <=> Hears(table[id]) \/ IsValidEventId(id))
    <3>1. Low \in 0..Lowest
      BY DEF Low, Lowest
    <3> QED
      BY <3>1, SubscribedIs
  <2>3. SoundTable(off(id)) /\ ~Hears(off(id)[id])
    BY UnsubscribedIs
  <2>4. RowIsSound(on(id)[id]) /\ RowIsSound(off(id)[id])
    BY <2>2, <2>3 DEF SoundTable
  <2> HIDE DEF on, off
  <2> QED
    BY <2>1, <2>2, <2>3, <2>4
<1>2. new = [id \in EventIds |-> row(id)]
  BY DEF RecomputedSubs, SoundTable
<1> HIDE DEF row, new
<1>3. \A id \in EventIds : new[id] = row(id)
  BY <1>2
<1>4. new \in [EventIds -> Seq(Entries)]
  BY <1>1, <1>2 DEF RowIsSound
<1> QED
  BY <1>1, <1>3, <1>4 DEF SoundTable, HearsJust, new

-----------------------------------------------------------------------------
(* The stored rules                                                          *)

LEMMA PrefixIs ==
    ASSUME NEW S, NEW s \in Seq(S), NEW t \in Seq(S), t # <<>>
    PROVE  IsStrictPrefix(s, s \o t) /\ s \o t \in Seq(S)
<1> DEFINE st == s \o t
<1>1. /\ st \in Seq(S) /\ Len(st) = Len(s) + Len(t) /\ Len(s) \in Nat /\ Len(t) \in Nat
      /\ Len(t) # 0 /\ \A i \in 1..Len(s) : st[i] = s[i]
      /\ s = [i \in 1..Len(s) |-> s[i]]
  OBVIOUS
<1> HIDE DEF st
<1>2. SubSeq(st, 1, Len(s)) = s
  <2>1. /\ SubSeq(st, 1, Len(s)) \in Seq(S) /\ Len(SubSeq(st, 1, Len(s))) = Len(s)
        /\ \A i \in 1..Len(s) : SubSeq(st, 1, Len(s))[i] = st[i]
    BY <1>1
  <2> QED
    BY <1>1, <2>1
<1>3. Len(s) <= Len(st) /\ s # st
  BY <1>1
<1>4. IsStrictPrefix(s, st)
  BY <1>2, <1>3 DEF IsStrictPrefix, IsPrefix
<1> QED
  BY <1>1, <1>4 DEF st

LEMMA ConcatIs ==
    ASSUME NEW S, NEW s \in Seq(S), NEW t \in Seq(S)
    PROVE  /\ s \o t \in Seq(S) /\ Len(s \o t) = Len(s) + Len(t)
           /\ \A i \in 1..Len(s) : (s \o t)[i] = s[i]
           /\ \A i \in 1..Len(t) : (s \o t)[Len(s) + i] = t[i]
OBVIOUS

LEMMA PairIs ==
    ASSUME NEW S, NEW x \in S, NEW y \in S
    PROVE  <<x, y>> \in Seq(S) /\ <<x>> \o <<y>> = <<x, y>>
<1>1. <<x, y>> \in Seq(S)
  OBVIOUS
<1> DEFINE a == <<x>>
           b == <<y>>
           c == a \o b
<1>2. /\ a \in Seq(S) /\ b \in Seq(S) /\ Len(a) = 1 /\ Len(b) = 1 /\ a[1] = x /\ b[1] = y
  OBVIOUS
<1> HIDE DEF a, b
<1>3. /\ c \in Seq(S) /\ Len(c) = Len(a) + Len(b)
      /\ \A i \in 1..Len(a) : c[i] = a[i]
      /\ \A i \in 1..Len(b) : c[Len(a) + i] = b[i]
  BY <1>2, ConcatIs
<1> HIDE DEF c
<1>4. c \in Seq(S) /\ Len(c) = 2 /\ c[1] = x /\ c[2] = y
  BY <1>2, <1>3
<1>5. c = <<x, y>>
  BY <1>4
<1> QED
  BY <1>1, <1>5 DEF a, b, c

\* The names of owners with the markers their rules' ids begin with.
Texts == STRING \cup {"inst", "plugin"}

LEMMA TextsIs == STRING \subseteq Texts /\ "inst" \in Texts /\ "plugin" \in Texts
BY DEF Texts

LEMMA TextsOf == Seq(STRING) \subseteq Seq(Texts)
<1>1. ASSUME NEW S, NEW T, S \subseteq T, NEW s \in Seq(S) PROVE s \in Seq(T)
  <2>1. s \in [1..Len(s) -> S] /\ Len(s) \in Nat
    OBVIOUS
  <2>2. s \in [1..Len(s) -> T]
    BY <1>1, <2>1
  <2> QED
    BY <2>1, <2>2
<1> QED
  BY <1>1, TextsIs

LEMMA OwnerPrefixIs ==
    /\ \A u \in STRING : /\ <<"inst", u>> \in Seq(Texts)
                         /\ <<"inst">> \o <<u>> = <<"inst", u>>
    /\ \A p \in Seq(STRING) : <<"plugin">> \o p \in Seq(Texts)
<1>1. ASSUME NEW S, NEW x \in S, NEW s \in Seq(S) PROVE <<x>> \o s \in Seq(S)
  <2>1. <<x>> \in Seq(S)
    OBVIOUS
  <2> QED
    BY <2>1, ConcatIs
<1>2. ASSUME NEW u \in STRING
      PROVE  <<"inst", u>> \in Seq(Texts) /\ <<"inst">> \o <<u>> = <<"inst", u>>
  BY TextsIs, PairIs
<1>3. ASSUME NEW p \in Seq(STRING) PROVE <<"plugin">> \o p \in Seq(Texts)
  BY <1>1, TextsIs, TextsOf
<1> QED
  BY <1>2, <1>3

\* What compileRule has let through.
PublishesBelow(actions) ==
    \A i \in DOMAIN actions :
       actions[i]["kind"].v = <<"publish_event">> => IsRuleEvent(actions[i]["event"].v)

LEMMA ActionIs ==
    ASSUME NEW a, ActionLegal(a), a.v["kind"].v = <<"publish_event">>
    PROVE  IsRuleEvent(a.v["event"].v)
<1> DEFINE kind == Get(a.v, "kind")
           event == Get(a.v, "event")
<1>1. \/ \E k \in {"play_motion", "play_pack_audio", "set_expression", "notify_bubble"} :
            kind = Str(<<k>>)
      \/ event.t = "str" /\ IsRuleEvent(event.v)
  BY DEF ActionLegal
<1>2. \A k : kind = Str(<<k>>) => kind.v = <<k>> /\ kind.t = "str"
  BY DEF Str
<1>3. Absent.t = "absent"
  BY DEF Absent
<1>4. kind.t = "str" => kind = a.v["kind"]
  BY <1>3 DEF Get
<1>5. event.t = "str" => event = a.v["event"]
  BY <1>3 DEF Get
<1> HIDE DEF kind, event
<1>6. ~ \E k \in {"play_motion", "play_pack_audio", "set_expression", "notify_bubble"} :
            kind = Str(<<k>>)
  BY <1>2, <1>4
<1> QED
  BY <1>1, <1>5, <1>6

LEMMA CompiledIs ==
    ASSUME NEW doc \in AllDocs, Compiles(doc)
    PROVE  LET r == Compiled(doc)
           IN  /\ r.id \in Seq(STRING) \ {<<>>} /\ IsValidEventId(r.trigger)
               /\ PublishesBelow(r.actions) /\ r.cooldown \in Nat /\ r.priority \in Int
<1>1. MetaLegal(doc) /\ TriggerLegal(Get(doc, "trigger"))
  BY DEF Compiles
<1>2. Absent.t = "absent"
  BY DEF Absent
<1>3. Compiled(doc).id \in Seq(STRING) \ {<<>>}
  <2>1. Get(doc, "id").t = "str"
    BY <1>1 DEF MetaLegal
  <2>2. Get(doc, "id").v \in Seq(STRING) \ {<<>>}
    BY <2>1, DocsAssumption
  <2>3. Get(doc, "id") = doc["id"]
    BY <2>1, <1>2 DEF Get
  <2> QED
    BY <2>2, <2>3 DEF Compiled
<1>4. IsValidEventId(Compiled(doc).trigger)
  <2> DEFINE trigger == Get(doc, "trigger")
             event == Get(trigger.v, "event")
  <2>1. trigger.t = "object" /\ event.t = "str" /\ IsValidEventIdSyntax(event.v)
    BY <1>1 DEF TriggerLegal
  <2>2. trigger = doc["trigger"]
    BY <2>1, <1>2 DEF Get
  <2>3. event = trigger.v["event"]
    BY <2>1, <1>2 DEF Get
  <2>4. Compiled(doc).trigger = doc["trigger"].v["event"].v
    BY DEF Compiled
  <2>5. Compiled(doc).trigger = event.v
    BY <2>2, <2>3, <2>4
  <2> HIDE DEF event, trigger
  <2> QED
    BY <2>1, <2>5, EventsAssumption DEF IsValidEventIdSyntax, IsValidEventId
<1>5. PublishesBelow(Compiled(doc).actions)
  <2> DEFINE actions == Get(doc, "actions")
  <2>1. actions.t = "array" /\ \A i \in DOMAIN actions.v : ActionLegal(actions.v[i])
    BY DEF Compiles
  <2>2. actions = doc["actions"]
    BY <2>1, <1>2 DEF Get
  <2>3. Compiled(doc).actions = [i \in DOMAIN doc["actions"].v |-> doc["actions"].v[i].v]
    BY DEF Compiled
  <2> HIDE DEF actions
  <2>4. Compiled(doc).actions = [i \in DOMAIN actions.v |-> actions.v[i].v]
    BY <2>2, <2>3
  <2>5. /\ DOMAIN Compiled(doc).actions = DOMAIN actions.v
        /\ \A i \in DOMAIN actions.v : Compiled(doc).actions[i] = actions.v[i].v
    BY <2>4
  <2> QED
    BY <2>1, <2>5, ActionIs DEF PublishesBelow
<1>6. Compiled(doc).cooldown \in Nat
  <2> DEFINE c == Get(doc, "cooldown_ms")
  <2>1. Compiled(doc).cooldown = IntOr(c, 0)
    BY DEF Compiled
  <2>2. c = Absent \/ (IsNumber(c) /\ c.v >= 0)
    BY <1>1 DEF MetaLegal, Optional, IsCount, IsIntegralNumber
  <2>3. IsNumber(c) => c.v \in Int
    BY DocsAssumption
  <2> HIDE DEF c
  <2> QED
    BY <2>1, <2>2, <2>3 DEF IntOr
<1>7. Compiled(doc).priority \in Int
  <2> DEFINE p == Get(doc, "priority")
  <2>1. Compiled(doc).priority = IntOr(p, 100)
    BY DEF Compiled
  <2>2. p = Absent \/ IsNumber(p)
    BY <1>1 DEF MetaLegal, Optional, IsIntegralNumber
  <2>3. IsNumber(p) => p.v \in Int
    BY DocsAssumption
  <2> HIDE DEF p
  <2> QED
    BY <2>1, <2>2, <2>3 DEF IntOr
<1> QED
  BY <1>3, <1>4, <1>5, <1>6, <1>7

\* An owner that is there.
Owns(scope, owner, uuids, running) ==
    \/ scope = "panel"
    \/ scope = "instance" /\ \E u \in uuids : owner = <<u>>
    \/ scope = "plugin" /\ owner \in running

LEMMA ScopedIs ==
    ASSUME NEW doc \in AllDocs, Compiles(doc), NEW uuids \in SUBSET Uuids,
           NEW running \in SUBSET Plugins, NEW scope, NEW owner,
           Owns(scope, owner, uuids, running), NEW n
    PROVE  LET r == [Scoped(doc, scope, owner) EXCEPT !.order = n]
           IN  RuleIsSound(r, uuids, running) /\ r.id = Scoped(doc, scope, owner).id /\ r.order = n
<1> DEFINE c == Compiled(doc)
           prefix == IF scope = "instance" THEN <<"inst">> \o owner
                     ELSE IF scope = "plugin" THEN <<"plugin">> \o owner ELSE <<>>
           id == IF scope = "panel" THEN c.id ELSE prefix \o c.id
           rule == Scoped(doc, scope, owner)
           r == [rule EXCEPT !.order = n]
<1>1. /\ c.id \in Seq(STRING) \ {<<>>} /\ IsValidEventId(c.trigger)
      /\ PublishesBelow(c.actions) /\ c.cooldown \in Nat /\ c.priority \in Int
  BY CompiledIs
<1>2. /\ {"id", "scope", "owner", "order", "trigger", "actions", "cooldown", "priority"}
            \subseteq DOMAIN c
      /\ c = [x \in DOMAIN c |-> c[x]]
  BY DEF Compiled
<1> HIDE DEF c
<1>3. \A x : x \in DOMAIN c \ {"id", "scope", "owner"} =>
            rule[x] = c[x] /\ x \in DOMAIN rule
  <2>1. CASE scope = "panel"
    BY <2>1 DEF Scoped, c
  <2>2. CASE scope = "instance"
    BY <2>2 DEF Scoped, c
  <2>3. CASE scope = "plugin"
    BY <2>3 DEF Scoped, c
  <2> QED
    BY <2>1, <2>2, <2>3 DEF Owns
<1>4. rule.scope = scope /\ rule.owner = owner /\ rule.id = id
      /\ {"scope", "owner", "id"} \subseteq DOMAIN rule
  <2>1. CASE scope = "panel"
    BY <1>2, <2>1 DEF Scoped, c
  <2>2. CASE scope = "instance"
    BY <1>2, <2>2 DEF Scoped, c
  <2>3. CASE scope = "plugin"
    BY <1>2, <2>3 DEF Scoped, c
  <2> QED
    BY <2>1, <2>2, <2>3 DEF Owns
<1> HIDE DEF rule
<1>5. /\ r.scope = scope /\ r.owner = owner /\ r.id = id /\ rule.id = id
      /\ r.trigger = c.trigger /\ r.actions = c.actions /\ r.cooldown = c.cooldown
      /\ r.priority = c.priority /\ r.order = n
      /\ scope \in {"instance", "panel", "plugin"}
  BY <1>2, <1>3, <1>4 DEF Owns
<1> HIDE DEF r
<1>6. scope = "instance" =>
         \E u \in uuids : r.owner = <<u>> /\ IsStrictPrefix(<<"inst", u>>, r.id)
  <2> SUFFICES ASSUME scope = "instance", NEW u \in uuids, owner = <<u>>
               PROVE  IsStrictPrefix(<<"inst", u>>, r.id)
    BY <1>5 DEF Owns
  <2>1. <<"inst", u>> \in Seq(Texts) /\ <<"inst">> \o owner = <<"inst", u>>
    BY NamesAssumption, OwnerPrefixIs
  <2>2. r.id = <<"inst", u>> \o c.id
    BY <2>1, <1>5
  <2>3. c.id \in Seq(Texts) /\ c.id # <<>>
    BY <1>1, TextsOf
  <2> QED
    BY <2>1, <2>2, <2>3, PrefixIs
<1>7. scope = "plugin" => r.owner \in running /\ IsStrictPrefix(<<"plugin">> \o r.owner, r.id)
  <2> SUFFICES ASSUME scope = "plugin", owner \in running
               PROVE  IsStrictPrefix(<<"plugin">> \o owner, r.id)
    BY <1>5 DEF Owns
  <2>1. owner \in Seq(STRING)
    BY NamesAssumption
  <2>2. <<"plugin">> \o owner \in Seq(Texts)
    BY <2>1, OwnerPrefixIs
  <2>3. r.id = (<<"plugin">> \o owner) \o c.id
    BY <1>5
  <2>4. c.id \in Seq(Texts) /\ c.id # <<>>
    BY <1>1, TextsOf
  <2> QED
    BY <2>2, <2>3, <2>4, PrefixIs
<1> QED
  BY <1>1, <1>5, <1>6, <1>7 DEF RuleIsSound, PublishesBelow, r, rule

LEMMA UpsertedIsSound ==
    ASSUME NEW e, NEW uuids, NEW running, EngineIsSound(e, uuids, running), NEW rule,
           \A n : LET r == [rule EXCEPT !.order = n]
                  IN  RuleIsSound(r, uuids, running) /\ r.id = rule.id /\ r.order = n
    PROVE  EngineIsSound(Upserted(e, rule), uuids, running)
<1> DEFINE r == [rule EXCEPT !.order = e.next]
           new == Upserted(e, rule)
<1>1. RuleIsSound(r, uuids, running) /\ r.id = rule.id /\ r.order = e.next
  OBVIOUS
<1> HIDE DEF r
<1>2. /\ new.rules = With(e.rules, rule.id, r) /\ new.next = e.next + 1
      /\ {"rules", "fired", "next"} \subseteq DOMAIN new
  BY DEF Upserted, r
<1> HIDE DEF new
<1>3. /\ DOMAIN new.rules = DOMAIN e.rules \cup {rule.id}
      /\ new.rules[rule.id] = r
      /\ \A id \in DOMAIN e.rules : id # rule.id => new.rules[id] = e.rules[id]
  BY <1>2 DEF With
<1>4. IsFiniteSet(DOMAIN new.rules) /\ new.next \in Nat /\ e.next \in Nat
  BY <1>2, <1>3, FS_AddElement DEF EngineIsSound
<1>5. \A id \in DOMAIN new.rules : id # rule.id =>
         /\ id \in DOMAIN e.rules /\ new.rules[id] = e.rules[id]
         /\ new.rules[id].id = id /\ new.rules[id].order \in 0..e.next - 1
         /\ RuleIsSound(new.rules[id], uuids, running)
  BY <1>3 DEF EngineIsSound
<1>6. ASSUME NEW id \in DOMAIN new.rules
      PROVE  LET x == new.rules[id]
             IN  /\ x.id = id /\ x.order \in 0..new.next - 1
                 /\ RuleIsSound(x, uuids, running)
                 /\ \A other \in DOMAIN new.rules :
                       new.rules[other].order = x.order => other = id
  <2>1. CASE id = rule.id
    BY <2>1, <1>1, <1>2, <1>3, <1>4, <1>5
  <2>2. CASE id # rule.id
    <3>1. \A other \in DOMAIN e.rules : e.rules[other].order = e.rules[id].order => other = id
      BY <2>2, <1>5 DEF EngineIsSound
    <3> QED
      BY <2>2, <3>1, <1>1, <1>2, <1>3, <1>4, <1>5
  <2> QED
    BY <2>1, <2>2
<1>7. EngineIsSound(new, uuids, running)
  BY <1>2, <1>4, <1>6 DEF EngineIsSound
<1> QED
  BY <1>7 DEF new

LEMMA CompiledIntoIsSound ==
    ASSUME NEW uuids \in SUBSET Uuids, NEW running \in SUBSET Plugins,
           NEW e, EngineIsSound(e, uuids, running), NEW doc \in AllDocs,
           NEW scope, NEW owner, Owns(scope, owner, uuids, running)
    PROVE  EngineIsSound(CompileScopedInto(e, doc, scope, owner), uuids, running)
<1>1. CASE Accepted(e, doc, scope, owner)
  <2> DEFINE rule == Scoped(doc, scope, owner)
  <2>1. \A n : LET r == [rule EXCEPT !.order = n]
               IN  RuleIsSound(r, uuids, running) /\ r.id = rule.id /\ r.order = n
    BY <1>1, ScopedIs DEF Accepted
  <2>2. CompileScopedInto(e, doc, scope, owner) = Upserted(e, rule)
    BY <1>1 DEF CompileScopedInto
  <2> HIDE DEF rule
  <2> QED
    BY <2>1, <2>2, UpsertedIsSound
<1>2. CASE ~Accepted(e, doc, scope, owner)
  BY <1>2 DEF CompileScopedInto
<1> QED
  BY <1>1, <1>2

-----------------------------------------------------------------------------
(* Loads: what a recursive function leaves behind, from its least failure.   *)

IsArrayLoad(upTo, e, docs, scope, owner, m) ==
    upTo = [n \in 0..m |->
              IF n = 0 THEN e ELSE CompileScopedInto(upTo[n - 1], docs[n], scope, owner)]

LEMMA ArrayLoadExists ==
    ASSUME NEW e, NEW docs, NEW scope, NEW owner, NEW l \in Nat
    PROVE  \E g : IsArrayLoad(g, e, docs, scope, owner, l)
<1> DEFINE bad == {m \in Nat : ~ \E g : IsArrayLoad(g, e, docs, scope, owner, m)}
<1> SUFFICES ASSUME bad # {} PROVE FALSE
  OBVIOUS
<1>1. PICK m \in bad : \A y \in bad : m <= y
  BY LeastNatural
<1>2. m # 0
  <2> DEFINE g == [n \in 0..0 |-> e]
  <2>1. IsArrayLoad(g, e, docs, scope, owner, 0)
    BY DEF IsArrayLoad
  <2> QED
    BY <2>1
<1>3. m - 1 \in Nat /\ m - 1 \notin bad
  BY <1>1, <1>2
<1>4. PICK g : IsArrayLoad(g, e, docs, scope, owner, m - 1)
  BY <1>3
<1> DEFINE h == [n \in 0..m |-> IF n < m THEN g[n]
                                ELSE CompileScopedInto(g[m - 1], docs[m], scope, owner)]
<1>5. \A n \in 0..m : h[n] = IF n = 0 THEN e
                             ELSE CompileScopedInto(h[n - 1], docs[n], scope, owner)
  BY <1>2, <1>3, <1>4 DEF IsArrayLoad
<1>6. IsArrayLoad(h, e, docs, scope, owner, m)
  BY <1>5 DEF IsArrayLoad
<1> QED
  BY <1>1, <1>6

LEMMA ArrayLoadIsLast ==
    ASSUME NEW e, NEW docs, Len(docs) \in Nat, NEW scope, NEW owner
    PROVE  \E g : /\ IsArrayLoad(g, e, docs, scope, owner, Len(docs))
                  /\ LoadRulesArrayInto(e, docs, scope, owner) = g[Len(docs)]
<1> DEFINE g == CHOOSE g : g = [n \in 0..Len(docs) |->
                    IF n = 0 THEN e ELSE CompileScopedInto(g[n - 1], docs[n], scope, owner)]
<1>1. \E h : IsArrayLoad(h, e, docs, scope, owner, Len(docs))
  BY ArrayLoadExists
<1>2. IsArrayLoad(g, e, docs, scope, owner, Len(docs))
  BY <1>1 DEF IsArrayLoad
<1>3. LoadRulesArrayInto(e, docs, scope, owner) = g[Len(docs)]
  BY DEF LoadRulesArrayInto
<1> QED
  BY <1>2, <1>3

LEMMA ArrayLoadIsSound ==
    ASSUME NEW uuids \in SUBSET Uuids, NEW running \in SUBSET Plugins,
           NEW e, EngineIsSound(e, uuids, running), NEW docs \in Seq(AllDocs),
           NEW scope, NEW owner, Owns(scope, owner, uuids, running)
    PROVE  EngineIsSound(LoadRulesArrayInto(e, docs, scope, owner), uuids, running)
<1>1. Len(docs) \in Nat /\ \A n \in 1..Len(docs) : docs[n] \in AllDocs
  OBVIOUS
<1>2. PICK g : /\ IsArrayLoad(g, e, docs, scope, owner, Len(docs))
               /\ LoadRulesArrayInto(e, docs, scope, owner) = g[Len(docs)]
  BY <1>1, ArrayLoadIsLast
<1>3. \A n \in 0..Len(docs) :
         g[n] = IF n = 0 THEN e ELSE CompileScopedInto(g[n - 1], docs[n], scope, owner)
  BY <1>2 DEF IsArrayLoad
<1> DEFINE bad == {n \in 0..Len(docs) : ~EngineIsSound(g[n], uuids, running)}
<1>4. bad = {}
  <2> SUFFICES ASSUME bad # {} PROVE FALSE
    OBVIOUS
  <2>1. bad \subseteq Nat
    BY <1>1
  <2>2. PICK m \in bad : \A y \in bad : m <= y
    <3> HIDE DEF bad
    <3> QED
      BY <2>1, LeastNatural
  <2>3. m # 0
    BY <1>1, <1>3, <2>2
  <2>4. m - 1 \in 0..Len(docs) /\ m - 1 \notin bad /\ m \in 1..Len(docs)
    BY <1>1, <2>2, <2>3
  <2>5. EngineIsSound(g[m - 1], uuids, running)
    BY <2>4
  <2>6. g[m] = CompileScopedInto(g[m - 1], docs[m], scope, owner) /\ docs[m] \in AllDocs
    BY <1>1, <1>3, <2>4
  <2>7. EngineIsSound(g[m], uuids, running)
    BY <2>5, <2>6, CompiledIntoIsSound
  <2> QED
    BY <2>2, <2>7
<1>5. EngineIsSound(g[Len(docs)], uuids, running)
  BY <1>1, <1>4
<1> QED
  BY <1>2, <1>5

IsInstancesLoad(upTo, e, order, readable, m) ==
    upTo = [n \in 0..m |->
              IF n = 0 THEN e
              ELSE LoadInstanceRulesInto(upTo[n - 1], order[n], order[n] \in readable)]

LEMMA InstancesLoadExists ==
    ASSUME NEW e, NEW order, NEW readable, NEW l \in Nat
    PROVE  \E g : IsInstancesLoad(g, e, order, readable, l)
<1> DEFINE bad == {m \in Nat : ~ \E g : IsInstancesLoad(g, e, order, readable, m)}
<1> SUFFICES ASSUME bad # {} PROVE FALSE
  OBVIOUS
<1>1. PICK m \in bad : \A y \in bad : m <= y
  BY LeastNatural
<1>2. m # 0
  <2> DEFINE g == [n \in 0..0 |-> e]
  <2>1. IsInstancesLoad(g, e, order, readable, 0)
    BY DEF IsInstancesLoad
  <2> QED
    BY <2>1
<1>3. m - 1 \in Nat /\ m - 1 \notin bad
  BY <1>1, <1>2
<1>4. PICK g : IsInstancesLoad(g, e, order, readable, m - 1)
  BY <1>3
<1> DEFINE h == [n \in 0..m |-> IF n < m THEN g[n]
                    ELSE LoadInstanceRulesInto(g[m - 1], order[m], order[m] \in readable)]
<1>5. \A n \in 0..m : h[n] = IF n = 0 THEN e
                ELSE LoadInstanceRulesInto(h[n - 1], order[n], order[n] \in readable)
  BY <1>2, <1>3, <1>4 DEF IsInstancesLoad
<1>6. IsInstancesLoad(h, e, order, readable, m)
  BY <1>5 DEF IsInstancesLoad
<1> QED
  BY <1>1, <1>6

LEMMA InstancesLoadIsLast ==
    ASSUME NEW e, NEW order, Len(order) \in Nat, NEW readable
    PROVE  \E g : /\ IsInstancesLoad(g, e, order, readable, Len(order))
                  /\ LoadInstancesInto(e, order, readable) = g[Len(order)]
<1> DEFINE g == CHOOSE g : g = [n \in 0..Len(order) |->
                    IF n = 0 THEN e
                    ELSE LoadInstanceRulesInto(g[n - 1], order[n], order[n] \in readable)]
<1>1. \E h : IsInstancesLoad(h, e, order, readable, Len(order))
  BY InstancesLoadExists
<1>2. IsInstancesLoad(g, e, order, readable, Len(order))
  BY <1>1 DEF IsInstancesLoad
<1>3. LoadInstancesInto(e, order, readable) = g[Len(order)]
  BY DEF LoadInstancesInto
<1> QED
  BY <1>2, <1>3

LEMMA InstanceLoadIsSound ==
    ASSUME NEW uuids \in SUBSET Uuids, NEW running \in SUBSET Plugins,
           NEW e, EngineIsSound(e, uuids, running), NEW u \in uuids, NEW readable
    PROVE  EngineIsSound(LoadInstanceRulesInto(e, u, readable), uuids, running)
<1> DEFINE docs == IF readable THEN InstanceDocs[u] ELSE <<>>
<1>1. docs \in Seq(AllDocs)
  BY DocsAssumption
<1>2. Owns("instance", <<u>>, uuids, running)
  BY DEF Owns
<1>3. LoadInstanceRulesInto(e, u, readable) = LoadRulesArrayInto(e, docs, "instance", <<u>>)
  BY DEF LoadInstanceRulesInto
<1> HIDE DEF docs
<1> QED
  BY <1>1, <1>2, <1>3, ArrayLoadIsSound

LEMMA InstancesLoadIsSound ==
    ASSUME NEW uuids \in SUBSET Uuids, NEW running \in SUBSET Plugins,
           NEW e, EngineIsSound(e, uuids, running), NEW S \in SUBSET uuids,
           NEW order \in Orders(S), NEW readable
    PROVE  EngineIsSound(LoadInstancesInto(e, order, readable), uuids, running)
<1>1. Cardinality(S) \in Nat
  BY NamesAssumption, FS_Subset, FS_CardinalityType
<1>2. order \in [1..Cardinality(S) -> S]
  BY DEF Orders
<1>3. order \in Seq(S)
  BY <1>1, <1>2
<1>4. Len(order) \in Nat /\ \A n \in 1..Len(order) : order[n] \in uuids
  BY <1>3
<1>5. PICK g : /\ IsInstancesLoad(g, e, order, readable, Len(order))
               /\ LoadInstancesInto(e, order, readable) = g[Len(order)]
  BY <1>4, InstancesLoadIsLast
<1>6. \A n \in 0..Len(order) :
         g[n] = IF n = 0 THEN e
                ELSE LoadInstanceRulesInto(g[n - 1], order[n], order[n] \in readable)
  BY <1>5 DEF IsInstancesLoad
<1> DEFINE bad == {n \in 0..Len(order) : ~EngineIsSound(g[n], uuids, running)}
<1>7. bad = {}
  <2> SUFFICES ASSUME bad # {} PROVE FALSE
    OBVIOUS
  <2>1. bad \subseteq Nat
    BY <1>4
  <2>2. PICK m \in bad : \A y \in bad : m <= y
    <3> HIDE DEF bad
    <3> QED
      BY <2>1, LeastNatural
  <2>3. m # 0
    BY <1>4, <1>6, <2>2
  <2>4. m - 1 \in 0..Len(order) /\ m - 1 \notin bad /\ m \in 1..Len(order)
    BY <1>4, <2>2, <2>3
  <2>5. EngineIsSound(g[m - 1], uuids, running)
    BY <2>4
  <2>6. /\ g[m] = LoadInstanceRulesInto(g[m - 1], order[m], order[m] \in readable)
        /\ order[m] \in uuids
    BY <1>4, <1>6, <2>4
  <2>7. EngineIsSound(g[m], uuids, running)
    BY <2>5, <2>6, InstanceLoadIsSound
  <2> QED
    BY <2>2, <2>7
<1>8. EngineIsSound(g[Len(order)], uuids, running)
  BY <1>4, <1>7
<1> QED
  BY <1>5, <1>8

-----------------------------------------------------------------------------
(* Sweeps                                                                    *)

LEMMA RemovedIs ==
    ASSUME NEW e, "rules" \in DOMAIN e, "fired" \in DOMAIN e, NEW ids
    PROVE  LET new == Removed(e, ids)
           IN  /\ DOMAIN new.rules = DOMAIN e.rules \ ids
               /\ \A id \in DOMAIN e.rules \ ids : new.rules[id] = e.rules[id]
               /\ DOMAIN new.fired = DOMAIN e.fired \ ids
               /\ \A id \in DOMAIN e.fired \ ids : new.fired[id] = e.fired[id]
BY DEF Removed, Without, Restrict

LEMMA RemovedIsSound ==
    ASSUME NEW e, NEW uuids, NEW running, EngineIsSound(e, uuids, running), NEW ids
    PROVE  EngineIsSound(Removed(e, ids), uuids, running)
<1> DEFINE new == Removed(e, ids)
<1>1. /\ {"rules", "fired", "next"} \subseteq DOMAIN e
      /\ DOMAIN new = DOMAIN e /\ new.next = e.next
  BY DEF EngineIsSound, Removed
<1>2. /\ DOMAIN new.rules = DOMAIN e.rules \ ids
      /\ \A id \in DOMAIN e.rules \ ids : new.rules[id] = e.rules[id]
  BY <1>1, RemovedIs
<1> HIDE DEF new
<1>3. IsFiniteSet(DOMAIN new.rules)
  BY <1>2, FS_Subset DEF EngineIsSound
<1>4. EngineIsSound(new, uuids, running)
  BY <1>1, <1>2, <1>3 DEF EngineIsSound
<1> QED
  BY <1>4 DEF new

\* The rules of instances that are gone are under their prefixes.
LEMMA SweptInstances ==
    ASSUME NEW e, NEW uuids, NEW running, EngineIsSound(e, uuids, running), NEW gone
    PROVE  EngineIsSound(Removed(e, UNION {UnderPrefix(e, <<"inst", u>>) : u \in gone}),
                         uuids \ gone, running)
<1> DEFINE ids == UNION {UnderPrefix(e, <<"inst", u>>) : u \in gone}
           new == Removed(e, ids)
<1>1. {"rules", "fired", "next"} \subseteq DOMAIN e
  BY DEF EngineIsSound
<1>2. EngineIsSound(new, uuids, running)
  BY RemovedIsSound
<1>3. \A u \in gone : \A id \in DOMAIN e.rules : IsStrictPrefix(<<"inst", u>>, id) => id \in ids
  BY DEF UnderPrefix
<1>4. /\ DOMAIN new.rules = DOMAIN e.rules \ ids
      /\ \A id \in DOMAIN e.rules \ ids : new.rules[id] = e.rules[id]
  BY <1>1, RemovedIs
<1> HIDE DEF new, ids
<1>5. ASSUME NEW id \in DOMAIN new.rules PROVE RuleIsSound(new.rules[id], uuids \ gone, running)
  <2>1. /\ RuleIsSound(new.rules[id], uuids, running) /\ new.rules[id].id = id
        /\ id \in DOMAIN e.rules /\ id \notin ids
    BY <1>2, <1>4 DEF EngineIsSound
  <2>2. ASSUME new.rules[id].scope = "instance"
        PROVE  \E u \in uuids \ gone : /\ new.rules[id].owner = <<u>>
                                       /\ IsStrictPrefix(<<"inst", u>>, new.rules[id].id)
    <3>1. PICK u \in uuids : /\ new.rules[id].owner = <<u>>
                             /\ IsStrictPrefix(<<"inst", u>>, new.rules[id].id)
      BY <2>1, <2>2 DEF RuleIsSound
    <3>2. u \notin gone
      BY <1>3, <2>1, <3>1
    <3> QED
      BY <3>1, <3>2
  <2> QED
    BY <2>1, <2>2 DEF RuleIsSound
<1>6. EngineIsSound(new, uuids \ gone, running)
  BY <1>2, <1>5 DEF EngineIsSound
<1> QED
  BY <1>6 DEF new, ids

LEMMA SweptPlugin ==
    ASSUME NEW e, NEW uuids, NEW running, EngineIsSound(e, uuids, running), NEW p
    PROVE  EngineIsSound(Removed(e, UnderPrefix(e, <<"plugin">> \o p)), uuids, running \ {p})
<1> DEFINE ids == UnderPrefix(e, <<"plugin">> \o p)
           new == Removed(e, ids)
<1>1. {"rules", "fired", "next"} \subseteq DOMAIN e
  BY DEF EngineIsSound
<1>2. EngineIsSound(new, uuids, running)
  BY RemovedIsSound
<1>3. \A id \in DOMAIN e.rules : IsStrictPrefix(<<"plugin">> \o p, id) => id \in ids
  BY DEF UnderPrefix
<1>4. /\ DOMAIN new.rules = DOMAIN e.rules \ ids
      /\ \A id \in DOMAIN e.rules \ ids : new.rules[id] = e.rules[id]
  BY <1>1, RemovedIs
<1> HIDE DEF new, ids
<1>5. ASSUME NEW id \in DOMAIN new.rules PROVE RuleIsSound(new.rules[id], uuids, running \ {p})
  <2>1. /\ RuleIsSound(new.rules[id], uuids, running) /\ new.rules[id].id = id
        /\ id \in DOMAIN e.rules /\ id \notin ids
    BY <1>2, <1>4 DEF EngineIsSound
  <2>2. new.rules[id].scope = "plugin" => new.rules[id].owner # p
    BY <1>3, <2>1 DEF RuleIsSound
  <2> QED
    BY <2>1, <2>2 DEF RuleIsSound
<1>6. EngineIsSound(new, uuids, running \ {p})
  BY <1>2, <1>5 DEF EngineIsSound
<1> QED
  BY <1>6 DEF new, ids

LEMMA MoreOwners ==
    ASSUME NEW e, NEW uuids, NEW running, EngineIsSound(e, uuids, running),
           NEW others, uuids \subseteq others, NEW started, running \subseteq started
    PROVE  EngineIsSound(e, others, started)
BY DEF EngineIsSound, RuleIsSound

-----------------------------------------------------------------------------
(* The rules are served                                                      *)

Served ==
    /\ SoundTable(subs) /\ HearsJust(subs, subscribedIds) /\ subscribedIds = Desired(engine)
    /\ knownUuids = DOMAIN roster /\ knownUuids \in SUBSET Uuids
    /\ phase \in [Plugins -> Phases] /\ EngineIsSound(engine, knownUuids, Holders)

LEMMA ServedIs == ServedInv <=> Served
BY DEF ServedInv, Served, ServiceHearsItsTriggers, HearsJust, Hears, TableIsSound,
       SoundTable, RowIsSound, Entries

LEMMA ServedIsNext == ServedInv' <=> Served'
BY DEF ServedInv, Served, ServiceHearsItsTriggers, HearsJust, Hears, TableIsSound,
       SoundTable, RowIsSound, Entries

LEMMA DesiredIsValid ==
    ASSUME NEW e, NEW uuids, NEW running, EngineIsSound(e, uuids, running)
    PROVE  \A id \in Desired(e) : IsValidEventId(id)
<1>1. \A id \in SubscribedEventIds(e) : IsValidEventId(id)
  BY DEF SubscribedEventIds, Range, EngineIsSound, RuleIsSound
<1>2. \A id \in ActivityTriple : IsValidEventId(id)
  BY EventsAssumption
<1> QED
  BY <1>1, <1>2 DEF Desired

\* Whenever the engine changes, what the bus calls the service for follows.
LEMMA BecomesServed ==
    ASSUME NEW table, SoundTable(table), HearsJust(table, subscribedIds), NEW e,
           NEW uuids, NEW running, EngineIsSound(e, uuids, running), EngineBecomes(e, table)
    PROVE  /\ SoundTable(subs') /\ HearsJust(subs', subscribedIds')
           /\ subscribedIds' = Desired(engine') /\ EngineIsSound(engine', uuids, running)
<1>1. \A id \in Desired(e) : IsValidEventId(id)
  BY DesiredIsValid
<1>2. SoundTable(RecomputedSubs(table, e)) /\ HearsJust(RecomputedSubs(table, e), Desired(e))
  BY <1>1, RecomputedIs
<1>3. engine' = e /\ subs' = RecomputedSubs(table, e) /\ subscribedIds' = Desired(e)
  BY DEF EngineBecomes
<1> QED
  BY <1>2, <1>3

\* Who owns what is as before: so are the engine and the table.
LEMMA SameOwners ==
    ASSUME Served, UNCHANGED <<subs, engine, subscribedIds, knownUuids, roster, phase>>
    PROVE  Served'
BY DEF Served, Holders

LEMMA RegisterServed ==
    ASSUME Served, NEW p \in Plugins, NEW doc \in Docs, RegisterPluginRule(p, doc)
    PROVE  Served'
<1>1. PICK e \in {engine, CompileScopedInto(engine, doc, "plugin", p)} : EngineBecomes(e, subs)
  BY DEF RegisterPluginRule
<1>2. EngineIsSound(e, knownUuids, Holders)
  <2>1. p \in Holders /\ doc \in AllDocs
    BY DEF RegisterPluginRule, Running, Holders, AllDocs
  <2>2. Owns("plugin", p, knownUuids, Holders)
    BY <2>1 DEF Owns
  <2>3. Holders \in SUBSET Plugins
    BY DEF Holders
  <2> QED
    BY <1>1, <2>1, <2>2, <2>3, CompiledIntoIsSound DEF Served
<1>3. UNCHANGED <<knownUuids, roster, phase>>
  BY DEF RegisterPluginRule, observed, gates
<1> QED
  BY <1>1, <1>2, <1>3, BecomesServed DEF Served, Holders

LEMMA UnregisterServed ==
    ASSUME Served, NEW p \in Plugins, NEW bareId, UnregisterPluginRule(p, bareId)
    PROVE  Served'
<1>1. PICK e \in {engine, Removed(engine, {<<"plugin">> \o p \o bareId})} :
         EngineBecomes(e, subs)
  BY DEF UnregisterPluginRule
<1>2. EngineIsSound(e, knownUuids, Holders)
  BY <1>1, RemovedIsSound DEF Served
<1>3. UNCHANGED <<knownUuids, roster, phase>>
  BY DEF UnregisterPluginRule, observed, gates
<1> QED
  BY <1>1, <1>2, <1>3, BecomesServed DEF Served, Holders

LEMMA PluginSubscribesServed ==
    ASSUME Served, NEW p \in Plugins, NEW e \in EventIds, NEW n \in 0..Lowest,
           PluginSubscribes(p, e, n)
    PROVE  Served'
<1>1. p # Service /\ p # Host
  BY NamesAssumption
<1>2. subs' = Subscribed(subs, e, p, n, p)
  BY DEF PluginSubscribes
<1>3. SoundTable(subs')
      /\ (\A id \in EventIds : id # e => subs'[id] = subs[id])
      /\ (Hears(subs'[e]) <=> Hears(subs[e]))
  BY <1>1, <1>2, SubscribedIs DEF Served
<1>4. UNCHANGED <<engine, subscribedIds, knownUuids, roster, phase>>
  BY DEF PluginSubscribes, observed, gates
<1> QED
  BY <1>3, <1>4 DEF Served, HearsJust, Holders

LEMMA PluginUnsubscribesServed ==
    ASSUME Served, NEW p \in Plugins, NEW e \in EventIds, PluginUnsubscribes(p, e)
    PROVE  Served'
<1>1. p # Service
  BY NamesAssumption
<1>2. subs' = Unsubscribed(subs, e, p)
  BY DEF PluginUnsubscribes
<1>3. SoundTable(subs')
      /\ (\A id \in EventIds : id # e => subs'[id] = subs[id])
      /\ (Hears(subs'[e]) <=> Hears(subs[e]))
  BY <1>1, <1>2, UnsubscribedIs DEF Served
<1>4. UNCHANGED <<engine, subscribedIds, knownUuids, roster, phase>>
  BY DEF PluginUnsubscribes, observed, gates
<1> QED
  BY <1>3, <1>4 DEF Served, HearsJust, Holders

LEMMA StopPluginServed ==
    ASSUME Served, NEW p \in Plugins, StopPlugin(p) PROVE Served'
<1> DEFINE e == Removed(engine, UnderPrefix(engine, <<"plugin">> \o p))
           table == UnsubscribedByPublisher(subs, p)
<1>1. /\ EngineBecomes(e, table) /\ UNCHANGED <<knownUuids, roster>>
      /\ phase' = [phase EXCEPT ![p] = "stopped"]
  BY DEF StopPlugin, observed
<1>2. phase' \in [Plugins -> Phases] /\ Holders' = Holders \ {p}
  BY <1>1 DEF Served, Holders, Phases
<1>3. EngineIsSound(e, knownUuids, Holders \ {p})
  BY SweptPlugin DEF Served
<1>4. SoundTable(table) /\ \A id \in EventIds : Hears(table[id]) <=> Hears(subs[id])
  BY UnsubscribedByPublisherIs DEF Served
<1> HIDE DEF e, table
<1>5. HearsJust(table, subscribedIds)
  BY <1>4 DEF Served, HearsJust
<1> QED
  BY <1>1, <1>2, <1>3, <1>4, <1>5, BecomesServed DEF Served

\* A plugin that comes to hold rules, or goes on holding them.
LEMMA HolderServed ==
    ASSUME Served, NEW p \in Plugins, NEW next \in {"starting", "started", "failed", "stopping"},
           phase' = [phase EXCEPT ![p] = next],
           UNCHANGED <<subs, engine, subscribedIds, knownUuids, roster>>
    PROVE  Served'
<1>1. phase' \in [Plugins -> Phases] /\ Holders \subseteq Holders'
  BY DEF Served, Holders, Phases
<1>2. EngineIsSound(engine, knownUuids, Holders')
  BY <1>1, MoreOwners DEF Served
<1> QED
  BY <1>1, <1>2 DEF Served

LEMMA PhaseServed ==
    ASSUME Served, NEW p \in Plugins,
           \/ StartPlugin(p) \/ InitializeReturns(p)
           \/ InitializeFails(p) \/ ShutdownBegins(p)
    PROVE  Served'
<1>1. /\ \E next \in {"starting", "started", "failed", "stopping"} :
            phase' = [phase EXCEPT ![p] = next]
      /\ UNCHANGED <<subs, engine, subscribedIds, knownUuids, roster>>
  BY DEF StartPlugin, InitializeReturns, InitializeFails, ShutdownBegins, observed
<1> QED
  BY <1>1, HolderServed

LEMMA RosterServed ==
    ASSUME Served, NEW us \in SUBSET Uuids, NEW new \in [us -> Rows], NEW readable,
           RosterChanged(new, readable)
    PROVE  Served'
<1> DEFINE gone == knownUuids \ us
           swept == Removed(engine, UNION {UnderPrefix(engine, <<"inst", u>>) : u \in gone})
<1>1. DOMAIN new = us
  OBVIOUS
<1>2. PICK order \in Orders(us \ knownUuids) :
         EngineBecomes(LoadInstancesInto(swept, order, readable), subs)
  BY <1>1 DEF RosterChanged
<1>3. roster' = new /\ knownUuids' = us /\ UNCHANGED phase
  BY <1>1 DEF RosterChanged, gates
<1>4. EngineIsSound(swept, us, Holders)
  <2>1. EngineIsSound(swept, knownUuids \ gone, Holders)
    BY SweptInstances DEF Served
  <2>2. knownUuids \ gone \subseteq us
    OBVIOUS
  <2> HIDE DEF swept, gone
  <2> QED
    BY <2>1, <2>2, MoreOwners
<1> HIDE DEF swept
<1>5. EngineIsSound(LoadInstancesInto(swept, order, readable), us, Holders)
  <2>1. us \ knownUuids \in SUBSET us /\ Holders \in SUBSET Plugins
    BY DEF Served, Holders
  <2> QED
    BY <1>4, <2>1, InstancesLoadIsSound
<1>6. /\ SoundTable(subs') /\ HearsJust(subs', subscribedIds')
      /\ subscribedIds' = Desired(engine') /\ EngineIsSound(engine', us, Holders)
  BY <1>2, <1>5, BecomesServed DEF Served
<1> QED
  BY <1>1, <1>3, <1>6 DEF Served, Holders

LEMMA DispatchServed == ASSUME Served, Dispatch PROVE Served'
<1>1. UNCHANGED <<subs, subscribedIds, knownUuids, roster, phase>>
  BY DEF Dispatch, OnEvent, OnPlugin, SkipRule, FireRule, ActPublish, ServiceReturns,
         PublishReturns, PublishEnds, Act, PluginReturns, observed, gates
<1>2. engine' = engine \/ \E rule, now : engine' = FireRecorded(engine, rule, now)
  BY DEF Dispatch, OnEvent, OnPlugin, SkipRule, FireRule, ActPublish, ServiceReturns,
         PublishReturns, Act, PluginReturns
<1>3. /\ engine'.rules = engine.rules /\ engine'.next = engine.next
      /\ {"rules", "fired", "next"} \subseteq DOMAIN engine'
  BY <1>2 DEF Served, EngineIsSound, FireRecorded
<1>4. Desired(engine') = Desired(engine)
  BY <1>3 DEF Desired, SubscribedEventIds
<1>5. EngineIsSound(engine', knownUuids, Holders)
  BY <1>3 DEF Served, EngineIsSound
<1> QED
  BY <1>1, <1>4, <1>5 DEF Served, Holders

LEMMA EnvironmentServed == ASSUME Served, Environment PROVE Served'
<1>1. CASE Tick \/ SwitchWrites \/ NextEra \/ \E h \in HostEvents : HostPublishes(h)
  BY <1>1, SameOwners DEF Tick, SwitchWrites, NextEra, HostPublishes, observed, gates
<1>2. ASSUME NEW p \in Plugins, NEW e \in EventIds, PluginPublishes(p, e) PROVE Served'
  BY <1>2, SameOwners DEF PluginPublishes, observed, gates
<1>3. ASSUME NEW u \in Uuids, NEW pack, InstanceStateChanged(u, pack) PROVE Served'
  BY <1>3, SameOwners DEF InstanceStateChanged, gates
<1>4. ASSUME NEW w \in Wanted,
             PluginSubscribes(w[1], w[2], w[3]) \/ PluginUnsubscribes(w[1], w[2])
      PROVE Served'
  <2>1. w[1] \in Plugins /\ w[2] \in EventIds /\ w[3] \in 0..Lowest
    BY WantedAssumption
  <2> QED
    BY <1>4, <2>1, PluginSubscribesServed, PluginUnsubscribesServed
<1> QED
  BY <1>1, <1>2, <1>3, <1>4, PhaseServed, StopPluginServed, RegisterServed, UnregisterServed,
     RosterServed DEF Environment

LEMMA ServedInitially == RuleInit => ServedInv
<1> SUFFICES ASSUME RuleInit PROVE Served
  BY ServedIs
<1>1. PICK readable \in SUBSET (Uuids \cup {"panel"}), uuids \in SUBSET Uuids :
      \E order \in Orders(uuids) :
         /\ roster \in [uuids -> Rows] /\ engine = LoadAll(order, readable)
         /\ subscribedIds = Desired(engine)
         /\ subs = [id \in EventIds |->
                      IF id \in Desired(engine) THEN <<Entry(Service, Low, Host)>> ELSE <<>>]
         /\ knownUuids = uuids /\ phase = [p \in Plugins |-> "registered"]
  BY DEF RuleInit
<1>2. PICK order \in Orders(uuids) : engine = LoadAll(order, readable)
  BY <1>1
<1>3. EngineIsSound(engine, uuids, {})
  <2>1. EngineIsSound(EmptyEngine, uuids, {})
    BY FS_EmptySet DEF EngineIsSound, EmptyEngine
  <2> DEFINE panel == IF "panel" \in readable
                      THEN LoadRulesArrayInto(EmptyEngine, PanelDocs, "panel", <<>>)
                      ELSE EmptyEngine
  <2>2. Owns("panel", <<>>, uuids, {})
    BY DEF Owns
  <2>3. EngineIsSound(panel, uuids, {})
    BY <2>1, <2>2, DocsAssumption, ArrayLoadIsSound
  <2>4. engine = LoadInstancesInto(panel, order, readable)
    BY <1>2 DEF LoadAll
  <2> HIDE DEF panel
  <2> QED
    BY <2>3, <2>4, InstancesLoadIsSound
<1>4. SoundTable(subs) /\ HearsJust(subs, Desired(engine))
  <2> DEFINE one == <<Entry(Service, Low, Host)>>
             none == <<>>
  <2>1. RowIsSound(one) /\ Hears(one)
    <3>1. Entry(Service, Low, Host) \in Entries
      BY DEF Entry, Entries, Low, Lowest
    <3> DEFINE x == Entry(Service, Low, Host)
    <3>2. x \in Entries /\ x.listener = Service /\ x.publisher = Host
      BY <3>1 DEF Entry
    <3> HIDE DEF x
    <3>3. <<x>> \in Seq(Entries) /\ DOMAIN <<x>> = {1} /\ <<x>>[1] = x
      BY <3>2
    <3>4. RowIsSound(<<x>>) /\ Hears(<<x>>)
      BY <3>2, <3>3 DEF RowIsSound, Hears
    <3> QED
      BY <3>4 DEF x
  <2>2. RowIsSound(none) /\ ~Hears(none)
    BY DEF RowIsSound, Hears
  <2>3. subs = [id \in EventIds |-> IF id \in Desired(engine) THEN one ELSE none]
    BY <1>1
  <2> HIDE DEF one, none
  <2> QED
    BY <2>1, <2>2, <2>3 DEF SoundTable, HearsJust, RowIsSound
<1>5. phase \in [Plugins -> Phases] /\ Holders = {}
  BY <1>1 DEF Holders, Phases
<1> QED
  BY <1>1, <1>3, <1>4, <1>5 DEF Served

LEMMA ServedInductive == ServedInv /\ [RuleNext]_ruleVars => ServedInv'
<1> SUFFICES ASSUME Served, [RuleNext]_ruleVars PROVE Served'
  BY ServedIs, ServedIsNext
<1>1. CASE UNCHANGED ruleVars
  BY <1>1, SameOwners DEF ruleVars
<1>2. CASE Dispatch
  BY <1>2, DispatchServed
<1>3. CASE Environment
  BY <1>3, EnvironmentServed
<1> QED
  BY <1>1, <1>2, <1>3 DEF RuleNext

\* Whatever is registered, replaced, swept or reloaded, and in the middle of
\* whatever dispatch: the service's entries are the host's, and what is stored
\* is named after an owner nobody has swept.
THEOREM ServedInvHolds == RuleSpec => []ServedInv
BY ServedInitially, ServedInductive, PTL DEF RuleSpec

LEMMA ServedIsServed == ServedInv => RulesAreServed
<1> SUFFICES ASSUME ServedInv, NEW r \in Range(engine.rules)
             PROVE  /\ r.scope = "instance" => r.owner[1] \in DOMAIN roster
                    /\ r.scope = "plugin" => r.owner \in Holders
                    /\ \A i \in DOMAIN r.actions :
                          r.actions[i]["kind"].v = <<"publish_event">> =>
                             IsRuleEvent(r.actions[i]["event"].v)
  BY DEF RulesAreServed, RulesHaveOwners, ServedInv
<1>1. RuleIsSound(r, knownUuids, Holders) /\ knownUuids = DOMAIN roster
  BY DEF Range, ServedInv, EngineIsSound
<1>2. ASSUME r.scope = "instance" PROVE r.owner[1] \in DOMAIN roster
  <2>1. PICK u \in DOMAIN roster : r.owner = <<u>>
    BY <1>1, <1>2 DEF RuleIsSound
  <2>2. <<u>>[1] = u
    OBVIOUS
  <2> QED
    BY <2>1, <2>2
<1> QED
  BY <1>1, <1>2 DEF RuleIsSound

\* The bus calls the service for exactly the events some enabled rule waits
\* for, no rule is left when its owner was unloaded or is not in the roster any
\* more, and no rule publishes as the host.
THEOREM RulesAreServedHolds == RuleSpec => []RulesAreServed
BY ServedInvHolds, ServedIsServed, PTL
-----------------------------------------------------------------------------
(* Every fire of a cycle that goes on is remembered                          *)

\* Later rules come after earlier ones, in one order only.
LEMMA OrderedRulesIs ==
    ASSUME NEW uuids, NEW running, EngineIsSound(engine, uuids, running), NEW event
    PROVE  LET concerned == {r \in Range(engine.rules) : Concerns(r, event)}
           IN  Enumerates(OrderedRules(event), Cardinality(concerned), concerned)
<1> DEFINE concerned == {r \in Range(engine.rules) : Concerns(r, event)}
           upto == {p \in concerned \X concerned :
                       p[1] = p[2] \/ RuleCompositeLess(p[1], p[2])}
           weight == [r \in concerned |-> ScopeWeight(r.scope)]
           first == [r \in concerned |-> r.priority]
           last == [r \in concerned |-> r.order]
<1>1. IsFiniteSet(concerned)
  <2>1. IsFiniteSet(DOMAIN engine.rules)
    BY DEF EngineIsSound
  <2> DEFINE f == [id \in DOMAIN engine.rules |-> engine.rules[id]]
  <2>2. f \in [DOMAIN engine.rules -> Range(engine.rules)]
    BY DEF Range
  <2>3. \A r \in Range(engine.rules) : \E id \in DOMAIN engine.rules : f[id] = r
    BY DEF Range
  <2> HIDE DEF f
  <2>4. f \in Surjection(DOMAIN engine.rules, Range(engine.rules))
    BY <2>2, <2>3 DEF Surjection
  <2>5. IsFiniteSet(Range(engine.rules))
    BY <2>1, <2>4, FS_Surjection
  <2> QED
    BY <2>5, FS_Subset
<1>2. ASSUME NEW r \in concerned
      PROVE  first[r] \in Int /\ weight[r] \in Int /\ last[r] \in Int
  <2>1. PICK id \in DOMAIN engine.rules : r = engine.rules[id]
    BY DEF Range
  <2>2. /\ r.priority \in Int /\ r.order \in Int
        /\ r.scope \in {"instance", "panel", "plugin"}
    BY <2>1 DEF EngineIsSound, RuleIsSound
  <2>3. ScopeWeight(r.scope) \in Int
    BY <2>2 DEF ScopeWeight
  <2> QED
    BY <2>2, <2>3
<1>3. ASSUME NEW r \in concerned, NEW x \in concerned, last[r] = last[x] PROVE r = x
  <2>1. PICK i \in DOMAIN engine.rules : r = engine.rules[i]
    BY DEF Range
  <2>2. PICK j \in DOMAIN engine.rules : x = engine.rules[j]
    BY DEF Range
  <2>3. engine.rules[i].order = engine.rules[j].order
    BY <1>3, <2>1, <2>2
  <2> QED
    BY <2>1, <2>2, <2>3 DEF EngineIsSound
<1>4. \A r, x \in concerned :
         <<r, x>> \in upto <=>
            \/ r = x
            \/ first[r] < first[x]
            \/ /\ first[r] = first[x]
               /\ \/ weight[r] < weight[x]
                  \/ weight[r] = weight[x] /\ last[r] < last[x]
  BY DEF RuleCompositeLess
<1>5. OrderedRules(event) = Listed(concerned, upto)
  BY DEF OrderedRules
<1> HIDE DEF upto, first, weight, last, concerned
<1>6. ASSUME NEW x \in concerned, NEW y \in concerned, NEW z \in concerned,
             <<x, y>> \in upto, <<y, z>> \in upto
      PROVE  <<x, z>> \in upto
  BY <1>2, <1>4, <1>6
<1>7. ASSUME NEW x \in concerned, NEW y \in concerned
      PROVE  <<x, y>> \in upto \/ <<y, x>> \in upto
  BY <1>2, <1>3, <1>4
<1>8. ASSUME NEW x \in concerned, NEW y \in concerned, <<x, y>> \in upto, <<y, x>> \in upto
      PROVE  x = y
  BY <1>2, <1>4, <1>8
<1>9. Enumerates(Listed(concerned, upto), Cardinality(concerned), concerned)
  BY <1>1, <1>6, <1>7, <1>8, ListedIs
<1> QED
  BY <1>5, <1>9 DEF concerned

FramesAreSound(st) == \A i \in DOMAIN st : FrameIsSound(st[i])

LEMMA PushFrames ==
    ASSUME NEW st, st \in Seq(Range(st)), FramesAreSound(st), NEW f, FrameIsSound(f)
    PROVE  FramesAreSound(Append(st, f))
<1> DEFINE more == Append(st, f)
<1>1. /\ DOMAIN more = 1 .. Len(st) + 1 /\ DOMAIN st = 1 .. Len(st) /\ Len(st) \in Nat
      /\ more[Len(st) + 1] = f /\ \A i \in DOMAIN st : more[i] = st[i]
  BY PushIs
<1> HIDE DEF more
<1>2. FramesAreSound(more)
  BY <1>1 DEF FramesAreSound
<1> QED
  BY <1>2 DEF more

LEMMA PopFrames ==
    ASSUME NEW st, st \in Seq(Range(st)), st # <<>>, FramesAreSound(st)
    PROVE  FramesAreSound(Front(st))
<1> DEFINE below == Front(st)
<1>1. \A i \in DOMAIN below : i \in DOMAIN st /\ below[i] = st[i]
  BY PopIs
<1> HIDE DEF below
<1>2. FramesAreSound(below)
  BY <1>1 DEF FramesAreSound
<1> QED
  BY <1>2 DEF below

LEMMA RewriteFrames ==
    ASSUME NEW st, FramesAreSound(st), NEW k, NEW f, k \in DOMAIN st => FrameIsSound(f),
           NEW other, other = [st EXCEPT ![k] = f]
    PROVE  FramesAreSound(other)
BY DEF FramesAreSound

LEMMA FlagFrame ==
    ASSUME NEW f, FrameIsSound(f), NEW b
    PROVE  FrameIsSound([f EXCEPT !.event.cancelled = b])
<1> DEFINE g == [f EXCEPT !.event.cancelled = b]
<1>1. /\ DOMAIN g = DOMAIN f /\ g.kind = f.kind
      /\ f.kind \in {"publish", "service"} =>
            DOMAIN g.event = DOMAIN f.event /\ g.event.at = f.event.at
      /\ f.kind = "service" => g.todo = f.todo
  BY DEF FrameIsSound
<1> HIDE DEF g
<1>2. FrameIsSound(g)
  BY <1>1 DEF FrameIsSound
<1> QED
  BY <1>2 DEF g

LEMMA ClaimFrames ==
    ASSUME NEW st, FramesAreSound(st) PROVE FramesAreSound(Cancelled(st))
<1> DEFINE k == Len(st) - 1
           f == [st[k] EXCEPT !.event.cancelled = TRUE]
<1>1. Cancelled(st) = [st EXCEPT ![k] = f]
  BY DEF Cancelled
<1>2. k \in DOMAIN st => FrameIsSound(f)
  BY FlagFrame DEF FramesAreSound
<1> HIDE DEF f, k
<1> QED
  BY <1>1, <1>2, RewriteFrames

LEMMA ReturnFrames ==
    ASSUME NEW st, st \in Seq(Range(st)), st # <<>>, FramesAreSound(st)
    PROVE  FramesAreSound(Returned(st))
<1> DEFINE below == Front(st)
           k == Len(below)
           b == below[k].event.cancelled /\ Last(below).event.cancellable
           f == [below[k] EXCEPT !.event.cancelled = b]
<1>1. FramesAreSound(below)
  BY PopFrames
<1> HIDE DEF below
<1>2. k \in DOMAIN below => FrameIsSound(f)
  BY <1>1, FlagFrame DEF FramesAreSound
<1>3. Returned(st) = [below EXCEPT ![k] = f]
  BY DEF Returned, below
<1> HIDE DEF f, k
<1> QED
  BY <1>1, <1>2, <1>3, RewriteFrames

LEMMA TailIs ==
    ASSUME NEW q, q \in Seq(Range(q)), q # <<>>
    PROVE  /\ Tail(q) \in Seq(Range(Tail(q)))
           /\ \A k \in DOMAIN Tail(q) : \E j \in DOMAIN q : Tail(q)[k] = q[j]
<1> DEFINE S == Range(q)
           t == Tail(q)
<1>1. q \in Seq(S)
  OBVIOUS
<1> HIDE DEF S
<1>2. /\ t \in Seq(S) /\ DOMAIN t = 1 .. Len(q) - 1 /\ DOMAIN q = 1 .. Len(q)
      /\ Len(q) \in Nat /\ \A k \in 1 .. Len(q) - 1 : t[k] = q[k + 1]
  BY <1>1
<1> HIDE DEF t
<1>3. t \in Seq(Range(t))
  BY <1>2, OwnRange
<1>4. \A k \in DOMAIN t : k + 1 \in DOMAIN q /\ t[k] = q[k + 1]
  BY <1>2
<1> QED
  BY <1>3, <1>4 DEF t

Remembered ==
    \A id \in DOMAIN fires :
       /\ id \in DOMAIN engine.rules /\ id \in DOMAIN engine.fired
       /\ fires[id] = engine.fired[id] /\ fires[id] \in Nat \ {0}

LEMMA FiresIs == FiresInv <=> clock \in Nat \ {0} /\ FramesAreSound(stack) /\ Remembered
BY DEF FiresInv, FramesAreSound, Remembered

LEMMA FiresIsNext ==
    FiresInv' <=> clock' \in Nat \ {0} /\ FramesAreSound(stack') /\ Remembered'
BY DEF FiresInv, FramesAreSound, Remembered

\* Whichever cycle goes on from old to new, the memory of its fire does.
Remembers(old, new) ==
    \A id \in SameCycle(old, new) :
       id \in DOMAIN old.fired => id \in DOMAIN new.fired /\ new.fired[id] = old.fired[id]

LEMMA BecomesRemembered ==
    ASSUME Remembered, NEW e, NEW table, EngineBecomes(e, table), Remembers(engine, e)
    PROVE  Remembered'
<1>1. engine' = e /\ fires' = Restrict(fires, DOMAIN fires \cap SameCycle(engine, e))
  BY DEF EngineBecomes
<1>2. /\ DOMAIN fires' = DOMAIN fires \cap SameCycle(engine, e)
      /\ \A id \in DOMAIN fires' : fires'[id] = fires[id]
  BY <1>1 DEF Restrict
<1>3. \A id \in SameCycle(engine, e) : id \in DOMAIN e.rules
  BY DEF SameCycle
<1> QED
  BY <1>1, <1>2, <1>3 DEF Remembered, Remembers

LEMMA RemovedRemembers ==
    ASSUME NEW e, {"rules", "fired"} \subseteq DOMAIN e, NEW ids
    PROVE  Remembers(e, Removed(e, ids))
BY RemovedIs DEF Remembers, SameCycle

\* An upsert leaves the others alone.
LEMMA UpsertedOthers ==
    ASSUME NEW e, NEW rule
    PROVE  LET new == Upserted(e, rule)
           IN  /\ DOMAIN new.rules = DOMAIN e.rules \cup {rule.id}
               /\ new.rules[rule.id] = [rule EXCEPT !.order = e.next]
               /\ \A id \in DOMAIN e.rules :
                     id # rule.id => new.rules[id] = e.rules[id]
               /\ \A id \in DOMAIN e.fired :
                     id # rule.id \/ ~BeginsCycle(e, rule) =>
                        id \in DOMAIN new.fired /\ new.fired[id] = e.fired[id]
BY DEF Upserted, With, Without, Restrict

LEMMA ScopedFields ==
    ASSUME NEW doc, NEW scope \in {"instance", "plugin", "panel"}, NEW owner
    PROVE  /\ {"enabled", "scope"} \subseteq DOMAIN Scoped(doc, scope, owner)
           /\ Scoped(doc, scope, owner).scope = scope
<1>1. {"enabled", "scope", "id", "owner"} \subseteq DOMAIN Compiled(doc)
  BY DEF Compiled
<1>2. CASE scope = "panel"
  BY <1>1, <1>2 DEF Scoped
<1>3. CASE scope = "instance"
  BY <1>1, <1>3 DEF Scoped
<1>4. CASE scope = "plugin"
  BY <1>1, <1>4 DEF Scoped
<1> QED
  BY <1>2, <1>3, <1>4

LEMMA CompiledIntoRemembers ==
    ASSUME NEW e, NEW doc, NEW owner
    PROVE  Remembers(e, CompileScopedInto(e, doc, "plugin", owner))
<1> DEFINE rule == Scoped(doc, "plugin", owner)
           new == Upserted(e, rule)
<1>1. Remembers(e, e)
  BY DEF Remembers
<1>2. /\ new.rules[rule.id] = [rule EXCEPT !.order = e.next]
      /\ \A id \in DOMAIN e.fired :
            id # rule.id \/ ~BeginsCycle(e, rule) =>
               id \in DOMAIN new.fired /\ new.fired[id] = e.fired[id]
  BY UpsertedOthers
<1>3. "enabled" \in DOMAIN rule
  BY ScopedFields
<1> HIDE DEF rule, new
<1>4. new.rules[rule.id].enabled = rule.enabled
  BY <1>2, <1>3
<1>5. rule.id \in SameCycle(e, new) => ~BeginsCycle(e, rule)
  BY <1>4 DEF SameCycle, BeginsCycle
<1>6. Remembers(e, new)
  BY <1>2, <1>5 DEF Remembers
<1> QED
  BY <1>1, <1>6 DEF CompileScopedInto, rule, new

\* What a load of instances has touched belongs to one of them; the rest is
\* as it was.
Loaded(old, new, uuids) ==
    \A id \in DOMAIN new.rules :
       \/ /\ id \in DOMAIN old.rules /\ new.rules[id] = old.rules[id]
          /\ id \in DOMAIN old.fired =>
                id \in DOMAIN new.fired /\ new.fired[id] = old.fired[id]
       \/ /\ new.rules[id].scope = "instance"
          /\ \E u \in uuids : IsStrictPrefix(<<"inst", u>>, id)

LEMMA CompiledIntoLoaded ==
    ASSUME NEW uuids \in SUBSET Uuids, NEW u \in uuids, NEW old, NEW e, Loaded(old, e, uuids),
           NEW doc \in AllDocs
    PROVE  Loaded(old, CompileScopedInto(e, doc, "instance", <<u>>), uuids)
<1>1. CASE Accepted(e, doc, "instance", <<u>>)
  <2> DEFINE rule == Scoped(doc, "instance", <<u>>)
             r == [rule EXCEPT !.order = e.next]
             new == Upserted(e, rule)
  <2>1. RuleIsSound(r, uuids, {}) /\ r.id = rule.id
    <3>1. Owns("instance", <<u>>, uuids, {}) /\ {} \in SUBSET Plugins
      BY DEF Owns
    <3>2. Compiles(doc)
      BY <1>1 DEF Accepted
    <3> QED
      BY <3>1, <3>2, ScopedIs
  <2>2. r.scope = "instance"
    <3>1. "scope" \in DOMAIN rule /\ rule.scope = "instance"
      BY ScopedFields
    <3> HIDE DEF rule
    <3> QED
      BY <3>1
  <2>3. /\ DOMAIN new.rules = DOMAIN e.rules \cup {rule.id}
        /\ new.rules[rule.id] = r
        /\ \A id \in DOMAIN e.rules : id # rule.id => new.rules[id] = e.rules[id]
        /\ \A id \in DOMAIN e.fired : id # rule.id =>
              id \in DOMAIN new.fired /\ new.fired[id] = e.fired[id]
    BY UpsertedOthers
  <2> HIDE DEF rule, r, new
  <2>4. \E v \in uuids : IsStrictPrefix(<<"inst", v>>, rule.id)
    BY <2>1, <2>2 DEF RuleIsSound
  <2>5. ASSUME NEW id \in DOMAIN new.rules
        PROVE  \/ /\ id \in DOMAIN old.rules /\ new.rules[id] = old.rules[id]
                  /\ id \in DOMAIN old.fired =>
                        id \in DOMAIN new.fired /\ new.fired[id] = old.fired[id]
               \/ /\ new.rules[id].scope = "instance"
                  /\ \E v \in uuids : IsStrictPrefix(<<"inst", v>>, id)
    <3>1. CASE id = rule.id
      BY <3>1, <2>2, <2>3, <2>4
    <3>2. CASE id # rule.id
      <4>1. id \in DOMAIN e.rules /\ new.rules[id] = e.rules[id]
        BY <3>2, <2>3
      <4> QED
        BY <3>2, <4>1, <2>3 DEF Loaded
    <3> QED
      BY <3>1, <3>2
  <2>6. Loaded(old, new, uuids)
    BY <2>5 DEF Loaded
  <2> QED
    BY <1>1, <2>6 DEF CompileScopedInto, rule, new
<1>2. CASE ~Accepted(e, doc, "instance", <<u>>)
  BY <1>2 DEF CompileScopedInto
<1> QED
  BY <1>1, <1>2

LEMMA InstanceLoadLoaded ==
    ASSUME NEW uuids \in SUBSET Uuids, NEW u \in uuids, NEW old, NEW e, Loaded(old, e, uuids),
           NEW readable
    PROVE  Loaded(old, LoadInstanceRulesInto(e, u, readable), uuids)
<1> DEFINE docs == IF readable THEN InstanceDocs[u] ELSE <<>>
<1>1. docs \in Seq(AllDocs)
  BY DocsAssumption
<1>2. LoadInstanceRulesInto(e, u, readable) = LoadRulesArrayInto(e, docs, "instance", <<u>>)
  BY DEF LoadInstanceRulesInto
<1> HIDE DEF docs
<1>3. Len(docs) \in Nat /\ \A n \in 1..Len(docs) : docs[n] \in AllDocs
  BY <1>1
<1>4. PICK g : /\ IsArrayLoad(g, e, docs, "instance", <<u>>, Len(docs))
               /\ LoadRulesArrayInto(e, docs, "instance", <<u>>) = g[Len(docs)]
  BY <1>3, ArrayLoadIsLast
<1>5. \A n \in 0..Len(docs) :
         g[n] = IF n = 0 THEN e ELSE CompileScopedInto(g[n - 1], docs[n], "instance", <<u>>)
  BY <1>4 DEF IsArrayLoad
<1> DEFINE bad == {n \in 0..Len(docs) : ~Loaded(old, g[n], uuids)}
<1>6. bad = {}
  <2> SUFFICES ASSUME bad # {} PROVE FALSE
    OBVIOUS
  <2>1. bad \subseteq Nat
    BY <1>3
  <2>2. PICK m \in bad : \A y \in bad : m <= y
    <3> HIDE DEF bad
    <3> QED
      BY <2>1, LeastNatural
  <2>3. m # 0
    BY <1>3, <1>5, <2>2
  <2>4. m - 1 \in 0..Len(docs) /\ m - 1 \notin bad /\ m \in 1..Len(docs)
    BY <1>3, <2>2, <2>3
  <2>5. Loaded(old, g[m - 1], uuids)
    BY <2>4
  <2>6. g[m] = CompileScopedInto(g[m - 1], docs[m], "instance", <<u>>) /\ docs[m] \in AllDocs
    BY <1>3, <1>5, <2>4
  <2>7. Loaded(old, g[m], uuids)
    BY <2>5, <2>6, CompiledIntoLoaded
  <2> QED
    BY <2>2, <2>7
<1>7. Loaded(old, g[Len(docs)], uuids)
  BY <1>3, <1>6
<1> QED
  BY <1>2, <1>4, <1>7

LEMMA InstancesLoadLoaded ==
    ASSUME NEW uuids \in SUBSET Uuids, NEW order \in Orders(uuids), NEW e, NEW readable
    PROVE  Loaded(e, LoadInstancesInto(e, order, readable), uuids)
<1>1. Cardinality(uuids) \in Nat
  BY NamesAssumption, FS_Subset, FS_CardinalityType
<1>2. order \in [1..Cardinality(uuids) -> uuids]
  BY DEF Orders
<1>3. order \in Seq(uuids)
  BY <1>1, <1>2
<1>4. Len(order) \in Nat /\ \A n \in 1..Len(order) : order[n] \in uuids
  BY <1>3
<1>5. PICK g : /\ IsInstancesLoad(g, e, order, readable, Len(order))
               /\ LoadInstancesInto(e, order, readable) = g[Len(order)]
  BY <1>4, InstancesLoadIsLast
<1>6. \A n \in 0..Len(order) :
         g[n] = IF n = 0 THEN e
                ELSE LoadInstanceRulesInto(g[n - 1], order[n], order[n] \in readable)
  BY <1>5 DEF IsInstancesLoad
<1> DEFINE bad == {n \in 0..Len(order) : ~Loaded(e, g[n], uuids)}
<1>7. bad = {}
  <2> SUFFICES ASSUME bad # {} PROVE FALSE
    OBVIOUS
  <2>1. bad \subseteq Nat
    BY <1>4
  <2>2. PICK m \in bad : \A y \in bad : m <= y
    <3> HIDE DEF bad
    <3> QED
      BY <2>1, LeastNatural
  <2>3. m # 0
    <3>1. Loaded(e, e, uuids)
      BY DEF Loaded
    <3> QED
      BY <3>1, <1>4, <1>6, <2>2
  <2>4. m - 1 \in 0..Len(order) /\ m - 1 \notin bad /\ m \in 1..Len(order)
    BY <1>4, <2>2, <2>3
  <2>5. Loaded(e, g[m - 1], uuids)
    BY <2>4
  <2>6. /\ g[m] = LoadInstanceRulesInto(g[m - 1], order[m], order[m] \in readable)
        /\ order[m] \in uuids
    BY <1>4, <1>6, <2>4
  <2>7. Loaded(e, g[m], uuids)
    BY <2>5, <2>6, InstanceLoadLoaded
  <2> QED
    BY <2>2, <2>7
<1>8. Loaded(e, g[Len(order)], uuids)
  BY <1>4, <1>7
<1> QED
  BY <1>5, <1>8

\* The rules of an instance are under its prefix and under no other's.
LEMMA OnePrefix ==
    ASSUME NEW u, NEW v, NEW id,
           IsStrictPrefix(<<"inst", u>>, id), IsStrictPrefix(<<"inst", v>>, id)
    PROVE  u = v
<1> DEFINE a == <<"inst", u>>
           b == <<"inst", v>>
           S == {"inst", u, v}
<1>1. a \in Seq(S) /\ b \in Seq(S) /\ Len(a) = 2 /\ Len(b) = 2 /\ a[2] = u /\ b[2] = v
  OBVIOUS
<1> HIDE DEF a, b, S
<1>2. SubSeq(id, 1, 2) = SubSeq(a, 1, 2) /\ SubSeq(id, 1, 2) = SubSeq(b, 1, 2)
  <2>1. IsStrictPrefix(a, id) /\ IsStrictPrefix(b, id)
    BY DEF a, b
  <2> QED
    BY <2>1, <1>1 DEF IsStrictPrefix, IsPrefix
<1>3. SubSeq(a, 1, 2)[2] = a[2] /\ SubSeq(b, 1, 2)[2] = b[2]
  BY <1>1
<1> QED
  BY <1>1, <1>2, <1>3

LEMMA LoadRemembers ==
    ASSUME NEW uuids \in SUBSET Uuids, NEW running, NEW e, EngineIsSound(e, uuids, running),
           NEW swept, NEW ids, swept = Removed(e, ids), NEW newcomers \in SUBSET Uuids,
           newcomers \cap uuids = {}, NEW order \in Orders(newcomers), NEW readable
    PROVE  Remembers(e, LoadInstancesInto(swept, order, readable))
<1> DEFINE new == LoadInstancesInto(swept, order, readable)
<1>1. Loaded(swept, new, newcomers)
  BY InstancesLoadLoaded
<1>2. {"rules", "fired"} \subseteq DOMAIN e
  BY DEF EngineIsSound
<1>3. /\ DOMAIN swept.rules = DOMAIN e.rules \ ids
      /\ \A id \in DOMAIN e.rules \ ids : swept.rules[id] = e.rules[id]
      /\ DOMAIN swept.fired = DOMAIN e.fired \ ids
      /\ \A id \in DOMAIN e.fired \ ids : swept.fired[id] = e.fired[id]
  BY <1>2, RemovedIs
<1> HIDE DEF new
<1>4. ASSUME NEW id \in SameCycle(e, new), id \in DOMAIN e.fired
      PROVE  id \in DOMAIN new.fired /\ new.fired[id] = e.fired[id]
  <2>1. /\ id \in DOMAIN e.rules /\ id \in DOMAIN new.rules
        /\ e.rules[id].scope = new.rules[id].scope
    BY DEF SameCycle
  <2>2. ~(new.rules[id].scope = "instance" /\ \E u \in newcomers : IsStrictPrefix(<<"inst", u>>, id))
    <3> SUFFICES ASSUME new.rules[id].scope = "instance", NEW u \in newcomers,
                        IsStrictPrefix(<<"inst", u>>, id)
                 PROVE  FALSE
      OBVIOUS
    <3>1. PICK v \in uuids : IsStrictPrefix(<<"inst", v>>, id)
      BY <2>1 DEF EngineIsSound, RuleIsSound
    <3>2. u = v
      BY <3>1, OnePrefix
    <3> QED
      BY <3>2
  <2>3. /\ id \in DOMAIN swept.rules
        /\ id \in DOMAIN swept.fired =>
              id \in DOMAIN new.fired /\ new.fired[id] = swept.fired[id]
    BY <1>1, <2>1, <2>2 DEF Loaded
  <2> QED
    BY <1>3, <1>4, <2>3
<1> QED
  BY <1>4 DEF Remembers, new

-----------------------------------------------------------------------------
(* The steps, as far as fires are spaced                                     *)

Spaced == clock \in Nat \ {0} /\ FramesAreSound(stack) /\ Remembered

LEMMA PublishedFrames ==
    ASSUME NEW st, st \in Seq(Range(st)), FramesAreSound(st), NEW table, NEW event,
           {"at", "cancelled"} \subseteq DOMAIN event, event.at \in Nat \ {0}
    PROVE  FramesAreSound(Published(st, table, event))
<1> DEFINE listeners == [i \in DOMAIN table[event.id] |-> table[event.id][i].listener]
           f == PublishFrame(event, listeners)
<1>1. FrameIsSound(f)
  BY DEF PublishFrame, FrameIsSound
<1>2. Published(st, table, event) = Append(st, f)
  BY DEF Published
<1> HIDE DEF f
<1> QED
  BY <1>1, <1>2, PushFrames

LEMMA PublishFrames ==
    ASSUME Steady(stack), Spaced, NEW id, NEW uuid, NEW cancellable, NEW payload,
           NEW table, PublishOn(table, Event(id, uuid, cancellable, payload))
    PROVE  FramesAreSound(stack')
<1> DEFINE event == Event(id, uuid, cancellable, payload)
<1>1. {"at", "cancelled"} \subseteq DOMAIN event /\ event.at \in Nat \ {0}
  BY DEF Event, Spaced
<1>2. stack' = stack \/ stack' = Published(stack, table, event)
  BY DEF PublishOn
<1> HIDE DEF event
<1>3. stack \in Seq(Range(stack)) /\ FramesAreSound(stack)
  BY DEF Steady, Alternates, Spaced
<1> QED
  BY <1>1, <1>2, <1>3, PublishedFrames

\* The frame on top, and what becomes of the stack when it is rewritten.
LEMMA TopFrame ==
    ASSUME Steady(stack), Spaced, stack # <<>>
    PROVE  /\ FrameIsSound(Last(stack)) /\ Last(stack) = stack[Len(stack)]
           /\ Len(stack) \in DOMAIN stack /\ stack \in Seq(Range(stack))
<1>1. Alternates(stack)
  BY DEF Steady
<1>2. Last(stack) = stack[Len(stack)] /\ Len(stack) \in DOMAIN stack
  BY <1>1, LengthIs
<1> QED
  BY <1>1, <1>2 DEF Alternates, Spaced, FramesAreSound

LEMMA RewrittenSeq ==
    ASSUME NEW st, st \in Seq(Range(st)), NEW k \in DOMAIN st, NEW frame,
           NEW other, other = [st EXCEPT ![k] = frame]
    PROVE  other \in Seq(Range(other))
BY RewriteIs

LEMMA CallingFrames ==
    ASSUME Steady(stack), Spaced, AtPublish
    PROVE  /\ Calling(stack) \in Seq(Range(Calling(stack))) /\ FramesAreSound(Calling(stack))
           /\ {"at", "cancelled"} \subseteq DOMAIN Top.event /\ Top.event.at \in Nat \ {0}
<1> DEFINE f == [stack[Len(stack)] EXCEPT !.todo = Tail(@)]
<1>1. /\ FrameIsSound(Last(stack)) /\ Last(stack) = stack[Len(stack)]
      /\ Len(stack) \in DOMAIN stack /\ stack \in Seq(Range(stack))
      /\ Last(stack).kind = "publish"
  BY TopFrame DEF AtPublish, Idle, Top, IsPublish
<1>2. FrameIsSound(f)
  BY <1>1 DEF FrameIsSound
<1>3. Calling(stack) = [stack EXCEPT ![Len(stack)] = f]
  BY DEF Calling
<1> HIDE DEF f
<1>4. Calling(stack) \in Seq(Range(Calling(stack)))
  BY <1>1, <1>3, RewrittenSeq
<1>5. FramesAreSound(Calling(stack))
  BY <1>2, <1>3, RewriteFrames DEF Spaced
<1> QED
  BY <1>1, <1>4, <1>5 DEF Top, FrameIsSound

LEMMA OnEventSpaced == ASSUME Steady(stack), Served, Spaced, OnEvent PROVE Spaced'
<1> DEFINE event == Top.event
           copy == OrderedRules(event)
           todo == IF event.cancelled THEN <<>> ELSE copy
           frame == [kind |-> "service", todo |-> todo, ctx |-> BuildContext(event),
                     event |-> event, rule |-> <<>>, actions |-> <<>>]
           concerned == {r \in Range(engine.rules) : Concerns(r, event)}
           n == Cardinality(concerned)
<1>1. /\ Calling(stack) \in Seq(Range(Calling(stack))) /\ FramesAreSound(Calling(stack))
      /\ {"at", "cancelled"} \subseteq DOMAIN event /\ event.at \in Nat \ {0}
  BY CallingFrames DEF OnEvent
<1>2. Enumerates(copy, n, concerned)
  BY OrderedRulesIs DEF Served
<1>3. \A r \in concerned : r.cooldown \in Nat
  BY DEF Served, EngineIsSound, RuleIsSound, Range
<1>4. stack' = Append(Calling(stack), frame) /\ UNCHANGED <<clock, engine, fires>>
  BY DEF OnEvent
<1> HIDE DEF copy, event, concerned, n
<1>5. todo \in Seq(Range(todo)) /\ \A k \in DOMAIN todo : todo[k].cooldown \in Nat
  <2>1. n \in Nat /\ copy \in [1 .. n -> concerned]
    BY <1>2 DEF Enumerates
  <2>2. copy \in Seq(concerned)
    BY <2>1
  <2>3. copy \in Seq(Range(copy))
    BY <2>2, OwnRange
  <2>4. \A k \in DOMAIN copy : copy[k].cooldown \in Nat
    BY <1>3, <2>1
  <2>5. <<>> \in Seq(Range(<<>>)) /\ DOMAIN <<>> = {}
    OBVIOUS
  <2> QED
    BY <2>3, <2>4, <2>5
<1> HIDE DEF todo
<1>6. FrameIsSound(frame)
  BY <1>1, <1>5 DEF FrameIsSound
<1> HIDE DEF frame
<1>7. FramesAreSound(stack')
  BY <1>1, <1>4, <1>6, PushFrames
<1> QED
  BY <1>4, <1>7 DEF Spaced, Remembered

LEMMA OnPluginSpaced == ASSUME Steady(stack), Spaced, OnPlugin PROVE Spaced'
<1> DEFINE frame == [kind |-> "plugin", owner |-> NextListener]
<1>1. Calling(stack) \in Seq(Range(Calling(stack))) /\ FramesAreSound(Calling(stack))
  BY CallingFrames DEF OnPlugin
<1>2. stack' = Append(Calling(stack), frame) /\ UNCHANGED <<clock, engine, fires>>
  BY DEF OnPlugin
<1>3. FrameIsSound(frame)
  BY DEF FrameIsSound
<1> HIDE DEF frame
<1>4. FramesAreSound(stack')
  BY <1>1, <1>2, <1>3, PushFrames
<1> QED
  BY <1>2, <1>4 DEF Spaced, Remembered

\* The service's own frame: its event is past the start, its rules have cooldowns.
LEMMA ServiceTop ==
    ASSUME Steady(stack), Spaced, AtService
    PROVE  LET f == Last(stack)
           IN  /\ FrameIsSound(f) /\ f = stack[Len(stack)] /\ Len(stack) \in DOMAIN stack
               /\ stack # <<>> /\ stack \in Seq(Range(stack)) /\ f.kind = "service"
               /\ {"kind", "event", "todo", "rule", "actions"} \subseteq DOMAIN f
               /\ f.event.at \in Nat \ {0} /\ f.todo \in Seq(Range(f.todo))
               /\ \A k \in DOMAIN f.todo : f.todo[k].cooldown \in Nat
<1>1. stack # <<>> /\ Last(stack).kind = "service"
  BY DEF AtService, Idle, Top
<1>2. FrameIsSound(Last(stack)) /\ Last(stack) = stack[Len(stack)]
      /\ Len(stack) \in DOMAIN stack /\ stack \in Seq(Range(stack))
  BY <1>1, TopFrame
<1> QED
  BY <1>1, <1>2 DEF FrameIsSound

LEMMA ServiceGoesOn ==
    ASSUME Steady(stack), Spaced, AtService, NEW f, DOMAIN f = DOMAIN Last(stack),
           f.kind = "service", f.event = Last(stack).event, f.todo \in Seq(Range(f.todo)),
           \A k \in DOMAIN f.todo : f.todo[k].cooldown \in Nat
    PROVE  FrameIsSound(f) /\ FramesAreSound([stack EXCEPT ![Len(stack)] = f])
<1>1. FrameIsSound(f)
  BY ServiceTop DEF FrameIsSound
<1> QED
  BY <1>1, RewriteFrames DEF Spaced

LEMMA TailHasCooldowns ==
    ASSUME Steady(stack), Spaced, AtRule
    PROVE  LET rest == Tail(Last(stack).todo)
           IN  /\ rest \in Seq(Range(rest)) /\ \A k \in DOMAIN rest : rest[k].cooldown \in Nat
               /\ NextRule.cooldown \in Nat
<1> DEFINE q == Last(stack).todo
<1>1. /\ q \in Seq(Range(q)) /\ q # <<>>
      /\ \A k \in DOMAIN q : q[k].cooldown \in Nat
  BY ServiceTop DEF AtRule, Top
<1>2. NextRule = q[1]
  BY DEF NextRule, Top
<1> HIDE DEF q
<1>3. 1 \in DOMAIN q
  BY <1>1
<1> DEFINE rest == Tail(q)
<1>4. rest \in Seq(Range(rest)) /\ \A k \in DOMAIN rest : \E j \in DOMAIN q : rest[k] = q[j]
  BY <1>1, TailIs
<1> HIDE DEF rest
<1>5. \A k \in DOMAIN rest : rest[k].cooldown \in Nat
  BY <1>1, <1>4
<1> QED
  BY <1>1, <1>2, <1>3, <1>4, <1>5 DEF q, rest

LEMMA SkipRuleSpaced == ASSUME Steady(stack), Spaced, SkipRule PROVE Spaced'
<1> DEFINE f == [Last(stack) EXCEPT !.todo = Tail(@)]
<1>1. AtService /\ AtRule
  BY DEF SkipRule, AtRule
<1>2. stack' = [stack EXCEPT ![Len(stack)] = f] /\ UNCHANGED <<clock, engine, fires>>
  BY <1>1, ServiceTop DEF SkipRule
<1>3. /\ DOMAIN f = DOMAIN Last(stack) /\ f.kind = "service" /\ f.event = Last(stack).event
      /\ f.todo = Tail(Last(stack).todo)
  BY <1>1, ServiceTop
<1> HIDE DEF f
<1>4. FramesAreSound(stack')
  BY <1>1, <1>2, <1>3, TailHasCooldowns, ServiceGoesOn
<1> QED
  BY <1>2, <1>4 DEF Spaced, Remembered

LEMMA ActionsSpaced ==
    ASSUME Steady(stack), Spaced, AtService, NEW actions
    PROVE  FramesAreSound([stack EXCEPT ![Len(stack)].actions = actions])
<1> DEFINE f == [Last(stack) EXCEPT !.actions = actions]
           rest == [stack EXCEPT ![Len(stack)].actions = actions]
<1>1. rest = [stack EXCEPT ![Len(stack)] = f]
  BY ServiceTop
<1>2. /\ DOMAIN f = DOMAIN Last(stack) /\ f.kind = "service" /\ f.event = Last(stack).event
      /\ f.todo = Last(stack).todo
  BY ServiceTop
<1>3. f.todo \in Seq(Range(f.todo)) /\ \A k \in DOMAIN f.todo : f.todo[k].cooldown \in Nat
  BY <1>2, ServiceTop
<1> HIDE DEF f
<1> QED
  BY <1>1, <1>2, <1>3, ServiceGoesOn

LEMMA ActSpaced == ASSUME Steady(stack), Spaced, NEW willing, Act(willing) PROVE Spaced'
<1> DEFINE a == Head(Top.actions)
           ok == willing /\ ActionAllowed(Top.rule, a, Top.ctx)
           actions == IF ok THEN Tail(stack[Len(stack)].actions) ELSE <<>>
<1>1. /\ stack' = [stack EXCEPT ![Len(stack)].actions = actions]
      /\ UNCHANGED <<clock, engine, fires>> /\ AtService
  BY DEF Act, AtAction
<1> HIDE DEF actions
<1>2. FramesAreSound(stack')
  BY <1>1, ActionsSpaced
<1> QED
  BY <1>1, <1>2 DEF Spaced, Remembered

LEMMA ActPublishSpaced == ASSUME Steady(stack), Spaced, ActPublish PROVE Spaced'
<1> DEFINE event == Event(Head(Top.actions)["event"].v, Top.event.uuid, FALSE, <<>>)
           result == PublishResult(stack, subs, event)
           actions == IF result \in {"Ok", "Dispatched"} THEN Tail(stack[Len(stack)].actions) ELSE <<>>
           rest == [stack EXCEPT ![Len(stack)].actions = actions]
<1>1. /\ stack' = rest \/ stack' = Published(rest, subs, event)
      /\ UNCHANGED <<clock, engine, fires>> /\ AtService
  BY DEF ActPublish, AtAction
<1>2. {"at", "cancelled"} \subseteq DOMAIN event /\ event.at \in Nat \ {0}
  BY DEF Event, Spaced
<1> HIDE DEF event, actions
<1>3. FramesAreSound(rest) /\ rest \in Seq(Range(rest))
  <2>1. Steady(rest)
    BY <1>1, ActionsSteady
  <2> QED
    BY <1>1, <2>1, ActionsSpaced DEF Steady, Alternates
<1> HIDE DEF rest
<1>4. FramesAreSound(stack')
  BY <1>1, <1>2, <1>3, PublishedFrames
<1> QED
  BY <1>1, <1>4 DEF Spaced, Remembered

LEMMA ServiceReturnsSpaced == ASSUME Steady(stack), Spaced, ServiceReturns PROVE Spaced'
<1>1. FramesAreSound(stack')
  BY ServiceTop, ReturnFrames DEF ServiceReturns, Spaced
<1> QED
  BY <1>1 DEF ServiceReturns, Spaced, Remembered

LEMMA PluginReturnsSpaced ==
    ASSUME Steady(stack), Spaced, NEW claims, PluginReturns(claims) PROVE Spaced'
<1> DEFINE st == IF claims THEN Cancelled(stack) ELSE stack
<1>1. stack # <<>> /\ ~IsPublish(Last(stack))
  BY DEF PluginReturns, Idle, Top, IsPublish
<1>2. Steady(st) /\ st # <<>>
  BY <1>1, ClaimSteady
<1>3. FramesAreSound(st)
  BY ClaimFrames DEF Spaced
<1>4. stack' = Returned(st) /\ UNCHANGED <<clock, engine, fires>>
  BY DEF PluginReturns
<1> HIDE DEF st
<1>5. FramesAreSound(stack')
  BY <1>2, <1>3, <1>4, ReturnFrames DEF Steady, Alternates
<1> QED
  BY <1>4, <1>5 DEF Spaced, Remembered

LEMMA PublishReturnsSpaced == ASSUME Steady(stack), Spaced, PublishReturns PROVE Spaced'
<1>1. stack # <<>> /\ stack' = Front(stack) /\ UNCHANGED <<clock, engine, fires>>
  BY DEF PublishReturns, PublishEnds, AtPublish, Idle
<1>2. FramesAreSound(stack')
  BY <1>1, PopFrames DEF Steady, Alternates, Spaced
<1> QED
  BY <1>1, <1>2 DEF Spaced, Remembered

LEMMA FireRuleSpaced == ASSUME Steady(stack), Served, Spaced, FireRule PROVE Spaced'
<1> DEFINE rule == NextRule
           at == Top.event.at
           f == [Last(stack) EXCEPT !.todo = Tail(@), !.rule = rule,
                                    !.actions = IF rule.dryRun THEN <<>> ELSE rule.actions]
           begun == [stack EXCEPT ![Len(stack)].todo = Tail(@),
                                  ![Len(stack)].rule = rule,
                                  ![Len(stack)].actions =
                                      IF rule.dryRun THEN <<>> ELSE rule.actions]
<1>1. AtService /\ AtRule
  BY DEF FireRule, AtRule
<1>2. /\ stack' = Cancelled(begun) \/ stack' = begun
      /\ engine' = FireRecorded(engine, rule, at) /\ UNCHANGED clock
      /\ fires' = IF rule.id \in DOMAIN engine.rules THEN With(fires, rule.id, at) ELSE fires
  BY DEF FireRule
<1>3. begun = [stack EXCEPT ![Len(stack)] = f]
  BY <1>1, ServiceTop
<1>4. /\ DOMAIN f = DOMAIN Last(stack) /\ f.kind = "service" /\ f.event = Last(stack).event
      /\ f.todo = Tail(Last(stack).todo)
  BY <1>1, ServiceTop
<1>5. at \in Nat \ {0}
  BY <1>1, ServiceTop DEF Top
<1> HIDE DEF f, begun, rule, at
<1>6. FramesAreSound(begun)
  BY <1>1, <1>3, <1>4, TailHasCooldowns, ServiceGoesOn
<1>7. FramesAreSound(stack')
  BY <1>2, <1>6, ClaimFrames
<1>8. Remembered'
  <2>1. CASE rule.id \notin DOMAIN engine.rules
    BY <1>2, <2>1 DEF FireRecorded, Remembered, Spaced
  <2>2. CASE rule.id \in DOMAIN engine.rules
    <3>1. {"rules", "fired"} \subseteq DOMAIN engine
      BY DEF Served, EngineIsSound
    <3>2. engine'.rules = engine.rules /\ engine'.fired = With(engine.fired, rule.id, at)
      BY <1>2, <2>2, <3>1 DEF FireRecorded
    <3>3. fires' = With(fires, rule.id, at)
      BY <1>2, <2>2
    <3> QED
      BY <1>5, <2>2, <3>2, <3>3 DEF With, Remembered, Spaced
  <2> QED
    BY <2>1, <2>2
<1> QED
  BY <1>2, <1>7, <1>8 DEF Spaced

LEMMA DispatchSpaced == ASSUME Steady(stack), Served, Spaced, Dispatch PROVE Spaced'
BY OnEventSpaced, OnPluginSpaced, SkipRuleSpaced, FireRuleSpaced, ActPublishSpaced,
   ServiceReturnsSpaced, PublishReturnsSpaced, ActSpaced, PluginReturnsSpaced DEF Dispatch

LEMMA EnvironmentSpaced == ASSUME Steady(stack), Served, Spaced, Environment PROVE Spaced'
<1>1. CASE Tick \/ SwitchWrites \/ NextEra
  BY <1>1 DEF Tick, SwitchWrites, NextEra, Spaced, Remembered
<1>2. ASSUME NEW h \in HostEvents, HostPublishes(h) PROVE Spaced'
  BY <1>2, PublishFrames DEF HostPublishes, Publish, Spaced, Remembered
<1>3. ASSUME NEW p \in Plugins, NEW e \in EventIds, PluginPublishes(p, e) PROVE Spaced'
  BY <1>3, PublishFrames DEF PluginPublishes, Publish, Spaced, Remembered
<1>4. ASSUME NEW p \in Plugins, StartPlugin(p) \/ InitializeFails(p) \/ ShutdownBegins(p)
      PROVE Spaced'
  BY <1>4 DEF StartPlugin, InitializeFails, ShutdownBegins, Spaced, Remembered
<1>11. ASSUME NEW p \in Plugins, InitializeReturns(p) PROVE Spaced'
  BY <1>11, PublishFrames DEF InitializeReturns, Publish, PluginEvent, Spaced, Remembered
<1>5. ASSUME NEW p \in Plugins, StopPlugin(p) PROVE Spaced'
  <2>1. {"rules", "fired"} \subseteq DOMAIN engine
    BY DEF Served, EngineIsSound
  <2>2. FramesAreSound(stack') /\ UNCHANGED clock
    BY <1>5, PublishFrames DEF StopPlugin, PluginEvent
  <2>3. Remembered'
    BY <1>5, <2>1, RemovedRemembers, BecomesRemembered DEF StopPlugin, Spaced
  <2> QED
    BY <2>2, <2>3 DEF Spaced
<1>6. ASSUME NEW p \in Plugins, NEW d \in Docs, RegisterPluginRule(p, d) PROVE Spaced'
  <2>1. PICK e \in {engine, CompileScopedInto(engine, d, "plugin", p)} : EngineBecomes(e, subs)
    BY <1>6 DEF RegisterPluginRule
  <2>2. Remembers(engine, engine)
    BY DEF Remembers
  <2>3. Remembered'
    BY <2>1, <2>2, CompiledIntoRemembers, BecomesRemembered DEF Spaced
  <2> QED
    BY <1>6, <2>3 DEF RegisterPluginRule, Spaced
<1>7. ASSUME NEW p \in Plugins, NEW bareId, UnregisterPluginRule(p, bareId) PROVE Spaced'
  <2>1. PICK e \in {engine, Removed(engine, {<<"plugin">> \o p \o bareId})} :
           EngineBecomes(e, subs)
    BY <1>7 DEF UnregisterPluginRule
  <2>2. Remembers(engine, engine) /\ {"rules", "fired"} \subseteq DOMAIN engine
    BY DEF Remembers, Served, EngineIsSound
  <2>3. Remembered'
    BY <2>1, <2>2, RemovedRemembers, BecomesRemembered DEF Spaced
  <2> QED
    BY <1>7, <2>3 DEF UnregisterPluginRule, Spaced
<1>8. ASSUME NEW w \in Wanted,
             PluginUnsubscribes(w[1], w[2]) \/ PluginSubscribes(w[1], w[2], w[3])
      PROVE Spaced'
  BY <1>8 DEF PluginUnsubscribes, PluginSubscribes, Spaced, Remembered
<1>9. ASSUME NEW us \in SUBSET Uuids, NEW ok \in SUBSET Uuids, NEW new \in [us -> Rows],
             RosterChanged(new, ok)
      PROVE Spaced'
  <2> DEFINE gone == knownUuids \ us
             ids == UNION {UnderPrefix(engine, <<"inst", u>>) : u \in gone}
             swept == Removed(engine, ids)
  <2>1. DOMAIN new = us
    OBVIOUS
  <2>2. PICK order \in Orders(us \ knownUuids) :
           EngineBecomes(LoadInstancesInto(swept, order, ok), subs)
    BY <1>9, <2>1 DEF RosterChanged
  <2>3. UNCHANGED <<clock, stack>>
    BY <1>9 DEF RosterChanged
  <2>4. /\ knownUuids \in SUBSET Uuids /\ EngineIsSound(engine, knownUuids, Holders)
        /\ us \ knownUuids \in SUBSET Uuids /\ (us \ knownUuids) \cap knownUuids = {}
        /\ swept = Removed(engine, ids)
    BY DEF Served
  <2> HIDE DEF swept, ids
  <2>5. Remembers(engine, LoadInstancesInto(swept, order, ok))
    BY <2>4, LoadRemembers
  <2>6. Remembered'
    BY <2>2, <2>5, BecomesRemembered DEF Spaced
  <2> QED
    BY <2>3, <2>6 DEF Spaced
<1>10. ASSUME NEW u \in Uuids, NEW pack, InstanceStateChanged(u, pack) PROVE Spaced'
  BY <1>10 DEF InstanceStateChanged, gates, Spaced, Remembered
<1> QED
  BY <1>1, <1>2, <1>3, <1>4, <1>5, <1>6, <1>7, <1>8, <1>9, <1>10, <1>11
  DEF Environment

LEMMA FiresInitially == RuleInit => FiresInv
<1> SUFFICES ASSUME RuleInit PROVE Spaced
  BY FiresIs DEF Spaced
<1>1. clock = 1 /\ stack = <<>> /\ fires = <<>>
  BY DEF RuleInit
<1>2. DOMAIN stack = {} /\ DOMAIN fires = {}
  BY <1>1
<1> QED
  BY <1>1, <1>2 DEF Spaced, FramesAreSound, Remembered

LEMMA FiresInductive ==
    DispatchInv /\ ServedInv /\ FiresInv /\ [RuleNext]_ruleVars => FiresInv'
<1> SUFFICES ASSUME Steady(stack), Served, Spaced, [RuleNext]_ruleVars PROVE Spaced'
  BY SteadyIs, ServedIs, FiresIs, FiresIsNext DEF Spaced
<1>1. CASE UNCHANGED ruleVars
  BY <1>1 DEF ruleVars, Spaced, Remembered
<1>2. CASE Dispatch
  BY <1>2, DispatchSpaced
<1>3. CASE Environment
  BY <1>3, EnvironmentSpaced
<1> QED
  BY <1>1, <1>2, <1>3 DEF RuleNext

\* What the service works off and what the engine remembers stay in step: no
\* load, sweep or upsert forgets the fire of a cycle that goes on.
THEOREM FiresInvHolds == RuleSpec => []FiresInv
BY DispatchInvHolds, ServedInvHolds, FiresInitially, FiresInductive, PTL DEF RuleSpec

LEMMA FireIsSpaced ==
    DispatchInv /\ FiresInv /\ FireRule /\ NextRule.id \in DOMAIN fires =>
       /\ ~NextRule.oneShot
       /\ NextRule.cooldown = 0 \/ Top.event.at - fires[NextRule.id] >= NextRule.cooldown
<1> SUFFICES ASSUME DispatchInv, FiresInv, FireRule, NextRule.id \in DOMAIN fires
             PROVE  /\ ~NextRule.oneShot
                    /\ \/ NextRule.cooldown = 0
                       \/ Top.event.at - fires[NextRule.id] >= NextRule.cooldown
  OBVIOUS
<1>1. Steady(stack) /\ Spaced
  BY SteadyIs, FiresIs DEF Spaced
<1>2. AtService /\ AtRule /\ Rested(engine, NextRule, Top.event.at)
  BY DEF FireRule, AtRule, Fires, ShouldFire
<1>3. Top.event.at \in Nat \ {0} /\ NextRule.cooldown \in Nat
  BY <1>1, <1>2, ServiceTop, TailHasCooldowns DEF Top
<1>4. /\ NextRule.id \in DOMAIN engine.fired
      /\ fires[NextRule.id] = engine.fired[NextRule.id] /\ fires[NextRule.id] \in Nat \ {0}
  BY <1>1 DEF Spaced, Remembered
<1> QED
  BY <1>2, <1>3, <1>4 DEF Rested

\* A one-shot rule fires once, and any other not before its cooldown is over,
\* in each of its enabled cycles.
THEOREM FiresAreSpacedHolds == RuleSpec => FiresAreSpaced
<1>1. DispatchInv /\ FiresInv /\ [RuleNext]_ruleVars =>
         [(FireRule /\ NextRule.id \in DOMAIN fires) =>
             /\ ~NextRule.oneShot
             /\ \/ NextRule.cooldown = 0
                \/ Top.event.at - fires[NextRule.id] >= NextRule.cooldown]_ruleVars
  BY FireIsSpaced
<1> QED
  BY <1>1, DispatchInvHolds, FiresInvHolds, PTL DEF RuleSpec, FiresAreSpaced
=============================================================================
