--------------------------- MODULE PanelStoreProofs ---------------------------
(***************************************************************************)
(* Proofs about what is kept across a restart, for any number of           *)
(* instances, preferences, images, files and panels: the roster and its    *)
(* two tables, the settings, the image library, the move of the            *)
(* configuration directory, and the place, size and layout of a pet, for   *)
(* any number of each; then the same of the run that composes them.        *)
(***************************************************************************)
EXTENDS MCPanelStore, WellFoundedInduction, TLAPS

-----------------------------------------------------------------------------
(* Subsequences. What upTo computes is shown by descent to the least place  *)
(* at which it would be wrong.                                              *)

\* A set of naturals has a least element.
LEMMA LeastNatural ==
    ASSUME NEW T, T \subseteq Nat, T # {} PROVE \E x \in T : \A y \in T : x <= y
<1>1. PICK x \in T : \A y \in T : ~ (<<y, x>> \in OpToRel(<, Nat))
  BY NatLessThanWellFounded, WFMin, Zenon
<1>2. \A y \in T : y < x => <<y, x>> \in OpToRel(<, Nat)
  BY Zenon DEF OpToRel
<1>3. \A y \in T : ~(y < x)
  BY <1>1, <1>2, Zenon
<1> QED
  BY <1>3

\* The step of a subsequence: what place n adds to that of the places before.
Extended(before, u, kept) == IF u \in kept THEN Append(before, u) ELSE before

\* upTo is the table of the subsequences of the prefixes of seq up to length m.
IsUpTo(upTo, seq, kept, m) ==
    upTo = [n \in 0 .. m |-> IF n = 0 THEN <<>> ELSE Extended(upTo[n - 1], seq[n], kept)]

\* There is such a table for every prefix.
LEMMA UpToExists ==
    ASSUME NEW seq, NEW kept, NEW l \in Nat
    PROVE \E g : IsUpTo(g, seq, kept, l)
<1> DEFINE bad == {m \in Nat : ~ \E g : IsUpTo(g, seq, kept, m)}
<1> SUFFICES ASSUME bad # {} PROVE FALSE
  OBVIOUS
<1>1. PICK m \in bad : \A y \in bad : m <= y
  BY LeastNatural
<1>2. m # 0
  <2> DEFINE g == [n \in 0 .. 0 |-> <<>>]
  <2>1. IsUpTo(g, seq, kept, 0)
    BY DEF IsUpTo
  <2> QED
    BY <2>1
<1>3. m - 1 \in Nat /\ m - 1 \notin bad
  BY <1>1, <1>2
<1>4. PICK g : IsUpTo(g, seq, kept, m - 1)
  BY <1>3
<1> DEFINE h == [n \in 0 .. m |-> IF n < m THEN g[n] ELSE Extended(g[m - 1], seq[m], kept)]
<1>5. \A n \in 0 .. m : h[n] = IF n = 0 THEN <<>> ELSE Extended(h[n - 1], seq[n], kept)
  BY <1>2, <1>3, <1>4 DEF IsUpTo
<1>6. IsUpTo(h, seq, kept, m)
  BY <1>5 DEF IsUpTo
<1> QED
  BY <1>1, <1>6

\* Subsequence reads the end of such a table.
LEMMA SubsequenceIsLast ==
    ASSUME NEW S, NEW seq \in Seq(S), NEW kept
    PROVE \E g : /\ IsUpTo(g, seq, kept, Len(seq))
                 /\ Subsequence(seq, kept) = g[Len(seq)]
<1> DEFINE G == CHOOSE g : g = [n \in 0 .. Len(seq) |->
                    IF n = 0 THEN <<>>
                    ELSE IF seq[n] \in kept THEN Append(g[n - 1], seq[n]) ELSE g[n - 1]]
<1>1. \E g : g = [n \in 0 .. Len(seq) |->
                    IF n = 0 THEN <<>>
                    ELSE IF seq[n] \in kept THEN Append(g[n - 1], seq[n]) ELSE g[n - 1]]
  <2>1. PICK g : IsUpTo(g, seq, kept, Len(seq))
    BY UpToExists
  <2> QED
    BY <2>1 DEF IsUpTo, Extended
<1>2. IsUpTo(G, seq, kept, Len(seq))
  BY <1>1 DEF IsUpTo, Extended
<1>3. Subsequence(seq, kept) = G[Len(seq)]
  BY DEF Subsequence
<1> QED
  BY <1>2, <1>3

\* Appending adds the element, and repeats none that was not there.
LEMMA AppendAdds ==
    ASSUME NEW S, NEW s \in Seq(S), NEW u \in S
    PROVE /\ Append(s, u) \in Seq(S)
          /\ ToSet(Append(s, u)) = ToSet(s) \cup {u}
          /\ IsInjective(s) /\ u \notin ToSet(s) => IsInjective(Append(s, u))
          /\ Last(Append(s, u)) = u /\ Append(s, u) # <<>>
<1>1. /\ Append(s, u) \in Seq(S) /\ Len(Append(s, u)) = Len(s) + 1
      /\ \A i \in 1 .. Len(s) : Append(s, u)[i] = s[i]
      /\ Append(s, u)[Len(s) + 1] = u
      /\ DOMAIN Append(s, u) = 1 .. Len(s) + 1 /\ DOMAIN s = 1 .. Len(s)
      /\ Len(s) \in Nat
  OBVIOUS
<1> DEFINE a == Append(s, u)
<1> HIDE DEF a
<1>2. DOMAIN a = 1 .. Len(s) + 1 /\ Len(a) = Len(s) + 1 /\ a[Len(s) + 1] = u
      /\ \A i \in 1 .. Len(s) : a[i] = s[i]
  BY <1>1 DEF a
<1>3. ToSet(a) = ToSet(s) \cup {u}
  BY <1>1, <1>2 DEF ToSet
<1>4. IsInjective(s) /\ u \notin ToSet(s) => IsInjective(a)
  BY <1>1, <1>2 DEF IsInjective, ToSet
<1>5. Last(a) = u /\ a # <<>>
  BY <1>1, <1>2 DEF Last
<1> QED
  BY <1>1, <1>3, <1>4, <1>5 DEF a

\* What the first n places have left: their members of kept, once each if the
\* sequence names each once, and themselves if all of them are kept.
IsSubsequence(sub, seq, kept, n) ==
    /\ \A u : u \in ToSet(sub) <=> u \in kept /\ \E i \in 1 .. n : seq[i] = u
    /\ IsInjective(seq) => IsInjective(sub)
    /\ ToSet(seq) \subseteq kept => Len(sub) = n /\ \A i \in 1 .. n : sub[i] = seq[i]

LEMMA UpToIsSubsequence ==
    ASSUME NEW S, NEW seq \in Seq(S), NEW kept, NEW g, IsUpTo(g, seq, kept, Len(seq)),
           NEW n \in 0 .. Len(seq)
    PROVE g[n] \in Seq(S) /\ IsSubsequence(g[n], seq, kept, n)
<1> DEFINE Good(k) == g[k] \in Seq(S) /\ IsSubsequence(g[k], seq, kept, k)
<1> DEFINE bad == {k \in 0 .. Len(seq) : ~Good(k)}
<1> SUFFICES ASSUME bad # {} PROVE FALSE
  OBVIOUS
<1>1. PICK m \in bad : \A y \in bad : m <= y
  <2>1. bad \subseteq Nat
    OBVIOUS
  <2> HIDE DEF bad
  <2> QED
    BY <2>1, LeastNatural
<1>2. Good(0)
  <2>1. g[0] = <<>>
    BY DEF IsUpTo
  <2>2. <<>> \in Seq(S) /\ ToSet(<<>>) = {} /\ IsInjective(<<>>) /\ Len(<<>>) = 0
    BY DEF ToSet, IsInjective
  <2> QED
    BY <2>1, <2>2 DEF IsSubsequence
<1>3. m \in 1 .. Len(seq)
  BY <1>1, <1>2
<1>4. Good(m - 1)
  BY <1>1, <1>3
<1>5. g[m] = Extended(g[m - 1], seq[m], kept)
  BY <1>3 DEF IsUpTo
<1> DEFINE b == g[m - 1]
<1>6. Good(m)
  <2>1. /\ b \in Seq(S) /\ IsSubsequence(b, seq, kept, m - 1) /\ seq[m] \in S
        /\ g[m] = Extended(b, seq[m], kept)
    BY <1>3, <1>4, <1>5
  <2> HIDE DEF b
  <2>2. CASE seq[m] \notin kept
    <3>1. g[m] = b
      BY <2>1, <2>2 DEF Extended
    <3>2. ~(ToSet(seq) \subseteq kept)
      BY <1>3, <2>2 DEF ToSet
    <3>3. ASSUME NEW u PROVE u \in ToSet(b) <=> u \in kept /\ \E i \in 1 .. m : seq[i] = u
      <4>1. u \in ToSet(b) <=> u \in kept /\ \E i \in 1 .. m - 1 : seq[i] = u
        BY <2>1 DEF IsSubsequence
      <4> QED
        BY <1>3, <2>2, <4>1
    <3> QED
      BY <2>1, <3>1, <3>2, <3>3 DEF IsSubsequence
  <2>3. CASE seq[m] \in kept
    <3>1. g[m] = Append(b, seq[m])
      BY <2>1, <2>3 DEF Extended
    <3>2. /\ Append(b, seq[m]) \in Seq(S)
          /\ ToSet(Append(b, seq[m])) = ToSet(b) \cup {seq[m]}
          /\ IsInjective(b) /\ seq[m] \notin ToSet(b) => IsInjective(Append(b, seq[m]))
      BY <2>1, AppendAdds
    <3>3. ASSUME NEW u PROVE u \in ToSet(g[m]) <=> u \in kept /\ \E i \in 1 .. m : seq[i] = u
      <4>1. u \in ToSet(b) <=> u \in kept /\ \E i \in 1 .. m - 1 : seq[i] = u
        BY <2>1 DEF IsSubsequence
      <4> QED
        BY <1>3, <2>3, <3>1, <3>2, <4>1
    <3>4. IsInjective(seq) => IsInjective(g[m])
      <4> SUFFICES ASSUME IsInjective(seq) PROVE IsInjective(g[m])
        OBVIOUS
      <4>1. \A i \in 1 .. m - 1 : seq[i] # seq[m]
        BY <1>3 DEF IsInjective
      <4>2. seq[m] \notin ToSet(b)
        BY <2>1, <4>1 DEF IsSubsequence
      <4> QED
        BY <2>1, <3>1, <3>2, <4>2 DEF IsSubsequence
    <3>5. ToSet(seq) \subseteq kept => Len(g[m]) = m /\ \A i \in 1 .. m : g[m][i] = seq[i]
      <4> SUFFICES ASSUME ToSet(seq) \subseteq kept PROVE Len(g[m]) = m /\ \A i \in 1 .. m : g[m][i] = seq[i]
        OBVIOUS
      <4>1. Len(b) = m - 1 /\ \A i \in 1 .. m - 1 : b[i] = seq[i]
        BY <2>1 DEF IsSubsequence
      <4> QED
        BY <1>3, <2>1, <3>1, <4>1
    <3> QED
      BY <3>1, <3>2, <3>3, <3>4, <3>5 DEF IsSubsequence
  <2> QED
    BY <2>2, <2>3
<1> QED
  BY <1>1, <1>6

\* Subsequence(seq, kept) has the members of seq that are kept, in their order.
LEMMA SubsequenceIs ==
    ASSUME NEW S, NEW seq \in Seq(S), NEW kept
    PROVE /\ Subsequence(seq, kept) \in Seq(S)
          /\ ToSet(Subsequence(seq, kept)) = ToSet(seq) \cap kept
          /\ IsInjective(seq) => IsInjective(Subsequence(seq, kept))
          /\ ToSet(seq) \subseteq kept => Subsequence(seq, kept) = seq
<1>1. PICK g : IsUpTo(g, seq, kept, Len(seq)) /\ Subsequence(seq, kept) = g[Len(seq)]
  BY SubsequenceIsLast
<1> DEFINE sub == Subsequence(seq, kept)
<1>2. sub \in Seq(S) /\ IsSubsequence(sub, seq, kept, Len(seq))
  BY <1>1, UpToIsSubsequence
<1> HIDE DEF sub
<1>3. ToSet(sub) = ToSet(seq) \cap kept
  <2>1. \A u : u \in ToSet(seq) <=> \E i \in 1 .. Len(seq) : seq[i] = u
    BY DEF ToSet
  <2> QED
    BY <1>2, <2>1 DEF IsSubsequence
<1>4. ToSet(seq) \subseteq kept => sub = seq
  BY <1>2 DEF IsSubsequence
<1> QED
  BY <1>2, <1>3, <1>4 DEF sub, IsSubsequence

\* Nothing else about kept matters.
LEMMA SubsequenceOfSame ==
    ASSUME NEW S, NEW seq \in Seq(S), NEW kept, NEW other,
           \A u \in ToSet(seq) : u \in kept <=> u \in other
    PROVE Subsequence(seq, kept) = Subsequence(seq, other)
<1>1. PICK g : IsUpTo(g, seq, kept, Len(seq)) /\ Subsequence(seq, kept) = g[Len(seq)]
  BY SubsequenceIsLast
<1>2. PICK h : IsUpTo(h, seq, other, Len(seq)) /\ Subsequence(seq, other) = h[Len(seq)]
  BY SubsequenceIsLast
<1> DEFINE bad == {k \in 0 .. Len(seq) : g[k] # h[k]}
<1> SUFFICES ASSUME bad # {} PROVE FALSE
  BY <1>1, <1>2
<1>3. PICK m \in bad : \A y \in bad : m <= y
  <2>1. bad \subseteq Nat
    OBVIOUS
  <2> HIDE DEF bad
  <2> QED
    BY <2>1, LeastNatural
<1>4. m # 0
  BY <1>1, <1>2, <1>3 DEF IsUpTo
<1>5. m \in 1 .. Len(seq) /\ g[m - 1] = h[m - 1]
  BY <1>3, <1>4
<1>6. seq[m] \in kept <=> seq[m] \in other
  BY <1>5 DEF ToSet
<1>7. g[m] = Extended(g[m - 1], seq[m], kept) /\ h[m] = Extended(h[m - 1], seq[m], other)
  BY <1>1, <1>2, <1>5 DEF IsUpTo
<1> QED
  BY <1>3, <1>5, <1>6, <1>7 DEF Extended

-----------------------------------------------------------------------------
(* The roster *)

LEMMA RosterInitially == ASSUME PSInit PROVE RosterIsKept
<1>1. <<>> \in Seq(minted) /\ IsInjective(<<>>) /\ ToSet(<<>>) = {}
  BY DEF ToSet, IsInjective
<1>2. PSTypeOK
  BY <1>1, PanelFieldsAssumption, DefaultAssumption DEF PSInit, PSTypeOK, Prefs, Defaults, Faults
<1> QED
  BY <1>1, <1>2 DEF PSInit, RosterIsKept, ProcessIsSound, RosterHasRows, StoreMirrorsRoster,
     NobodyIsForgotten, NobodyReturns, Running, Unreturned

LEMMA LoadedPrefsType == ASSUME PSTypeOK, NEW ok PROVE LoadedPrefs(ok) \in Prefs
BY DefaultAssumption DEF PSTypeOK, LoadedPrefs, Defaults, Prefs

LEMMA BootKeepsRoster == ASSUME RosterIsKept, Boot PROVE RosterIsKept'
<1> USE DEF RosterIsKept
<1>1. PICK hostOk \in ReadOk, rosterOk \in ReadOk, pageOk \in ReadOk, unread \in SUBSET rows :
        /\ "read" \notin faults => unread = {}
        /\ hostLoadFailed' = ~hostOk
        /\ snapshot' = LoadedPrefs(rosterOk)
        /\ roster' = Loadable(LoadedIds(rosterOk), rows \ unread)
        /\ cache' = [f \in PanelFields |-> LoadedPrefs(pageOk)[f]]
  BY DEF Boot
<1>2. /\ UNCHANGED <<rows, ids, prefs, pending, minted, owned, accepted, faults>>
      /\ ~up /\ up' /\ up' \in BOOLEAN /\ pending = "none"
  BY DEF Boot, store, ProcessIsSound
<1>3. hostOk \in BOOLEAN /\ rosterOk \in BOOLEAN /\ ("read" \notin faults => hostOk /\ rosterOk)
  BY <1>1 DEF ReadOk
<1> DEFINE loaded == LoadedIds(rosterOk)
<1>4. /\ loaded \in Seq(minted) /\ IsInjective(loaded) /\ ToSet(loaded) \subseteq ToSet(ids)
      /\ "read" \notin faults => loaded = ids
  <2>1. ids \in Seq(minted) /\ IsInjective(ids)
    BY DEF PSTypeOK
  <2>2. <<>> \in Seq(minted) /\ IsInjective(<<>>) /\ ToSet(<<>>) = {}
    BY DEF ToSet, IsInjective
  <2> QED
    BY <1>3, <2>1, <2>2 DEF LoadedIds
<1>5. /\ roster' = Subsequence(loaded, rows \ unread)
      /\ roster' \in Seq(minted) /\ IsInjective(roster')
      /\ ToSet(roster') = ToSet(loaded) \cap (rows \ unread)
  <2> HIDE DEF loaded
  <2>1. roster' = Subsequence(loaded, rows \ unread)
    BY <1>1 DEF Loadable, loaded
  <2> QED
    BY <1>4, <2>1, SubsequenceIs
<1> HIDE DEF loaded
<1>6. PSTypeOK'
  <2>1. snapshot' \in Prefs
    BY <1>1, LoadedPrefsType
  <2>2. cache' \in [PanelFields -> Values]
    BY <1>1, LoadedPrefsType, PanelFieldsAssumption DEF Prefs
  <2> QED
    BY <1>1, <1>2, <1>3, <1>5, <2>1, <2>2 DEF PSTypeOK
<1>7. ToSet(roster)' \subseteq rows
  BY <1>5 DEF ToSet
<1>8. ProcessIsSound'
  BY <1>1, <1>2, <1>3 DEF ProcessIsSound
<1>9. RosterHasRows'
  BY <1>2, <1>5 DEF RosterHasRows
<1>10. faults \subseteq {"crash"} => roster' = Loadable(ids, rows) /\ ToSet(roster') = ToSet(ids) \cap rows
  BY <1>1, <1>4, <1>5 DEF Loadable
<1>11. StoreMirrorsRoster'
  BY <1>2, <1>10 DEF StoreMirrorsRoster, Loadable
<1>12. NobodyIsForgotten'
  BY <1>2, <1>10 DEF NobodyIsForgotten
<1>13. NobodyReturns'
  BY <1>2, <1>4, <1>5 DEF NobodyReturns, Unreturned
<1> QED
  BY <1>6, <1>8, <1>9, <1>11, <1>12, <1>13

LEMMA CreateKeepsRoster ==
    ASSUME RosterIsKept, NEW u \in Uuids, CreateInstance(u) PROVE RosterIsKept'
<1> USE DEF RosterIsKept
<1>1. /\ up /\ pending = "none" /\ u \notin minted /\ minted' = minted \cup {u}
      /\ UNCHANGED <<ids, prefs, up, snapshot, hostLoadFailed, cache, owned, accepted, faults>>
  BY DEF CreateInstance, Running
<1>2. /\ ids \in Seq(minted') /\ roster \in Seq(minted') /\ u \in minted'
      /\ ToSet(ids) \subseteq minted /\ ToSet(roster) \subseteq minted
  <2>1. ids \in Seq(minted) /\ roster \in Seq(minted)
    BY DEF PSTypeOK
  <2> QED
    BY <1>1, <2>1 DEF ToSet
<1>3. CASE UNCHANGED <<rows, roster, pending>> /\ FALSE \in WriteOk
  <2>1. "write" \in faults
    BY <1>3 DEF WriteOk
  <2>2. PSTypeOK'
    BY <1>1, <1>2, <1>3 DEF PSTypeOK
  <2> QED
    BY <1>1, <1>3, <2>1, <2>2 DEF ProcessIsSound, RosterHasRows, StoreMirrorsRoster, NobodyIsForgotten,
       NobodyReturns, Running, Unreturned
<1>4. CASE rows' = rows \cup {u} /\ roster' = Append(roster, u) /\ pending' = "create"
  <2>1. /\ roster' \in Seq(minted') /\ ToSet(roster') = ToSet(roster) \cup {u}
        /\ IsInjective(roster') /\ Last(roster') = u /\ roster' # <<>>
    <3>1. IsInjective(roster) /\ u \notin ToSet(roster)
      BY <1>1, <1>2 DEF PSTypeOK
    <3> QED
      BY <1>2, <1>4, <3>1, AppendAdds
  <2>2. PSTypeOK'
    BY <1>1, <1>2, <1>4, <2>1 DEF PSTypeOK
  <2>3. ProcessIsSound'
    BY <1>1, <1>4, <2>1 DEF ProcessIsSound
  <2>4. RosterHasRows'
    BY <1>4, <2>1 DEF RosterHasRows
  <2>5. StoreMirrorsRoster'
    BY <1>4 DEF StoreMirrorsRoster, Running
  <2>6. NobodyIsForgotten'
    BY <1>1, <1>4, <2>1 DEF NobodyIsForgotten
  <2>7. NobodyReturns'
    BY <1>1, <1>2, <1>4, <2>1 DEF NobodyReturns, Unreturned
  <2> QED
    BY <2>2, <2>3, <2>4, <2>5, <2>6, <2>7
<1> QED
  BY <1>3, <1>4 DEF CreateInstance

LEMMA DeleteKeepsRoster ==
    ASSUME RosterIsKept, NEW u \in Uuids, DeleteInstance(u) PROVE RosterIsKept'
<1> USE DEF RosterIsKept
<1>1. /\ up /\ pending = "none" /\ pending' = "delete" /\ owned' = owned \ {u}
      /\ roster' = Subsequence(roster, minted \ {u})
      /\ UNCHANGED <<ids, prefs, up, snapshot, hostLoadFailed, cache, minted, accepted, faults>>
  BY DEF DeleteInstance, Running
<1>2. rows' \in {rows, rows \ {u}} /\ ("write" \notin faults => rows' = rows \ {u})
  BY DEF DeleteInstance, WriteOk
<1>3. ids \in Seq(minted) /\ roster \in Seq(minted) /\ ToSet(roster) \subseteq minted /\ IsInjective(roster)
  BY DEF PSTypeOK, ToSet
<1>4. /\ roster' \in Seq(minted) /\ IsInjective(roster')
      /\ ToSet(roster') = ToSet(roster) \ {u}
  BY <1>1, <1>3, SubsequenceIs
<1>5. PSTypeOK'
  BY <1>1, <1>2, <1>4 DEF PSTypeOK
<1>6. ProcessIsSound'
  BY <1>1 DEF ProcessIsSound
<1>7. RosterHasRows'
  BY <1>2, <1>4 DEF RosterHasRows
<1>8. StoreMirrorsRoster'
  BY <1>1 DEF StoreMirrorsRoster, Running
<1>9. NobodyIsForgotten'
  BY <1>1, <1>2, <1>4 DEF NobodyIsForgotten
<1>10. NobodyReturns'
  BY <1>1, <1>2, <1>4 DEF NobodyReturns, Unreturned
<1> QED
  BY <1>5, <1>6, <1>7, <1>8, <1>9, <1>10

LEMMA PersistKeepsRoster == ASSUME RosterIsKept, PersistRoster PROVE RosterIsKept'
<1> USE DEF RosterIsKept
<1>1. PICK ok \in ReadOk : snapshot' = LoadedPrefs(ok) /\ SavePanel(LoadedPrefs(ok))
  BY DEF PersistRoster
<1>2. /\ pending # "none" /\ pending' = "none" /\ owned' = OwnedOnReturn
      /\ UNCHANGED <<rows, up, roster, hostLoadFailed, cache, minted, accepted, faults>>
      /\ up
  BY DEF PersistRoster, ProcessIsSound
<1>3. LoadedPrefs(ok) \in Prefs
  BY LoadedPrefsType
<1>4. /\ ids' \in {ids, roster} /\ prefs' \in {prefs, LoadedPrefs(ok)}
      /\ faults \subseteq {"crash"} => ids' = roster
  BY <1>1 DEF SavePanel, WriteOk, ProcessIsSound
<1>5. roster \in Seq(minted) /\ IsInjective(roster) /\ ids \in Seq(minted) /\ IsInjective(ids)
      /\ ToSet(roster) \subseteq minted
  BY DEF PSTypeOK, ToSet
<1>6. OwnedOnReturn = owned \cup Unreturned /\ Unreturned \subseteq ToSet(roster)
  BY <1>5 DEF OwnedOnReturn, Unreturned, ProcessIsSound, Last, ToSet
<1>7. PSTypeOK'
  BY <1>1, <1>2, <1>3, <1>4, <1>5, <1>6 DEF PSTypeOK
<1>8. ProcessIsSound' /\ RosterHasRows'
  BY <1>2 DEF ProcessIsSound, RosterHasRows
<1>9. StoreMirrorsRoster'
  <2>1. Subsequence(roster, rows) = roster
    BY <1>5, SubsequenceIs DEF RosterHasRows
  <2> QED
    BY <1>2, <1>4, <2>1 DEF StoreMirrorsRoster, Loadable
<1>10. NobodyIsForgotten'
  BY <1>2, <1>4, <1>6 DEF NobodyIsForgotten, RosterHasRows
<1>11. NobodyReturns'
  BY <1>2, <1>4, <1>6 DEF NobodyReturns, Unreturned
<1> QED
  BY <1>7, <1>8, <1>9, <1>10, <1>11

LEMMA SettingSavedType ==
    ASSUME PSTypeOK, NEW f \in Fields, NEW v \in Values, SettingSaved(f, v) \/ SettingRefused
    PROVE prefs' \in Prefs /\ accepted' \in Prefs /\ ids' = ids
BY DEF PSTypeOK, Prefs, SettingSaved, SettingRefused

LEMMA WriteKeepsRoster ==
    ASSUME RosterIsKept, NEW f \in Fields, NEW v \in Values, WriteSetting(f, v) PROVE RosterIsKept'
<1>1. /\ UNCHANGED <<rows, up, roster, snapshot, hostLoadFailed, cache, pending, minted, owned, faults>>
      /\ SettingSaved(f, v) \/ SettingRefused
  BY DEF WriteSetting, process
<1>2. prefs' \in Prefs /\ accepted' \in Prefs /\ ids' = ids
  BY <1>1, SettingSavedType DEF RosterIsKept
<1> QED
  BY <1>1, <1>2 DEF RosterIsKept, PSTypeOK, ProcessIsSound, RosterHasRows, StoreMirrorsRoster,
     NobodyIsForgotten, NobodyReturns, Running, Unreturned

LEMMA PickKeepsRoster ==
    ASSUME RosterIsKept, NEW f \in PanelFields, NEW v \in Values, PickSetting(f, v) PROVE RosterIsKept'
<1>1. /\ UNCHANGED <<rows, up, roster, snapshot, hostLoadFailed, pending, minted, owned, faults>>
      /\ SettingSaved(f, v) \/ SettingRefused
  BY DEF PickSetting
<1>2. prefs' \in Prefs /\ accepted' \in Prefs /\ ids' = ids
  BY <1>1, SettingSavedType, PanelFieldsAssumption DEF RosterIsKept
<1>3. cache' \in [PanelFields -> Values]
  BY DEF PickSetting, RosterIsKept, PSTypeOK
<1> QED
  BY <1>1, <1>2, <1>3 DEF RosterIsKept, PSTypeOK, ProcessIsSound, RosterHasRows, StoreMirrorsRoster,
     NobodyIsForgotten, NobodyReturns, Running, Unreturned

LEMMA DownKeepsRoster == ASSUME RosterIsKept, Down PROVE RosterIsKept'
<1>1. /\ up' = FALSE /\ roster' = <<>> /\ pending' = "none"
      /\ UNCHANGED <<rows, ids, prefs, snapshot, hostLoadFailed, cache, minted, owned, accepted, faults>>
  BY DEF Down, store
<1>2. <<>> \in Seq(minted) /\ IsInjective(<<>>) /\ ToSet(<<>>) = {}
  BY DEF ToSet, IsInjective
<1> QED
  BY <1>1, <1>2 DEF RosterIsKept, PSTypeOK, ProcessIsSound, RosterHasRows, StoreMirrorsRoster,
     NobodyIsForgotten, NobodyReturns, Running, Unreturned

LEMMA RosterStutters == ASSUME RosterIsKept, UNCHANGED vars PROVE RosterIsKept'
BY DEF vars, store, process, RosterIsKept, PSTypeOK, ProcessIsSound, RosterHasRows, StoreMirrorsRoster,
   NobodyIsForgotten, NobodyReturns, Running, Unreturned, Loadable

LEMMA RosterInductive == RosterIsKept /\ [PSNext]_vars => RosterIsKept'
<1> SUFFICES ASSUME RosterIsKept, [PSNext]_vars PROVE RosterIsKept'
  OBVIOUS
<1>1. CASE \E u \in Uuids : CreateInstance(u) \/ DeleteInstance(u)
  BY <1>1, CreateKeepsRoster, DeleteKeepsRoster
<1>2. CASE \E f \in Fields, v \in Values : WriteSetting(f, v)
  BY <1>2, WriteKeepsRoster
<1>3. CASE \E f \in PanelFields, v \in Values : PickSetting(f, v)
  BY <1>3, PickKeepsRoster
<1>4. CASE Quit \/ Crash
  BY <1>4, DownKeepsRoster DEF Quit, Crash
<1> QED
  BY <1>1, <1>2, <1>3, <1>4, BootKeepsRoster, PersistKeepsRoster, RosterStutters DEF PSNext

\* Whichever reads, writes and processes fail, for any number of instances:
\* every session has its row; with crashes alone the store would restore the
\* roster in its order and nobody is forgotten; nobody deleted comes back.
THEOREM RosterIsKeptHolds == PSSpec => []RosterIsKept
<1>1. PSInit => RosterIsKept
  BY RosterInitially
<1> QED
  BY <1>1, RosterInductive, PTL DEF PSSpec

-----------------------------------------------------------------------------
(* The settings *)

LEMMA WritesStickInductive ==
    AcceptedWritesStick /\ [PSNext]_vars => AcceptedWritesStick'
<1> SUFFICES ASSUME AcceptedWritesStick, [PSNext]_vars, "read" \notin faults'
             PROVE prefs' = accepted'
  BY DEF AcceptedWritesStick
<1>1. faults' = faults
  BY DEF PSNext, Boot, CreateInstance, DeleteInstance, PersistRoster, WriteSetting, PickSetting, Quit,
     Crash, Down, vars
<1>2. prefs = accepted
  BY <1>1 DEF AcceptedWritesStick
<1>3. CASE PersistRoster
  BY <1>1, <1>2, <1>3 DEF PersistRoster, ReadOk, SavePanel, LoadedPrefs
<1>4. CASE \E f \in Fields, v \in Values : WriteSetting(f, v)
  BY <1>2, <1>4 DEF WriteSetting, SettingSaved, SettingRefused
<1>5. CASE \E f \in PanelFields, v \in Values : PickSetting(f, v)
  BY <1>2, <1>5 DEF PickSetting, SettingSaved, SettingRefused
<1>6. CASE Boot \/ (\E u \in Uuids : CreateInstance(u) \/ DeleteInstance(u)) \/ Quit \/ Crash \/ UNCHANGED vars
  BY <1>2, <1>6 DEF Boot, CreateInstance, DeleteInstance, Quit, Crash, Down, store, vars
<1> QED
  BY <1>3, <1>4, <1>5, <1>6 DEF PSNext

\* A step of a settings writer, or of nobody, while the panel runs.
LEMMA RunningStepIsLocal ==
    ASSUME PSTypeOK, [PSNext]_vars, Running, up'
    PROVE /\ ids' = ids
          /\ \A f, g \in Fields : (prefs'[f] # prefs[f] /\ prefs'[g] # prefs[g]) => f = g
<1>1. ASSUME NEW h \in Fields, NEW v \in Values, SettingSaved(h, v) \/ SettingRefused
      PROVE /\ ids' = ids
            /\ \A f, g \in Fields : (prefs'[f] # prefs[f] /\ prefs'[g] # prefs[g]) => f = g
  BY <1>1 DEF SettingSaved, SettingRefused, PSTypeOK, Prefs
<1>2. CASE \E f \in Fields, v \in Values : WriteSetting(f, v)
  BY <1>1, <1>2 DEF WriteSetting
<1>3. CASE \E f \in PanelFields, v \in Values : PickSetting(f, v)
  BY <1>1, <1>3, PanelFieldsAssumption DEF PickSetting
<1>4. CASE (\E u \in Uuids : CreateInstance(u) \/ DeleteInstance(u)) \/ UNCHANGED vars
  BY <1>4 DEF CreateInstance, DeleteInstance, vars, store
<1>5. ~Boot /\ ~PersistRoster /\ ~Quit /\ ~Crash
  BY DEF Running, Boot, PersistRoster, Quit, Crash, Down
<1> QED
  BY <1>2, <1>3, <1>4, <1>5 DEF PSNext

\* If reads succeed, what a writer was told is saved stays; and, whatever
\* fails, a settings write changes one preference and no roster.
THEOREM SettingsAreKeptHolds == PSSpec => SettingsAreKept
<1>1. PSInit => AcceptedWritesStick
  BY DEF PSInit, AcceptedWritesStick
<1>2. RosterIsKept /\ [PSNext]_vars =>
        [(Running /\ up') =>
            /\ ids' = ids
            /\ \A f, g \in Fields : (prefs'[f] # prefs[f] /\ prefs'[g] # prefs[g]) => f = g]_vars
  BY RunningStepIsLocal DEF RosterIsKept
<1>3. PSSpec => []AcceptedWritesStick
  BY <1>1, WritesStickInductive, PTL DEF PSSpec
<1>4. PSSpec => SettingsWritesAreLocal
  BY <1>2, RosterIsKeptHolds, PTL DEF PSSpec, SettingsWritesAreLocal
<1> QED
  BY <1>3, <1>4, PTL DEF SettingsAreKept

-----------------------------------------------------------------------------
(* The images *)

LEMMA AssetsInitially == ASSUME ASInit PROVE AssetUsesAreSound
<1>1. assets = [id \in {} |-> NoAsset] /\ DOMAIN assets = {} /\ refs = {}
  BY DEF ASInit
<1>2. IsInjective(assets) /\ assets \in [{} -> Images]
  BY <1>1 DEF IsInjective
<1>3. ASTypeOK
  BY <1>1, <1>2, AssetAssumption DEF ASInit, ASTypeOK, AssetFaults
<1> QED
  BY <1>1, <1>3 DEF ASInit, AssetUsesAreSound, RowsAreBacked, UsedIsThere, OneImagePerUse, NoAsset, AssetIds

\* The rows are a function from some ids to images, each at most once.
LEMMA AssetsAreRows ==
    ASSUME ASTypeOK
    PROVE /\ DOMAIN assets \subseteq AssetIds
          /\ assets \in [DOMAIN assets -> Images]
          /\ \A a, b \in DOMAIN assets : assets[a] = assets[b] => a = b
BY DEF ASTypeOK, IsInjective

LEMMA ImportKeepsUses ==
    ASSUME AssetUsesAreSound, NEW image \in Images, ImportImage(image) PROVE AssetUsesAreSound'
<1> USE DEF AssetUsesAreSound
<1>1. PICK written \in May("disk"), inserted \in May("statement") :
        /\ StoreFile(image, written)
        /\ IF image \in uploads' THEN InsertAsset(image, inserted) ELSE UNCHANGED <<assets, lastAssetId>>
  BY DEF ImportImage
<1>2. UNCHANGED <<refs, logoAssetId, offered, assetFaults>>
  BY DEF ImportImage
<1>3. uploads \subseteq uploads' /\ uploads' \subseteq Images
  BY <1>1 DEF StoreFile, ASTypeOK
<1>4. CASE UNCHANGED <<assets, lastAssetId>>
  BY <1>2, <1>3, <1>4 DEF ASTypeOK, RowsAreBacked, UsedIsThere, OneImagePerUse, AssetFileUrl
<1>5. CASE ~ UNCHANGED <<assets, lastAssetId>>
  <2>1. /\ image \in uploads' /\ image \notin Range(assets) /\ lastAssetId < MaxAssetId
        /\ lastAssetId' = lastAssetId + 1
        /\ assets' = [id \in DOMAIN assets \cup {lastAssetId'} |->
                         IF id = lastAssetId' THEN image ELSE assets[id]]
    BY <1>1, <1>5 DEF InsertAsset
  <2>2. lastAssetId' \in AssetIds /\ lastAssetId' \in 0 .. MaxAssetId
    BY <2>1, AssetAssumption DEF ASTypeOK, AssetIds
  <2>3. /\ DOMAIN assets' = DOMAIN assets \cup {lastAssetId'}
        /\ \A id \in DOMAIN assets' : assets'[id] = IF id = lastAssetId' THEN image ELSE assets[id]
    BY <2>1
  <2>4. \A id \in DOMAIN assets : assets[id] # image
    BY <2>1 DEF Range
  <2>5. assets' \in [DOMAIN assets' -> Images] /\ DOMAIN assets' \in SUBSET AssetIds /\ IsInjective(assets')
    <3>1. IsInjective(assets')
      BY <2>3, <2>4, AssetsAreRows DEF IsInjective
    <3> QED
      BY <2>1, <2>2, <2>3, <3>1, AssetsAreRows
  <2>6. ASTypeOK'
    BY <1>2, <1>3, <2>2, <2>5 DEF ASTypeOK
  <2>7. RowsAreBacked'
    BY <1>2, <1>3, <2>1, <2>3 DEF RowsAreBacked, AssetFileUrl
  <2>8. UsedIsThere'
    BY <1>2, <1>3, <2>1, <2>3 DEF UsedIsThere, AssetFileUrl
  <2>9. OneImagePerUse'
    BY <1>2 DEF OneImagePerUse
  <2> QED
    BY <2>6, <2>7, <2>8, <2>9
<1> QED
  BY <1>4, <1>5

LEMMA DeleteKeepsUses ==
    ASSUME AssetUsesAreSound, NEW id \in AssetIds, DeleteAsset(id) PROVE AssetUsesAreSound'
<1> USE DEF AssetUsesAreSound
<1>1. PICK counted \in May("query"), found \in May("query"),
           removed \in May("disk"), deleted \in May("statement") :
        /\ ~InUse(id, counted) /\ AssetById(id, found)
        /\ uploads' = uploads \ {assets[id]}
        /\ DeleteAssetRow(id, deleted)
  BY DEF DeleteAsset
<1>2. UNCHANGED <<lastAssetId, refs, logoAssetId, offered, assetFaults>>
  BY DEF DeleteAsset
<1>3. id \in DOMAIN assets
  BY <1>1 DEF AssetById
<1>4. "query" \notin assetFaults => \A r \in refs : r.asset # id
  BY <1>1 DEF InUse, May
<1>5. \/ assets' = assets /\ "statement" \in assetFaults
      \/ /\ DOMAIN assets' = DOMAIN assets \ {id}
         /\ assets' = [i \in DOMAIN assets \ {id} |-> assets[i]]
  BY <1>1 DEF DeleteAssetRow, Restrict, May
<1>6. ASTypeOK'
  <2>1. /\ assets' \in [DOMAIN assets' -> Images] /\ DOMAIN assets' \in SUBSET AssetIds
        /\ IsInjective(assets')
    BY <1>5, AssetsAreRows DEF IsInjective
  <2> QED
    BY <1>1, <1>2, <2>1 DEF ASTypeOK
<1>7. RowsAreBacked'
  BY <1>1, <1>2, <1>3, <1>5, AssetsAreRows DEF RowsAreBacked, AssetFileUrl
<1>8. UsedIsThere'
  <2>1. "query" \notin assetFaults => \A r \in refs : r.asset \in DOMAIN assets'
    BY <1>4, <1>5 DEF UsedIsThere
  <2> QED
    BY <1>2, <1>7, <2>1 DEF UsedIsThere, RowsAreBacked
<1>9. OneImagePerUse'
  BY <1>2 DEF OneImagePerUse
<1> QED
  BY <1>6, <1>7, <1>8, <1>9

\* Giving a use another image, or none: the references of the other uses stay
\* and, unless a statement fails, the new one is the only one of its use.
LEMMA ReattachKeepsUses ==
    ASSUME AssetUsesAreSound, NEW id \in AssetIds, NEW use \in Uses,
           NEW detached \in May("statement"), NEW attached \in BOOLEAN,
           Reattach(id, use, detached, attached), attached => id \in DOMAIN assets,
           UNCHANGED <<uploads, assets, assetFaults>>
    PROVE /\ refs' \subseteq Refs /\ UsedIsThere'
          /\ "statement" \notin assetFaults =>
               /\ \A r, s \in refs' : r.use = s.use => r = s
               /\ \A r \in Refs : r.use # use => (r \in refs' <=> r \in refs)
               /\ \A i \in AssetIds : [asset |-> i, use |-> use] \in refs' <=> (attached /\ i = id)
<1> DEFINE new == [asset |-> id, use |-> use]
<1>1. new \in Refs /\ new.asset = id /\ new.use = use
  BY DEF Refs
<1>2. refs \subseteq Refs
  BY DEF AssetUsesAreSound, ASTypeOK
<1>3. \A r : r \in refs' <=> (r \in refs /\ (detached => r.use # use)) \/ (attached /\ r = new)
  BY DEF Reattach, WithoutUse
<1> HIDE DEF new
<1>4. refs' \subseteq Refs
  BY <1>1, <1>2, <1>3
<1>5. UsedIsThere'
  <2> SUFFICES ASSUME NEW r \in refs'
               PROVE /\ "query" \notin assetFaults => r.asset \in DOMAIN assets
                     /\ assetFaults \subseteq {"disk"} => AssetFileUrl(r.asset)
    BY DEF UsedIsThere, AssetFileUrl
  <2>1. CASE r \in refs
    BY <2>1 DEF AssetUsesAreSound, UsedIsThere
  <2>2. CASE attached /\ r = new
    BY <1>1, <2>2 DEF AssetUsesAreSound, RowsAreBacked
  <2> QED
    BY <1>3, <2>1, <2>2
<1>6. ASSUME "statement" \notin assetFaults
      PROVE /\ \A r, s \in refs' : r.use = s.use => r = s
            /\ \A r \in Refs : r.use # use => (r \in refs' <=> r \in refs)
            /\ \A i \in AssetIds : [asset |-> i, use |-> use] \in refs' <=> (attached /\ i = id)
  <2>1. \A r : r \in refs' <=> (r \in refs /\ r.use # use) \/ (attached /\ r = new)
    BY <1>3, <1>6 DEF May
  <2>2. \A r, s \in refs : r.use = s.use => r = s
    BY <1>6 DEF AssetUsesAreSound, OneImagePerUse
  <2>3. \A i \in AssetIds : [asset |-> i, use |-> use] = new <=> i = id
    BY DEF new
  <2>4. \A i \in AssetIds : [asset |-> i, use |-> use].use = use
    OBVIOUS
  <2> QED
    BY <1>1, <2>1, <2>2, <2>3, <2>4
<1> QED
  BY <1>4, <1>5, <1>6

\* OneImagePerUse, stated of what a change of the references leaves.
LEMMA LogoIsOneReference ==
    ASSUME AssetUsesAreSound, refs' \subseteq Refs, logoAssetId' \in AssetIds \cup {NoAsset},
           UsedIsThere', UNCHANGED <<uploads, assets, lastAssetId, offered, assetFaults>>,
           "statement" \notin assetFaults =>
               /\ \A r, s \in refs' : r.use = s.use => r = s
               /\ \A i \in AssetIds : i = logoAssetId' <=> [asset |-> i, use |-> Logo] \in refs'
    PROVE AssetUsesAreSound'
BY DEF AssetUsesAreSound, ASTypeOK, RowsAreBacked, AssetFileUrl, OneImagePerUse

LEMMA SetLogoKeepsUses ==
    ASSUME AssetUsesAreSound, NEW id \in AssetIds, SetLogo(id) PROVE AssetUsesAreSound'
<1>1. PICK found \in May("query"), detached \in May("statement"),
           attached \in May("statement"), saved \in May("statement") :
        /\ AssetById(id, found) /\ Reattach(id, Logo, detached, attached)
        /\ logoAssetId' = IF attached /\ saved THEN id ELSE logoAssetId
  BY DEF SetLogo
<1>2. UNCHANGED <<uploads, assets, lastAssetId, offered, assetFaults>>
  BY DEF SetLogo
<1>3. id \in DOMAIN assets /\ Logo \in Uses /\ attached \in BOOLEAN
  BY <1>1 DEF AssetById, Uses, May
<1>4. /\ refs' \subseteq Refs /\ UsedIsThere'
      /\ "statement" \notin assetFaults =>
           /\ \A r, s \in refs' : r.use = s.use => r = s
           /\ \A i \in AssetIds : [asset |-> i, use |-> Logo] \in refs' <=> (attached /\ i = id)
  BY <1>1, <1>2, <1>3, ReattachKeepsUses
<1>5. logoAssetId' \in AssetIds \cup {NoAsset}
  BY <1>1 DEF AssetUsesAreSound, ASTypeOK
<1>6. "statement" \notin assetFaults => attached /\ logoAssetId' = id
  BY <1>1 DEF May
<1> QED
  BY <1>2, <1>4, <1>5, <1>6, LogoIsOneReference

\* A removed use, of which nothing is attached.
LEMMA WithoutUseKeepsUses ==
    ASSUME AssetUsesAreSound, NEW use \in Uses, NEW detached \in May("statement"),
           refs' = WithoutUse(use, detached),
           UNCHANGED <<uploads, assets, assetFaults>>
    PROVE /\ refs' \subseteq Refs /\ UsedIsThere'
          /\ "statement" \notin assetFaults =>
               /\ \A r, s \in refs' : r.use = s.use => r = s
               /\ \A r \in Refs : r.use # use => (r \in refs' <=> r \in refs)
               /\ \A i \in AssetIds : [asset |-> i, use |-> use] \notin refs'
BY DEF AssetUsesAreSound, ASTypeOK, UsedIsThere, AssetFileUrl, OneImagePerUse, WithoutUse, May

LEMMA ResetLogoKeepsUses == ASSUME AssetUsesAreSound, ResetLogo PROVE AssetUsesAreSound'
<1>1. PICK detached \in May("statement"), saved \in May("statement") :
        /\ refs' = WithoutUse(Logo, detached)
        /\ logoAssetId' = IF saved THEN NoAsset ELSE logoAssetId
  BY DEF ResetLogo
<1>2. UNCHANGED <<uploads, assets, lastAssetId, offered, assetFaults>> /\ Logo \in Uses
  BY DEF ResetLogo, Uses
<1>3. /\ refs' \subseteq Refs /\ UsedIsThere'
      /\ "statement" \notin assetFaults =>
           /\ \A r, s \in refs' : r.use = s.use => r = s
           /\ \A i \in AssetIds : [asset |-> i, use |-> Logo] \notin refs'
  BY <1>1, <1>2, WithoutUseKeepsUses
<1>4. logoAssetId' \in AssetIds \cup {NoAsset}
  BY <1>1 DEF AssetUsesAreSound, ASTypeOK
<1>5. "statement" \notin assetFaults => logoAssetId' = NoAsset
  BY <1>1 DEF May
<1>6. NoAsset \notin AssetIds
  BY DEF NoAsset, AssetIds
<1> QED
  BY <1>2, <1>3, <1>4, <1>5, <1>6, LogoIsOneReference

\* A change of an icon leaves the logo alone: it is a use of its own.
LEMMA IconIsNotLogo ==
    ASSUME AssetUsesAreSound, NEW uuid \in IconOwners, refs' \subseteq Refs, UsedIsThere',
           UNCHANGED <<uploads, assets, lastAssetId, logoAssetId, offered, assetFaults>>,
           "statement" \notin assetFaults =>
               /\ \A r, s \in refs' : r.use = s.use => r = s
               /\ \A r \in Refs : r.use # uuid => (r \in refs' <=> r \in refs)
    PROVE AssetUsesAreSound'
<1>1. \A i \in AssetIds : LET r == [asset |-> i, use |-> Logo] IN r \in Refs /\ r.use # uuid
  BY AssetAssumption DEF Refs, Uses, Logo
<1>2. logoAssetId' \in AssetIds \cup {NoAsset}
  BY DEF AssetUsesAreSound, ASTypeOK
<1>3. "statement" \notin assetFaults =>
        \A i \in AssetIds : i = logoAssetId' <=> [asset |-> i, use |-> Logo] \in refs'
  BY <1>1 DEF AssetUsesAreSound, OneImagePerUse
<1> QED
  BY <1>2, <1>3, LogoIsOneReference

LEMMA SetIconKeepsUses ==
    ASSUME AssetUsesAreSound, NEW uuid \in IconOwners, NEW id \in AssetIds, SetInstanceIcon(uuid, id)
    PROVE AssetUsesAreSound'
<1>1. PICK found \in May("query"), detached \in May("statement"), attached \in May("statement") :
        Reattach(id, uuid, detached, AssetById(id, found) /\ attached)
  BY DEF SetInstanceIcon
<1>2. UNCHANGED <<uploads, assets, lastAssetId, logoAssetId, offered, assetFaults>> /\ uuid \in Uses
  BY DEF SetInstanceIcon, Uses
<1> DEFINE given == AssetById(id, found) /\ attached
<1>3. given \in BOOLEAN /\ (given => id \in DOMAIN assets)
  BY <1>1 DEF AssetById
<1> HIDE DEF given
<1>4. Reattach(id, uuid, detached, given)
  BY <1>1 DEF given
<1>5. /\ refs' \subseteq Refs /\ UsedIsThere'
      /\ "statement" \notin assetFaults =>
           /\ \A r, s \in refs' : r.use = s.use => r = s
           /\ \A r \in Refs : r.use # uuid => (r \in refs' <=> r \in refs)
  BY <1>2, <1>3, <1>4, ReattachKeepsUses
<1> QED
  BY <1>2, <1>5, IconIsNotLogo

LEMMA DetachKeepsUses ==
    ASSUME AssetUsesAreSound, NEW uuid \in IconOwners, DetachInstanceIconRefs(uuid)
    PROVE AssetUsesAreSound'
<1>1. PICK detached \in May("statement") : refs' = WithoutUse(uuid, detached)
  BY DEF DetachInstanceIconRefs
<1>2. UNCHANGED <<uploads, assets, lastAssetId, logoAssetId, offered, assetFaults>> /\ uuid \in Uses
  BY DEF DetachInstanceIconRefs, Uses
<1>3. /\ refs' \subseteq Refs /\ UsedIsThere'
      /\ "statement" \notin assetFaults =>
           /\ \A r, s \in refs' : r.use = s.use => r = s
           /\ \A r \in Refs : r.use # uuid => (r \in refs' <=> r \in refs)
  BY <1>1, <1>2, WithoutUseKeepsUses
<1> QED
  BY <1>2, <1>3, IconIsNotLogo

LEMMA ListKeepsUses == ASSUME AssetUsesAreSound, ListAssets PROVE AssetUsesAreSound'
<1>1. offered' \subseteq AssetIds
  BY AssetsAreRows DEF AssetUsesAreSound, ListAssets, AllAssets
<1> QED
  BY <1>1 DEF ListAssets, assetTables, AssetUsesAreSound, ASTypeOK, RowsAreBacked, UsedIsThere,
     AssetFileUrl, OneImagePerUse

LEMMA AssetsInductive == AssetUsesAreSound /\ [ASNext]_asVars => AssetUsesAreSound'
<1> SUFFICES ASSUME AssetUsesAreSound, [ASNext]_asVars PROVE AssetUsesAreSound'
  OBVIOUS
<1>1. CASE UNCHANGED asVars
  BY <1>1 DEF asVars, assetTables, AssetUsesAreSound, ASTypeOK, RowsAreBacked, UsedIsThere,
     AssetFileUrl, OneImagePerUse
<1>2. CASE ASNext
  BY <1>2, ImportKeepsUses, DeleteKeepsUses, SetLogoKeepsUses, ResetLogoKeepsUses, SetIconKeepsUses,
     DetachKeepsUses, ListKeepsUses DEF ASNext
<1> QED
  BY <1>1, <1>2

\* Whatever query, statement or file operation fails, an image in use has its
\* row, its file, and one reference per use, as far as these faults leave it.
THEOREM AssetUsesAreSoundHolds == ASSpec => []AssetUsesAreSound
<1>1. ASInit => AssetUsesAreSound
  BY AssetsInitially
<1> QED
  BY <1>1, AssetsInductive, PTL DEF ASSpec

-----------------------------------------------------------------------------
(* The move of the directory *)

LEMMA ConfigInitially == ASSUME ConfigInit PROVE ConfigInv
BY ConfigAssumption DEF ConfigInit, ConfigInv, ConfigTypeOK, Stages, ConfigFaults, BootIsOrderly, NobodyStartsAfresh,
   RenamedIsComplete, Booting, Walking

\* What was said of a running panel follows from the rest of the invariant.
LEMMA OrderlyIsEnough ==
    ASSUME ConfigTypeOK', BootIsOrderly',
           ~disturbed' /\ legacy' = "renamed" => Complete'
    PROVE ConfigInv'
<1>1. RenamedIsComplete'
  BY DEF RenamedIsComplete, Complete
<1>2. NobodyStartsAfresh'
  BY DEF ConfigTypeOK, BootIsOrderly, NobodyStartsAfresh, Complete, Stages
<1> QED
  BY <1>1, <1>2 DEF ConfigInv

LEMMA LaunchIsOrderly == ASSUME ConfigInv, NEW p \in Panels, Launch(p) PROVE ConfigInv'
<1>1. /\ stage[p] = "off" /\ stage' = [stage EXCEPT ![p] = "boot"]
      /\ disturbed' = (disturbed \/ \E q \in Panels : stage[q] \notin {"off", "running"})
      /\ UNCHANGED <<legacy, populated, target, left, panelLock, configFaults>>
  BY DEF Launch, Goes
<1>2. ConfigTypeOK'
  BY <1>1 DEF ConfigInv, ConfigTypeOK, Stages
<1>3. \A q \in Panels : stage'[q] = IF q = p THEN "boot" ELSE stage[q]
  BY <1>1 DEF ConfigInv, ConfigTypeOK
<1>4. BootIsOrderly'
  <2> SUFFICES ASSUME ~disturbed', legacy # "none" PROVE BootIsOrderly'
    BY <1>1 DEF BootIsOrderly
  <2>1. ~disturbed /\ \A q \in Panels : stage[q] \in {"off", "running"}
    BY <1>1
  <2>2. \A q, r \in Panels : Booting(q)' /\ Booting(r)' => q = r
    BY <1>3, <2>1 DEF Booting
  <2>3. \A q \in Panels : ~Walking(q) /\ ~Walking(q)'
    BY <1>3, <2>1 DEF Walking
  <2>4. \A q \in Panels : stage'[q] \in Stages \ {"off", "boot", "copying", "recopying"} => stage'[q] = stage[q]
    BY <1>3 DEF Stages
  <2> QED
    BY <1>1, <2>1, <2>2, <2>3, <2>4 DEF ConfigInv, BootIsOrderly, Complete
<1> QED
  BY <1>1, <1>2, <1>4, OrderlyIsEnough DEF ConfigInv, RenamedIsComplete, Complete

LEMMA SkippedIsOrderly == ASSUME ConfigInv, NEW p \in Panels, MigrationSkipped(p) PROVE ConfigInv'
<1>1. /\ stage[p] \in {"boot", "again"}
      /\ \E s \in {"scaffold", "open"} : stage' = [stage EXCEPT ![p] = s]
      /\ (legacy # "here" /\ UNCHANGED disturbed) \/ (populated /\ UNCHANGED disturbed) \/ disturbed' = TRUE
      /\ UNCHANGED <<legacy, populated, target, left, panelLock, configFaults>>
  BY DEF MigrationSkipped, Goes, AtMigration, AfterMigration
<1>2. PICK s \in {"scaffold", "open"} : stage' = [stage EXCEPT ![p] = s]
  BY <1>1
<1>3. ConfigTypeOK'
  BY <1>1, <1>2 DEF ConfigInv, ConfigTypeOK, Stages
<1>4. \A q \in Panels : stage'[q] = IF q = p THEN s ELSE stage[q]
  BY <1>2 DEF ConfigInv, ConfigTypeOK
<1>5. ~disturbed' /\ legacy # "none" => Complete
  <2>1. legacy # "here" /\ legacy # "none" /\ ~disturbed => Complete
    BY DEF ConfigInv, ConfigTypeOK, RenamedIsComplete, Complete
  <2>2. populated /\ legacy # "none" /\ ~disturbed => Complete
    BY <1>1 DEF ConfigInv, BootIsOrderly, Booting, Walking
  <2> QED
    BY <1>1, <2>1, <2>2
<1>6. BootIsOrderly'
  BY <1>1, <1>4, <1>5 DEF ConfigInv, BootIsOrderly, Booting, Walking, Complete
<1> QED
  BY <1>1, <1>3, <1>5, <1>6, OrderlyIsEnough DEF Complete

LEMMA BeginsIsOrderly == ASSUME ConfigInv, NEW p \in Panels, MigrationBegins(p) PROVE ConfigInv'
<1>1. /\ legacy = "here" /\ ~populated /\ stage[p] \in {"boot", "again"}
      /\ \E s \in {"copying", "recopying"} : stage' = [stage EXCEPT ![p] = s]
      /\ left' = [left EXCEPT ![p] = Files]
      /\ UNCHANGED <<legacy, populated, target, panelLock, configFaults, disturbed>>
  BY DEF MigrationBegins, Goes, AtMigration, CopyStage
<1> PICK s \in {"copying", "recopying"} : stage' = [stage EXCEPT ![p] = s]
  BY <1>1
<1>2. ConfigTypeOK'
  BY <1>1 DEF ConfigInv, ConfigTypeOK, Stages
<1>3. \A q \in Panels : /\ stage'[q] = IF q = p THEN s ELSE stage[q]
                        /\ left'[q] = IF q = p THEN Files ELSE left[q]
  BY <1>1 DEF ConfigInv, ConfigTypeOK
<1>4. BootIsOrderly'
  BY <1>1, <1>3 DEF ConfigInv, BootIsOrderly, Booting, Walking, Complete
<1> QED
  BY <1>1, <1>2, <1>4, OrderlyIsEnough

LEMMA CopyIsOrderly ==
    ASSUME ConfigInv, NEW p \in Panels, NEW f \in Files, CopyFile(p, f) PROVE ConfigInv'
<1>1. /\ Walking(p) /\ f \in left[p] /\ left' = [left EXCEPT ![p] = left[p] \ {f}]
      /\ UNCHANGED <<legacy, stage, panelLock, configFaults>>
      /\ FileCopied(f) \/ FileSkipped(f)
  BY DEF CopyFile
<1>2. \A q \in Panels : left'[q] = IF q = p THEN left[p] \ {f} ELSE left[q]
  BY <1>1 DEF ConfigInv, ConfigTypeOK
<1>3. left' \in [Panels -> SUBSET Files]
  BY <1>1 DEF ConfigInv, ConfigTypeOK
<1>4. CASE FileCopied(f)
  <2>1. /\ legacy = "here" /\ target[f] = "absent" /\ target' = [target EXCEPT ![f] = "copied"]
        /\ populated' = TRUE /\ disturbed' = disturbed
    BY <1>4 DEF FileCopied
  <2>2. ConfigTypeOK'
    BY <1>1, <1>3, <2>1 DEF ConfigInv, ConfigTypeOK
  <2>3. \A g \in Files : target'[g] = IF g = f THEN "copied" ELSE target[g]
    BY <2>1 DEF ConfigInv, ConfigTypeOK
  <2>4. BootIsOrderly'
    BY <1>1, <1>2, <2>1, <2>3 DEF ConfigInv, BootIsOrderly, Booting, Walking, Complete
  <2> QED
    BY <1>1, <2>1, <2>2, <2>4, OrderlyIsEnough
<1>5. CASE FileSkipped(f)
  <2>1. CASE (legacy # "here" \/ target[f] # "absent") /\ UNCHANGED <<populated, target, disturbed>>
    <3>1. ConfigTypeOK'
      BY <1>1, <1>3, <2>1 DEF ConfigInv, ConfigTypeOK
    <3>2. BootIsOrderly'
      BY <1>1, <1>2, <2>1 DEF ConfigInv, BootIsOrderly, Booting, Walking, Complete
    <3> QED
      BY <1>1, <2>1, <3>1, <3>2, OrderlyIsEnough DEF ConfigInv, RenamedIsComplete, Complete
  <2>2. CASE populated' \in {populated, TRUE} /\ disturbed' = TRUE /\ UNCHANGED target
    <3>1. ConfigTypeOK'
      BY <1>1, <1>3, <2>2 DEF ConfigInv, ConfigTypeOK
    <3> QED
      BY <2>2, <3>1, OrderlyIsEnough DEF BootIsOrderly
  <2> QED
    BY <1>5, <2>1, <2>2 DEF FileSkipped
<1> QED
  BY <1>1, <1>4, <1>5

LEMMA RenameIsOrderly == ASSUME ConfigInv, NEW p \in Panels, RenameLegacy(p) PROVE ConfigInv'
<1>1. /\ left[p] = {} /\ Walking(p) /\ legacy' \in {"renamed", legacy}
      /\ legacy = "none" => legacy' = "none"
      /\ \E s \in {"scaffold", "open"} : stage' = [stage EXCEPT ![p] = s]
      /\ UNCHANGED <<populated, target, left, panelLock, configFaults, disturbed>>
  BY DEF RenameLegacy, Goes, AfterMigration
<1>2. PICK s \in {"scaffold", "open"} : stage' = [stage EXCEPT ![p] = s]
  BY <1>1
<1>3. ConfigTypeOK'
  BY <1>1, <1>2 DEF ConfigInv, ConfigTypeOK, Stages
<1>4. \A q \in Panels : stage'[q] = IF q = p THEN s ELSE stage[q]
  BY <1>2 DEF ConfigInv, ConfigTypeOK
<1>5. ~disturbed /\ legacy # "none" => Complete
  BY <1>1 DEF ConfigInv, BootIsOrderly, Walking, Complete
<1>6. BootIsOrderly'
  BY <1>1, <1>4, <1>5 DEF ConfigInv, BootIsOrderly, Booting, Walking, Complete
<1> QED
  BY <1>1, <1>3, <1>5, <1>6, OrderlyIsEnough DEF Complete

\* Past the migration, a boot changes nothing the invariant looks at, or
\* finds everything there.
LEMMA PastMigrationIsOrderly ==
    ASSUME ConfigInv, NEW p \in Panels, ConfigTypeOK',
           Booting(p), stage[p] \notin {"boot", "copying", "recopying"},
           NEW s \in Stages \ {"boot", "copying", "recopying"}, stage' = [stage EXCEPT ![p] = s],
           \A f \in Files : target[f] # "absent" => target'[f] = target[f],
           UNCHANGED <<legacy, left, disturbed>>
    PROVE ConfigInv'
<1>1. \A q \in Panels : stage'[q] = IF q = p THEN s ELSE stage[q]
  BY DEF ConfigInv, ConfigTypeOK
<1>2. ~disturbed /\ legacy # "none" => Complete
  BY DEF ConfigInv, ConfigTypeOK, BootIsOrderly, Booting
<1>3. ~disturbed /\ legacy # "none" => Complete'
  BY <1>2 DEF Complete
<1>4. BootIsOrderly'
  BY <1>1, <1>2, <1>3 DEF ConfigInv, BootIsOrderly, Booting, Walking, Complete
<1> QED
  BY <1>3, <1>4, OrderlyIsEnough

LEMMA BootGoesOnOrderly ==
    ASSUME ConfigInv, NEW p \in Panels, Scaffold(p) \/ TryLock(p) \/ OpenDatabase(p) PROVE ConfigInv'
<1>1. CASE Scaffold(p)
  <2>1. stage[p] = "scaffold" /\ stage' = [stage EXCEPT ![p] = "lock"] /\ populated' = TRUE
    BY <1>1 DEF Scaffold, Goes
  <2>2. UNCHANGED <<legacy, target, left, panelLock, configFaults, disturbed>>
    BY <1>1 DEF Scaffold
  <2>3. ConfigTypeOK'
    BY <2>1, <2>2 DEF ConfigInv, ConfigTypeOK, Stages
  <2> QED
    BY <2>1, <2>2, <2>3, PastMigrationIsOrderly DEF Booting, Stages
<1>2. CASE TryLock(p)
  <2>1. PICK s \in {"again", "off"} : stage[p] = "lock" /\ stage' = [stage EXCEPT ![p] = s]
    BY <1>2 DEF TryLock, Goes
  <2>2. /\ UNCHANGED <<legacy, target, left, populated, configFaults>> /\ panelLock' \in {p, panelLock}
        /\ disturbed' \in {disturbed, TRUE}
    BY <1>2 DEF TryLock
  <2>3. ConfigTypeOK'
    BY <2>1, <2>2 DEF ConfigInv, ConfigTypeOK, Stages
  <2>4. CASE disturbed' = TRUE
    BY <2>3, <2>4, OrderlyIsEnough DEF BootIsOrderly
  <2>5. CASE UNCHANGED disturbed
    BY <2>1, <2>2, <2>3, <2>5, PastMigrationIsOrderly DEF Booting, Stages
  <2> QED
    BY <2>2, <2>4, <2>5
<1>3. CASE OpenDatabase(p)
  <2>1. stage[p] = "open" /\ stage' = [stage EXCEPT ![p] = "running"]
    BY <1>3 DEF OpenDatabase, Goes
  <2>2. /\ target' = [target EXCEPT ![Db] = IF target[Db] = "absent" THEN "fresh" ELSE target[Db]]
        /\ UNCHANGED <<legacy, populated, left, panelLock, configFaults, disturbed>>
    BY <1>3 DEF OpenDatabase
  <2>3. ConfigTypeOK' /\ \A f \in Files : target[f] # "absent" => target'[f] = target[f]
    BY <2>1, <2>2, ConfigAssumption DEF ConfigInv, ConfigTypeOK, Stages
  <2> QED
    BY <2>1, <2>2, <2>3, PastMigrationIsOrderly DEF Booting, Stages
<1> QED
  BY <1>1, <1>2, <1>3

LEMMA SaveIsOrderly == ASSUME ConfigInv, NEW p \in Panels, SavesSettings(p) PROVE ConfigInv'
<1>1. /\ target' = [target EXCEPT ![Db] = "updated"]
      /\ UNCHANGED <<legacy, populated, stage, left, panelLock, configFaults, disturbed>>
  BY DEF SavesSettings
<1>2. ConfigTypeOK' /\ \A f \in Files : target'[f] = IF f = Db THEN "updated" ELSE target[f]
  BY <1>1, ConfigAssumption DEF ConfigInv, ConfigTypeOK
<1>3. BootIsOrderly'
  BY <1>1, <1>2 DEF ConfigInv, BootIsOrderly, Booting, Walking, Complete
<1> QED
  BY <1>1, <1>2, <1>3, OrderlyIsEnough DEF ConfigInv, RenamedIsComplete, Complete

LEMMA EndIsOrderly == ASSUME ConfigInv, NEW p \in Panels, PanelEnds(p) PROVE ConfigInv'
<1>1. /\ stage' = [stage EXCEPT ![p] = "off"] /\ left' = [left EXCEPT ![p] = {}]
      /\ panelLock' \in {NoPanel, panelLock} /\ disturbed' = (disturbed \/ stage[p] # "running")
      /\ UNCHANGED <<legacy, populated, target, configFaults>>
  BY DEF PanelEnds
<1>2. ConfigTypeOK'
  BY <1>1 DEF ConfigInv, ConfigTypeOK, Stages
<1>3. \A q \in Panels : /\ stage'[q] = IF q = p THEN "off" ELSE stage[q]
                        /\ left'[q] = IF q = p THEN {} ELSE left[q]
  BY <1>1 DEF ConfigInv, ConfigTypeOK
<1>4. BootIsOrderly'
  <2> SUFFICES ASSUME ~disturbed', legacy # "none" PROVE BootIsOrderly'
    BY <1>1 DEF BootIsOrderly
  <2>1. ~disturbed /\ stage[p] = "running"
    BY <1>1
  <2>2. \A q \in Panels : Booting(q)' => Booting(q)
    BY <1>3 DEF Booting
  <2>3. \A q \in Panels : /\ Walking(q)' <=> Walking(q)
                          /\ Walking(q) => left'[q] = left[q]
    BY <1>3, <2>1 DEF Walking
  <2>4. \A q \in Panels : stage'[q] \in Stages \ {"off", "boot", "copying", "recopying"} => stage'[q] = stage[q]
    BY <1>3
  <2> QED
    BY <1>1, <2>1, <2>2, <2>3, <2>4 DEF ConfigInv, BootIsOrderly, Complete
<1> QED
  BY <1>1, <1>2, <1>4, OrderlyIsEnough DEF ConfigInv, RenamedIsComplete, Complete

LEMMA ConfigInductive == ConfigInv /\ [ConfigNext]_configVars => ConfigInv'
<1> SUFFICES ASSUME ConfigInv, [ConfigNext]_configVars PROVE ConfigInv'
  OBVIOUS
<1>1. CASE UNCHANGED configVars
  BY <1>1 DEF configVars, ConfigInv, ConfigTypeOK, BootIsOrderly, NobodyStartsAfresh, RenamedIsComplete,
     Booting, Walking, Complete
<1>2. CASE ConfigNext
  BY <1>2, LaunchIsOrderly, SkippedIsOrderly, BeginsIsOrderly, CopyIsOrderly, RenameIsOrderly,
     BootGoesOnOrderly, SaveIsOrderly, EndIsOrderly DEF ConfigNext
<1> QED
  BY <1>1, <1>2

\* Only a copy into an absent file makes it a legacy one.
LEMMA StepDoesNotClobber ==
    ASSUME ConfigTypeOK, [ConfigNext]_configVars, NEW f \in Files, target[f] \in {"fresh", "updated"}
    PROVE target'[f] # "copied"
<1>1. ASSUME NEW p \in Panels, NEW g \in Files, CopyFile(p, g) PROVE target'[f] # "copied"
  BY <1>1 DEF CopyFile, FileCopied, FileSkipped, ConfigTypeOK
<1>2. ASSUME NEW p \in Panels, OpenDatabase(p) \/ SavesSettings(p) PROVE target'[f] # "copied"
  BY <1>2 DEF OpenDatabase, SavesSettings, ConfigTypeOK
<1> QED
  BY <1>1, <1>2 DEF ConfigNext, Launch, MigrationSkipped, MigrationBegins, RenameLegacy, Scaffold, TryLock,
     PanelEnds, configVars

\* No newer file is replaced, whatever launches and crashes interleave with
\* the copy; and undisturbed, no panel runs beside a legacy configuration
\* whose files are not all there.
THEOREM MigrationIsSafeHolds == ConfigSpec => MigrationIsSafe
<1>1. ConfigInit => ConfigInv
  BY ConfigInitially
<1>2. ConfigSpec => []ConfigInv
  BY <1>1, ConfigInductive, PTL DEF ConfigSpec
<1>3. ConfigInv /\ [ConfigNext]_configVars =>
        [\A f \in Files : target[f] \in {"fresh", "updated"} => target'[f] # "copied"]_configVars
  BY StepDoesNotClobber DEF ConfigInv
<1>4. ConfigSpec => NewerIsNotClobbered
  BY <1>2, <1>3, PTL DEF ConfigSpec, NewerIsNotClobbered
<1> QED
  BY <1>2, <1>4, PTL DEF MigrationIsSafe

-----------------------------------------------------------------------------
(* The pet: its two queues *)

LEMMA TailIs ==
    ASSUME NEW S, NEW q \in Seq(S), q # <<>>
    PROVE /\ Head(q) \in S /\ Head(q) = q[1] /\ 1 \in DOMAIN q /\ Tail(q) \in Seq(S)
          /\ Len(q) \in Nat /\ DOMAIN q = 1 .. Len(q) /\ DOMAIN Tail(q) = 1 .. Len(q) - 1
          /\ \A k \in DOMAIN Tail(q) : Tail(q)[k] = q[k + 1]
OBVIOUS

LEMMA AppendIs ==
    ASSUME NEW S, NEW q \in Seq(S), NEW e \in S
    PROVE /\ Append(q, e) \in Seq(S)
          /\ Len(q) \in Nat /\ DOMAIN q = 1 .. Len(q) /\ DOMAIN Append(q, e) = 1 .. Len(q) + 1
          /\ \A k \in DOMAIN q : Append(q, e)[k] = q[k]
          /\ Append(q, e)[Len(q) + 1] = e
OBVIOUS

LEMMA ConcatIs ==
    ASSUME NEW S, NEW q \in Seq(S), NEW s \in Seq(S)
    PROVE /\ q \o s \in Seq(S)
          /\ Len(q) \in Nat /\ DOMAIN q = 1 .. Len(q) /\ Len(s) \in Nat /\ DOMAIN s = 1 .. Len(s)
          /\ DOMAIN (q \o s) = 1 .. Len(q) + Len(s)
          /\ \A k \in DOMAIN q : (q \o s)[k] = q[k]
          /\ \A k \in DOMAIN s : (q \o s)[Len(q) + k] = s[k]
OBVIOUS

LEMMA CutIs ==
    ASSUME NEW S, NEW q \in Seq(S), NEW c \in Cut(q)
    PROVE c \in Seq(S)
<1>1. PICK n \in 0 .. Len(q) : c = SubSeq(q, 1, n)
  BY DEF Cut
<1>2. \A k \in 1 .. n : q[k] \in S
  BY <1>1
<1> QED
  BY <1>1, <1>2

LEMMA WhatIsSaid ==
    ASSUME NEW q, NEW kinds
    PROVE /\ Told(q) \cap kinds = {} <=> Untold(q, kinds)
          /\ \A of : of \in Told(q) <=> ~Untold(q, {of})
BY DEF Told, Untold

LEMMA WhatIsAsked ==
    ASSUME NEW kinds
    PROVE /\ Asked \cap kinds = {} <=> Lacks(toRenderer, kinds)
          /\ \A kind : kind \in Asked <=> ~Lacks(toRenderer, {kind})
BY DEF Asked, Lacks

\* A command is run.
LEMMA AskedTail ==
    ASSUME NEW S, NEW q \in Seq(S), q # <<>>
    PROVE /\ \A kinds : Lacks(q, kinds) <=> Head(q).do \notin kinds /\ Lacks(Tail(q), kinds)
          /\ \A kind, v : LastAsks(q, kind, v) =>
                 \/ LastAsks(Tail(q), kind, v)
                 \/ Head(q).do = kind /\ Head(q).to = v /\ Lacks(Tail(q), {kind})
          /\ \A kind, v : AllAsk(q, kind, v) =>
                 (Head(q).do = kind => Head(q).to = v) /\ AllAsk(Tail(q), kind, v)
<1>1. /\ Head(q) = q[1] /\ 1 \in DOMAIN q
      /\ Len(q) \in Nat /\ DOMAIN q = 1 .. Len(q) /\ DOMAIN Tail(q) = 1 .. Len(q) - 1
      /\ \A k \in DOMAIN Tail(q) : Tail(q)[k] = q[k + 1]
  BY TailIs
<1>2. \A k \in DOMAIN q : k = 1 \/ (k - 1 \in DOMAIN Tail(q) /\ q[k] = Tail(q)[k - 1])
  BY <1>1
<1>3. \A k \in DOMAIN Tail(q) : k + 1 \in DOMAIN q /\ Tail(q)[k] = q[k + 1]
  BY <1>1
<1>4. ASSUME NEW kinds PROVE Lacks(q, kinds) <=> Head(q).do \notin kinds /\ Lacks(Tail(q), kinds)
  BY <1>1, <1>2, <1>3 DEF Lacks
<1>5. ASSUME NEW kind, NEW v, LastAsks(q, kind, v)
      PROVE \/ LastAsks(Tail(q), kind, v)
            \/ Head(q).do = kind /\ Head(q).to = v /\ Lacks(Tail(q), {kind})
  <2>1. PICK k \in DOMAIN q : /\ q[k].do = kind /\ q[k].to = v
                              /\ \A j \in DOMAIN q : j > k => q[j].do # kind
    BY <1>5 DEF LastAsks
  <2>2. CASE k = 1
    BY <1>1, <1>3, <2>1, <2>2 DEF Lacks
  <2>3. CASE k # 1
    <3>1. k - 1 \in DOMAIN Tail(q) /\ Tail(q)[k - 1] = q[k]
      BY <1>2, <2>3
    <3>2. \A j \in DOMAIN Tail(q) : j > k - 1 => Tail(q)[j].do # kind
      BY <1>1, <1>3, <2>1
    <3> QED
      BY <2>1, <3>1, <3>2 DEF LastAsks
  <2> QED
    BY <2>2, <2>3
<1>6. ASSUME NEW kind, NEW v, AllAsk(q, kind, v)
      PROVE (Head(q).do = kind => Head(q).to = v) /\ AllAsk(Tail(q), kind, v)
  BY <1>1, <1>3, <1>6 DEF AllAsk
<1> QED
  BY <1>4, <1>5, <1>6

\* Commands are sent.
LEMMA AskedMore ==
    ASSUME NEW S, NEW q \in Seq(S), NEW s \in Seq(S)
    PROVE /\ \A kinds : Lacks(q \o s, kinds) <=> Lacks(q, kinds) /\ Lacks(s, kinds)
          /\ \A kind, v : LastAsks(s, kind, v) => LastAsks(q \o s, kind, v)
          /\ \A kind, v : LastAsks(q, kind, v) /\ Lacks(s, {kind}) => LastAsks(q \o s, kind, v)
          /\ \A kind, v : AllAsk(q, kind, v) /\ AllAsk(s, kind, v) => AllAsk(q \o s, kind, v)
<1> DEFINE qs == q \o s
<1>1. /\ Len(q) \in Nat /\ DOMAIN q = 1 .. Len(q) /\ Len(s) \in Nat /\ DOMAIN s = 1 .. Len(s)
      /\ DOMAIN qs = 1 .. Len(q) + Len(s)
      /\ \A k \in DOMAIN q : qs[k] = q[k]
      /\ \A k \in DOMAIN s : qs[Len(q) + k] = s[k]
  BY ConcatIs
<1> HIDE DEF qs
<1>2. \A k \in DOMAIN qs : \/ k \in DOMAIN q /\ qs[k] = q[k]
                           \/ k > Len(q) /\ k - Len(q) \in DOMAIN s /\ qs[k] = s[k - Len(q)]
  <2>1. SUFFICES ASSUME NEW k \in DOMAIN qs, k \notin DOMAIN q
                 PROVE k > Len(q) /\ k - Len(q) \in DOMAIN s /\ qs[k] = s[k - Len(q)]
    BY <1>1
  <2>2. k > Len(q) /\ k - Len(q) \in DOMAIN s /\ k = Len(q) + (k - Len(q))
    BY <1>1, <2>1
  <2>3. qs[Len(q) + (k - Len(q))] = s[k - Len(q)]
    BY <1>1, <2>2
  <2> QED
    BY <2>2, <2>3
<1>3. \A k \in DOMAIN q : k \in DOMAIN qs /\ k <= Len(q)
  BY <1>1
<1>4. \A k \in DOMAIN s : Len(q) + k \in DOMAIN qs /\ Len(q) + k > Len(q)
  BY <1>1
<1>5. ASSUME NEW kinds PROVE Lacks(qs, kinds) <=> Lacks(q, kinds) /\ Lacks(s, kinds)
  <2>1. Lacks(qs, kinds) => Lacks(q, kinds)
    BY <1>1, <1>3 DEF Lacks
  <2>2. Lacks(qs, kinds) => Lacks(s, kinds)
    BY <1>1, <1>4 DEF Lacks
  <2>3. Lacks(q, kinds) /\ Lacks(s, kinds) => Lacks(qs, kinds)
    BY <1>2 DEF Lacks
  <2> QED
    BY <2>1, <2>2, <2>3
<1>6. ASSUME NEW kind, NEW v, LastAsks(s, kind, v) PROVE LastAsks(qs, kind, v)
  <2>1. PICK k \in DOMAIN s : /\ s[k].do = kind /\ s[k].to = v
                              /\ \A j \in DOMAIN s : j > k => s[j].do # kind
    BY <1>6 DEF LastAsks
  <2>2. Len(q) + k \in DOMAIN qs /\ qs[Len(q) + k] = s[k]
    BY <1>1, <1>4
  <2>3. ASSUME NEW j \in DOMAIN qs, j > Len(q) + k PROVE qs[j].do # kind
    <3>1. j \notin DOMAIN q
      BY <1>1, <2>3
    <3>2. j - Len(q) \in DOMAIN s /\ qs[j] = s[j - Len(q)] /\ j - Len(q) > k
      BY <1>1, <1>2, <2>3, <3>1
    <3> QED
      BY <2>1, <3>2
  <2> QED
    BY <2>1, <2>2, <2>3 DEF LastAsks
<1>7. ASSUME NEW kind, NEW v, LastAsks(q, kind, v), Lacks(s, {kind}) PROVE LastAsks(qs, kind, v)
  <2>1. PICK k \in DOMAIN q : /\ q[k].do = kind /\ q[k].to = v
                              /\ \A j \in DOMAIN q : j > k => q[j].do # kind
    BY <1>7 DEF LastAsks
  <2>2. k \in DOMAIN qs /\ qs[k] = q[k]
    BY <1>1, <1>3
  <2>3. \A j \in DOMAIN qs : j > k => qs[j].do # kind
    BY <1>2, <1>7, <2>1 DEF Lacks
  <2> QED
    BY <2>1, <2>2, <2>3 DEF LastAsks
<1>8. ASSUME NEW kind, NEW v, AllAsk(q, kind, v), AllAsk(s, kind, v) PROVE AllAsk(qs, kind, v)
  BY <1>2, <1>8 DEF AllAsk
<1> QED
  BY <1>5, <1>6, <1>7, <1>8 DEF qs

\* An event is handled.
LEMMA ToldTail ==
    ASSUME NEW S, NEW q \in Seq(S), q # <<>>
    PROVE /\ \A kinds : Untold(q, kinds) <=> Head(q).of \notin kinds /\ Untold(Tail(q), kinds)
          /\ \A kinds, field, v : LastStores(q, kinds, field, v) =>
                 \/ LastStores(Tail(q), kinds, field, v)
                 \/ Head(q).of \in kinds /\ Value(Head(q), field) = v /\ Untold(Tail(q), kinds)
          /\ \A marks, kinds : NoneAfter(q, marks, kinds) =>
                 /\ NoneAfter(Tail(q), marks, kinds)
                 /\ Head(q).of \in marks => Untold(Tail(q), kinds)
<1>1. /\ Head(q) = q[1] /\ 1 \in DOMAIN q
      /\ Len(q) \in Nat /\ DOMAIN q = 1 .. Len(q) /\ DOMAIN Tail(q) = 1 .. Len(q) - 1
      /\ \A k \in DOMAIN Tail(q) : Tail(q)[k] = q[k + 1]
  BY TailIs
<1>2. \A k \in DOMAIN q : k = 1 \/ (k - 1 \in DOMAIN Tail(q) /\ q[k] = Tail(q)[k - 1])
  BY <1>1
<1>3. \A k \in DOMAIN Tail(q) : k + 1 \in DOMAIN q /\ k + 1 > 1 /\ Tail(q)[k] = q[k + 1]
  BY <1>1
<1>4. ASSUME NEW kinds PROVE Untold(q, kinds) <=> Head(q).of \notin kinds /\ Untold(Tail(q), kinds)
  BY <1>1, <1>2, <1>3 DEF Untold
<1>5. ASSUME NEW kinds, NEW field, NEW v, LastStores(q, kinds, field, v)
      PROVE \/ LastStores(Tail(q), kinds, field, v)
            \/ Head(q).of \in kinds /\ Value(Head(q), field) = v /\ Untold(Tail(q), kinds)
  <2>1. PICK k \in DOMAIN q : /\ q[k].of \in kinds /\ Value(q[k], field) = v
                              /\ \A j \in DOMAIN q : j > k => q[j].of \notin kinds
    BY <1>5 DEF LastStores
  <2>2. CASE k = 1
    BY <1>1, <1>3, <2>1, <2>2 DEF Untold
  <2>3. CASE k # 1
    <3>1. k - 1 \in DOMAIN Tail(q) /\ Tail(q)[k - 1] = q[k]
      BY <1>2, <2>3
    <3>2. \A j \in DOMAIN Tail(q) : j > k - 1 => Tail(q)[j].of \notin kinds
      BY <1>1, <1>3, <2>1
    <3> QED
      BY <2>1, <3>1, <3>2 DEF LastStores
  <2> QED
    BY <2>2, <2>3
<1>6. ASSUME NEW marks, NEW kinds, NoneAfter(q, marks, kinds)
      PROVE /\ NoneAfter(Tail(q), marks, kinds)
            /\ Head(q).of \in marks => Untold(Tail(q), kinds)
  <2>1. Head(q).of \in marks => Untold(Tail(q), kinds)
    BY <1>1, <1>3, <1>6 DEF NoneAfter, Untold
  <2>2. ASSUME NEW k \in DOMAIN Tail(q), NEW j \in DOMAIN Tail(q), Tail(q)[k].of \in marks, j > k
        PROVE Tail(q)[j].of \notin kinds
    <3>1. k + 1 \in DOMAIN q /\ j + 1 \in DOMAIN q /\ j + 1 > k + 1
      BY <1>1, <2>2
    <3> QED
      BY <1>3, <1>6, <2>2, <3>1 DEF NoneAfter
  <2> QED
    BY <2>1, <2>2 DEF NoneAfter
<1> QED
  BY <1>4, <1>5, <1>6

\* An event is reported.
LEMMA ToldMore ==
    ASSUME NEW S, NEW q \in Seq(S), NEW e \in S
    PROVE /\ \A kinds : Untold(Append(q, e), kinds) <=> Untold(q, kinds) /\ e.of \notin kinds
          /\ \A kinds, field, v : LastStores(q, kinds, field, v) /\ e.of \notin kinds =>
                 LastStores(Append(q, e), kinds, field, v)
          /\ \A kinds, field : e.of \in kinds => LastStores(Append(q, e), kinds, field, Value(e, field))
          /\ \A marks, kinds : NoneAfter(q, marks, kinds) /\ (e.of \notin kinds \/ Untold(q, marks)) =>
                 NoneAfter(Append(q, e), marks, kinds)
<1> DEFINE r == Append(q, e)
           n == Len(q) + 1
<1>1. /\ Len(q) \in Nat /\ DOMAIN q = 1 .. Len(q) /\ DOMAIN r = 1 .. n
      /\ \A k \in DOMAIN q : r[k] = q[k]
      /\ r[n] = e
  BY AppendIs
<1> HIDE DEF r
<1>2. \A k \in DOMAIN r : k = n \/ (k \in DOMAIN q /\ r[k] = q[k])
  BY <1>1
<1>3. /\ n \in DOMAIN r /\ \A k \in DOMAIN r : ~(k > n)
      /\ \A k \in DOMAIN q : k \in DOMAIN r /\ r[k] = q[k] /\ n > k
  BY <1>1
<1> HIDE DEF n
<1>4. ASSUME NEW kinds PROVE Untold(r, kinds) <=> Untold(q, kinds) /\ e.of \notin kinds
  BY <1>1, <1>2, <1>3 DEF Untold
<1>5. ASSUME NEW kinds, NEW field, NEW v, LastStores(q, kinds, field, v), e.of \notin kinds
      PROVE LastStores(r, kinds, field, v)
  BY <1>1, <1>2, <1>3, <1>5 DEF LastStores
<1>6. ASSUME NEW kinds, NEW field, e.of \in kinds PROVE LastStores(r, kinds, field, Value(e, field))
  BY <1>1, <1>3, <1>6 DEF LastStores
<1>7. ASSUME NEW marks, NEW kinds, NoneAfter(q, marks, kinds), e.of \notin kinds \/ Untold(q, marks)
      PROVE NoneAfter(r, marks, kinds)
  <2>1. ASSUME NEW k \in DOMAIN r, NEW j \in DOMAIN r, r[k].of \in marks, j > k
        PROVE r[j].of \notin kinds
    <3>1. k \in DOMAIN q /\ r[k] = q[k]
      BY <1>2, <1>3, <2>1
    <3>2. CASE j = n
      BY <1>1, <1>7, <2>1, <3>1, <3>2 DEF Untold
    <3>3. CASE j \in DOMAIN q /\ r[j] = q[j]
      BY <1>7, <2>1, <3>1, <3>3 DEF NoneAfter
    <3> QED
      BY <1>2, <3>2, <3>3
  <2> QED
    BY <2>1 DEF NoneAfter
<1> QED
  BY <1>4, <1>5, <1>6, <1>7 DEF r

\* What the last event of a connection says about its ready.
LEMMA LostAfter ==
    ASSUME NEW S, NEW q \in Seq(S)
    PROVE /\ LostAfterReady(q) /\ q # <<>> =>
                 LostAfterReady(Tail(q)) /\ (Head(q).of = "ready" => ~Untold(Tail(q), {"lost"}))
          /\ \A e \in S : e.of = "lost" \/ (e.of # "ready" /\ LostAfterReady(q)) => LostAfterReady(Append(q, e))
<1>1. ASSUME LostAfterReady(q), q # <<>>
      PROVE LostAfterReady(Tail(q)) /\ (Head(q).of = "ready" => ~Untold(Tail(q), {"lost"}))
  <2>1. /\ Head(q) = q[1] /\ 1 \in DOMAIN q
        /\ Len(q) \in Nat /\ DOMAIN q = 1 .. Len(q) /\ DOMAIN Tail(q) = 1 .. Len(q) - 1
        /\ \A k \in DOMAIN Tail(q) : Tail(q)[k] = q[k + 1]
    BY <1>1, TailIs
  <2>2. \A k \in DOMAIN q : k > 1 => k - 1 \in DOMAIN Tail(q) /\ q[k] = Tail(q)[k - 1]
    BY <2>1
  <2>3. Head(q).of = "ready" => ~Untold(Tail(q), {"lost"})
    <3>1. SUFFICES ASSUME q[1].of = "ready" PROVE \E j \in DOMAIN Tail(q) : Tail(q)[j].of = "lost"
      BY <2>1 DEF Untold
    <3>2. PICK j \in DOMAIN q : j > 1 /\ q[j].of = "lost"
      BY <1>1, <2>1, <3>1 DEF LostAfterReady
    <3> QED
      BY <2>2, <3>2
  <2>4. ASSUME NEW k \in DOMAIN Tail(q), Tail(q)[k].of = "ready"
        PROVE \E j \in DOMAIN Tail(q) : j > k /\ Tail(q)[j].of = "lost"
    <3>1. k + 1 \in DOMAIN q /\ q[k + 1].of = "ready" /\ k + 1 > 1
      BY <2>1, <2>4
    <3>2. PICK j \in DOMAIN q : j > k + 1 /\ q[j].of = "lost"
      BY <1>1, <3>1 DEF LostAfterReady
    <3>3. j > 1 /\ j - 1 > k
      BY <2>1, <2>4, <3>2
    <3> QED
      BY <2>2, <3>2, <3>3
  <2> QED
    BY <2>3, <2>4 DEF LostAfterReady
<1>2. ASSUME NEW e \in S, e.of = "lost" \/ (e.of # "ready" /\ LostAfterReady(q))
      PROVE LostAfterReady(Append(q, e))
  <2> DEFINE r == Append(q, e)
             n == Len(q) + 1
  <2>1. /\ Len(q) \in Nat /\ DOMAIN q = 1 .. Len(q) /\ DOMAIN r = 1 .. n
        /\ \A k \in DOMAIN q : r[k] = q[k]
        /\ r[n] = e
    BY AppendIs
  <2> HIDE DEF r
  <2>2. ASSUME NEW k \in DOMAIN r, r[k].of = "ready"
        PROVE \E j \in DOMAIN r : j > k /\ r[j].of = "lost"
    <3>1. k \in DOMAIN q /\ q[k].of = "ready" /\ n > k /\ n \in DOMAIN r
      BY <1>2, <2>1, <2>2
    <3>2. CASE e.of = "lost"
      BY <2>1, <3>1, <3>2
    <3>3. CASE LostAfterReady(q)
      BY <2>1, <3>1, <3>3 DEF LostAfterReady
    <3> QED
      BY <1>2, <3>2, <3>3
  <2> QED
    BY <2>2 DEF LostAfterReady, r
<1> QED
  BY <1>1, <1>2

-----------------------------------------------------------------------------
(* The pet: what its steps do to the queues *)

LEMMA CommandTypes ==
    /\ \A l \in Layouts : \A do \in {"load", "layout", "reset", "get"} : Command(do, l) \in Commands
    /\ \A x \in Int : Command("position", x) \in Commands
    /\ \A w \in Nat : Command("size", w) \in Commands
    /\ \A d \in Dials : Command("dial", d) \in Commands
    /\ Fresh \in Layouts /\ FreshDial \in Dials
BY LayoutAssumption DEF Command, Commands

LEMMA EventTypes ==
    /\ \A l \in Layouts : \A of \in {"ready", "loaded", "failed", "lost", "layout_changed", "layout_state"} :
           Event(of, l) \in Events
    /\ \A x \in Int : Event("drag_end", x) \in Events
    /\ \A win \in [x : Int, w : Nat] : Event("window_resized", win) \in Events
    /\ Fresh \in Layouts
BY LayoutAssumption DEF Event, Events, LayoutNews

LEMMA CommandKinds ==
    ASSUME NEW c \in Commands
    PROVE \/ c.do \in {"load", "layout", "reset", "get"} /\ c.to \in Layouts
          \/ c.do = "position" /\ c.to \in Int
          \/ c.do = "size" /\ c.to \in Nat
          \/ c.do = "dial" /\ c.to \in Dials
BY DEF Commands

LEMMA EventKinds ==
    ASSUME NEW e \in Events
    PROVE \/ e.of \in {"ready", "loaded", "failed", "lost", "layout_changed", "layout_state"} /\ e.what \in Layouts
          \/ e.of = "drag_end" /\ e.what \in Int
          \/ e.of = "window_resized" /\ e.what \in [x : Int, w : Nat]
BY DEF Events, LayoutNews

LEMMA SalvoType ==
    ASSUME LayoutTypeOK PROVE Salvo \in Seq(Commands)
<1>1. config.x \in Int /\ config.w \in Nat /\ config.layout \in Layouts /\ config.dial \in Dials
  BY DEF LayoutTypeOK, Kept
<1>2. /\ Command("load", Fresh) \in Commands /\ Command("position", config.x) \in Commands
      /\ Command("size", config.w) \in Commands /\ Command("dial", config.dial) \in Commands
      /\ Command("layout", config.layout) \in Commands
  BY <1>1, CommandTypes
<1> QED
  BY <1>2 DEF Salvo

LEMMA OneCommand == ASSUME NEW c \in Commands PROVE <<c>> \in Seq(Commands)
OBVIOUS

LEMMA SentType ==
    ASSUME toRenderer \in Seq(Commands), NEW s \in Seq(Commands)
    PROVE SentTo(toRenderer, s) \in Seq(Commands)
BY DEF SentTo

LEMMA ReportedType ==
    ASSUME toPanel \in Seq(Events), NEW e \in Events, Reported(e)
    PROVE toPanel' \in Seq(Events)
BY AppendIs DEF Reported

LEMMA CentredType ==
    ASSUME NEW x \in Int, NEW from \in Nat, NEW to \in Nat
    PROVE /\ Centred(x, from, to) \in Int
          /\ from = to => Centred(x, from, to) = x
BY DEF Centred

\* One of the seven handlers runs.
LEMMA RunHandles ==
    ASSUME LayoutTypeOK, RunCommand
    PROVE /\ toRenderer # <<>> /\ toRenderer' = Tail(toRenderer)
          /\ UNCHANGED <<panel, link, alive, said, frameWidth, hands, windowCrossed, budget>>
          /\ LET c == Head(toRenderer)
             IN  \/ c.do = "load" /\ LoadModel
                 \/ c.do = "position" /\ c.to \in Int /\ PlaceWindow(c.to)
                 \/ c.do = "size" /\ c.to \in Nat /\ SizeWindow(c.to)
                 \/ c.do = "layout" /\ c.to \in Layouts /\ SetLayout(c.to)
                 \/ c.do = "reset" /\ ResetLayout
                 \/ c.do = "get" /\ GetLayout
                 \/ c.do = "dial" /\ c.to \in Dials /\ SetDialShown(c.to)
<1> DEFINE c == Head(toRenderer)
<1>1. toRenderer # <<>> /\ c \in Commands
  BY TailIs DEF RunCommand, LayoutTypeOK
<1>2. /\ c.do = "load" => LoadModel
      /\ c.do = "position" => PlaceWindow(c.to)
      /\ c.do = "size" => SizeWindow(c.to)
      /\ c.do = "layout" => SetLayout(c.to)
      /\ c.do = "reset" => ResetLayout
      /\ c.do = "get" => GetLayout
      /\ c.do = "dial" => SetDialShown(c.to)
  BY DEF RunCommand
<1>3. /\ toRenderer' = Tail(toRenderer)
      /\ UNCHANGED <<panel, link, alive, said, frameWidth, hands, windowCrossed, budget>>
  BY DEF RunCommand
<1> QED
  BY <1>1, <1>2, <1>3, CommandKinds

\* One of the eight handlers runs.
LEMMA EventHandles ==
    ASSUME LayoutTypeOK, HandleEvent
    PROVE /\ toPanel # <<>> /\ toPanel' = Tail(toPanel)
          /\ UNCHANGED <<link, petProcess, shown, hands, budget>>
          /\ LET e == Head(toPanel)
             IN  \/ e.of = "ready" /\ OnReady
                 \/ e.of = "loaded" /\ OnModelLoaded
                 \/ e.of = "failed" /\ OnLoadFailed
                 \/ e.of = "layout_changed" /\ e.what \in Layouts /\ OnLayoutChanged(e.what)
                 \/ e.of = "layout_state" /\ e.what \in Layouts /\ OnLayoutState(e.what)
                 \/ e.of = "drag_end" /\ e.what \in Int /\ OnDragEnd(e.what)
                 \/ e.of = "window_resized" /\ e.what \in [x : Int, w : Nat] /\ OnWindowResized(e.what)
                 \/ e.of = "lost" /\ OnLost
<1> DEFINE e == Head(toPanel)
<1>1. toPanel # <<>> /\ e \in Events
  BY TailIs DEF HandleEvent, LayoutTypeOK
<1>2. /\ e.of = "ready" => OnReady
      /\ e.of = "loaded" => OnModelLoaded
      /\ e.of = "failed" => OnLoadFailed
      /\ e.of = "layout_changed" => OnLayoutChanged(e.what)
      /\ e.of = "layout_state" => OnLayoutState(e.what)
      /\ e.of = "drag_end" => OnDragEnd(e.what)
      /\ e.of = "window_resized" => OnWindowResized(e.what)
      /\ e.of = "lost" => OnLost
  BY DEF HandleEvent
<1>3. toPanel' = Tail(toPanel) /\ UNCHANGED <<link, petProcess, shown, hands, budget>>
  BY DEF HandleEvent
<1> QED
  BY <1>1, <1>2, <1>3, EventKinds

\* What the user, the renderer's clock and the panel do outside of the
\* queues' handlers.
Idler == DropWindow \/ DropModel \/ NewFrame \/ ShowAnyway \/ SaveRow
Process == StartRenderer \/ Connect \/ SayReady \/ LoseLink \/ RendererDies \/ PanelRestarts
Panel == (\E d \in Dials : SetDial(d)) \/ SwitchModel \/ AskReset \/ AskLayout
User ==
    \/ \E x \in Places : DragWindow(x)
    \/ \E w \in Widths : ResizeWindow(w)
    \/ \E l \in Layouts : DragModel(l) \/ ScaleModel(l)

LEMMA NextSplits == LayoutNext => User \/ Idler \/ Panel \/ Process \/ RunCommand \/ HandleEvent
BY DEF LayoutNext, User, Idler, Panel, Process

-----------------------------------------------------------------------------
(* The pet: types *)

LEMMA UserTypes ==
    ASSUME LayoutTypeOK, User PROVE LayoutTypeOK'
<1> USE DEF Touched, panel, wire, petProcess, shown, hands, ghosts, budget
<1>1. ASSUME NEW x \in Places, DragWindow(x) PROVE LayoutTypeOK'
  BY <1>1, LayoutAssumption DEF LayoutTypeOK, DragWindow
<1>2. ASSUME NEW w \in Widths, ResizeWindow(w) PROVE LayoutTypeOK'
  <2>1. window' \in [x : Int, w : Nat]
    BY <1>2, LayoutAssumption, CentredType DEF LayoutTypeOK, ResizeWindow
  <2>2. toPanel' \in Seq(Events)
    BY <1>2, <2>1, EventTypes, ReportedType DEF LayoutTypeOK, ResizeWindow
  <2>3. windowCrossed' \in BOOLEAN
    BY <1>2 DEF ResizeWindow
  <2> QED
    BY <1>2, <2>1, <2>2, <2>3 DEF LayoutTypeOK, ResizeWindow
<1>3. ASSUME NEW l \in Layouts, DragModel(l) PROVE LayoutTypeOK'
  BY <1>3 DEF LayoutTypeOK, DragModel
<1>4. ASSUME NEW l \in Layouts, ScaleModel(l) PROVE LayoutTypeOK'
  <2>1. toPanel' \in Seq(Events)
    BY <1>4, EventTypes, ReportedType DEF LayoutTypeOK, ScaleModel
  <2>2. layoutCrossed' \in BOOLEAN
    BY <1>4 DEF ScaleModel
  <2> QED
    BY <1>4, <2>1, <2>2 DEF LayoutTypeOK, ScaleModel
<1> QED
  BY <1>1, <1>2, <1>3, <1>4 DEF User

LEMMA IdlerTypes ==
    ASSUME LayoutTypeOK, Idler PROVE LayoutTypeOK'
<1> USE DEF panel, wire, petProcess, shown, hands, ghosts, budget
<1>1. CASE DropWindow
  <2>1. toPanel' \in Seq(Events) /\ windowCrossed' \in BOOLEAN
    BY <1>1, EventTypes, ReportedType DEF LayoutTypeOK, DropWindow
  <2> QED
    BY <1>1, <2>1 DEF LayoutTypeOK, DropWindow
<1>2. CASE DropModel
  <2>1. toPanel' \in Seq(Events) /\ layoutCrossed' \in BOOLEAN
    BY <1>2, EventTypes, ReportedType DEF LayoutTypeOK, DropModel
  <2> QED
    BY <1>2, <2>1 DEF LayoutTypeOK, DropModel
<1>3. CASE NewFrame
  BY <1>3 DEF LayoutTypeOK, NewFrame
<1>4. CASE ShowAnyway
  BY <1>4 DEF LayoutTypeOK, ShowAnyway
<1>5. CASE SaveRow
  BY <1>5 DEF LayoutTypeOK, SaveRow, Saved
<1> QED
  BY <1>1, <1>2, <1>3, <1>4, <1>5 DEF Idler

\* A command of the panel's own.
LEMMA PanelSends ==
    ASSUME LayoutTypeOK, Panel
    PROVE /\ UNCHANGED <<greeted, link, toPanel, petProcess, shown, hands, ghosts>>
          /\ asked' \in Nat /\ UNCHANGED <<edits, losses>>
          /\ \E c \in Commands :
                 /\ toRenderer' = SentTo(toRenderer, <<c>>)
                 /\ \/ \E d \in Dials : c = Command("dial", d) /\ config' = [config EXCEPT !.dial = d] /\ UNCHANGED disk
                    \/ /\ c.do \in {"load", "reset", "get"} /\ config' = config
                       /\ disk' = config \/ disk' = disk
<1>1. asked + 1 \in Nat
  BY DEF LayoutTypeOK
<1>2. ASSUME NEW d \in Dials, SetDial(d) PROVE Command("dial", d) \in Commands
  BY CommandTypes
<1>3. \A do \in {"load", "reset", "get"} : Command(do, Fresh) \in Commands /\ Command(do, Fresh).do = do
  BY CommandTypes DEF Command
<1>4. CASE \E d \in Dials : SetDial(d)
  BY <1>1, <1>2, <1>4 DEF SetDial, Sends
<1>5. CASE SwitchModel
  BY <1>1, <1>3, <1>5 DEF SwitchModel, Sends, Saved
<1>6. CASE AskReset
  BY <1>1, <1>3, <1>6 DEF AskReset, Sends
<1>7. CASE AskLayout
  BY <1>1, <1>3, <1>7 DEF AskLayout, Sends
<1> QED
  BY <1>4, <1>5, <1>6, <1>7 DEF Panel

LEMMA PanelTypes ==
    ASSUME LayoutTypeOK, Panel PROVE LayoutTypeOK'
<1>1. PICK c \in Commands :
          /\ toRenderer' = SentTo(toRenderer, <<c>>)
          /\ \/ \E d \in Dials : c = Command("dial", d) /\ config' = [config EXCEPT !.dial = d] /\ UNCHANGED disk
             \/ c.do \in {"load", "reset", "get"} /\ config' = config /\ (disk' = config \/ disk' = disk)
  BY PanelSends
<1>2. toRenderer' \in Seq(Commands)
  BY <1>1, OneCommand, SentType DEF LayoutTypeOK
<1>3. config' \in Kept /\ disk' \in Kept
  BY <1>1 DEF LayoutTypeOK, Kept
<1>4. /\ UNCHANGED <<greeted, link, toPanel, petProcess, shown, hands, ghosts>>
      /\ asked' \in Nat /\ UNCHANGED <<edits, losses>>
  BY PanelSends
<1> QED
  BY <1>2, <1>3, <1>4 DEF LayoutTypeOK, petProcess, shown, hands, ghosts

LEMMA EmptyType == <<>> \in Seq(Events)
OBVIOUS

\* A renderer that ends, or loses its connection, leaves part of what was
\* under way.
LEMMA ProcessTypes ==
    ASSUME LayoutTypeOK, Process PROVE LayoutTypeOK'
<1> USE DEF panel, wire, petProcess, shown, hands, ghosts, budget
<1>1. CASE StartRenderer
  <2>1. window' \in [x : Int, w : Nat] /\ frameWidth' \in Nat
    <3>1. config.w \in Nat /\ StartPlaces \subseteq Int
      BY LayoutAssumption DEF LayoutTypeOK, Kept, StartPlaces
    <3>2. PICK x \in StartPlaces : window' = [x |-> x, w |-> config.w]
      BY <1>1 DEF StartRenderer
    <3> QED
      BY <1>1, <3>1, <3>2 DEF StartRenderer
  <2>2. layout' \in Layouts /\ dial' \in Dials
    BY <1>1, LayoutAssumption DEF StartRenderer
  <2> QED
    BY <1>1, <2>1, <2>2 DEF LayoutTypeOK, StartRenderer
<1>2. CASE Connect
  BY <1>2, EmptyType DEF LayoutTypeOK, Connect
<1>3. CASE SayReady
  <2>1. toPanel' \in Seq(Events)
    BY <1>3, EventTypes, AppendIs DEF SayReady, LayoutTypeOK
  <2> QED
    BY <1>3, <2>1 DEF LayoutTypeOK, SayReady
<1>4. ASSUME Loss PROVE edits' \in Nat /\ asked' \in Nat /\ losses' \in Nat
  BY <1>4 DEF Loss, LayoutTypeOK
<1>5. \A q \in Cut(toPanel) : Append(q, Event("lost", Fresh)) \in Seq(Events)
  BY EventTypes, CutIs, AppendIs DEF LayoutTypeOK
<1>6. ASSUME NoRenderer
      PROVE /\ alive' = FALSE /\ visible' = FALSE /\ said' = FALSE /\ link' = FALSE
            /\ window' \in [x : Int, w : Nat] /\ frameWidth' \in Nat /\ layout' \in Layouts /\ dial' \in Dials
            /\ dragging' = FALSE /\ adjusting' = FALSE /\ layoutCrossed' = FALSE /\ windowCrossed' = FALSE
            /\ toRenderer' \in Seq(Commands)
  BY <1>6, LayoutAssumption DEF NoRenderer, Nowhere
<1>7. CASE LoseLink
  <2>1. toPanel' \in Seq(Events) /\ toRenderer' \in Seq(Commands)
    BY <1>5, <1>7, CutIs DEF LoseLink, LayoutTypeOK
  <2> QED
    BY <1>4, <1>7, <2>1 DEF LayoutTypeOK, LoseLink
<1>8. CASE RendererDies
  <2>1. toPanel' \in Seq(Events)
    BY <1>5, <1>8 DEF RendererDies, LayoutTypeOK
  <2>2. UNCHANGED panel /\ Loss /\ NoRenderer
    BY <1>8 DEF RendererDies
  <2> QED
    BY <1>4, <1>6, <2>1, <2>2 DEF LayoutTypeOK
<1>9. CASE PanelRestarts
  <2>1. config' = disk /\ greeted' = FALSE /\ toPanel' = <<>> /\ UNCHANGED disk /\ Loss /\ NoRenderer
    BY <1>9 DEF PanelRestarts
  <2> QED
    BY <1>4, <1>6, <2>1, EmptyType DEF LayoutTypeOK
<1> QED
  BY <1>1, <1>2, <1>3, <1>7, <1>8, <1>9 DEF Process

LEMMA RunTypes ==
    ASSUME LayoutTypeOK, RunCommand PROVE LayoutTypeOK'
<1>1. /\ toRenderer' \in Seq(Commands)
      /\ UNCHANGED <<panel, link, alive, said, frameWidth, hands, windowCrossed, budget>>
  <2>1. toRenderer # <<>> /\ toRenderer' = Tail(toRenderer)
    BY RunHandles
  <2>2. UNCHANGED <<panel, link, alive, said, frameWidth, hands, windowCrossed, budget>>
    BY RunHandles
  <2> QED
    BY <2>1, <2>2, TailIs DEF LayoutTypeOK
<1>2. /\ toPanel' \in Seq(Events) /\ visible' \in BOOLEAN /\ window' \in [x : Int, w : Nat]
      /\ layout' \in Layouts /\ dial' \in Dials /\ layoutCrossed' \in BOOLEAN
  <2> USE DEF LayoutTypeOK
  <2> DEFINE c == Head(toRenderer)
  <2>1. \A of \in {"loaded", "failed"} : Event(of, Fresh) \in Events
    BY EventTypes
  <2>2. Event("layout_state", layout) \in Events
    BY EventTypes
  <2>3. CASE LoadModel
    BY <2>1, <2>3, ReportedType, LayoutAssumption DEF LoadModel
  <2>4. CASE c.to \in Int /\ PlaceWindow(c.to)
    BY <2>4 DEF PlaceWindow
  <2>5. CASE c.to \in Nat /\ SizeWindow(c.to)
    BY <2>5, CentredType DEF SizeWindow
  <2>6. CASE c.to \in Layouts /\ SetLayout(c.to)
    BY <2>6 DEF SetLayout
  <2>7. CASE ResetLayout
    BY <2>7, LayoutAssumption DEF ResetLayout
  <2>8. CASE GetLayout
    BY <2>2, <2>8, ReportedType DEF GetLayout
  <2>9. CASE c.to \in Dials /\ SetDialShown(c.to)
    BY <2>9 DEF SetDialShown
  <2> QED
    BY <2>3, <2>4, <2>5, <2>6, <2>7, <2>8, <2>9, RunHandles
<1> QED
  BY <1>1, <1>2 DEF LayoutTypeOK, panel, hands, budget

LEMMA EventHandledTypes ==
    ASSUME LayoutTypeOK, HandleEvent PROVE LayoutTypeOK'
<1>1. /\ toPanel' \in Seq(Events)
      /\ UNCHANGED <<link, petProcess, shown, hands, budget>>
  <2>1. toPanel # <<>> /\ toPanel' = Tail(toPanel)
    BY EventHandles
  <2>2. UNCHANGED <<link, petProcess, shown, hands, budget>>
    BY EventHandles
  <2> QED
    BY <2>1, <2>2, TailIs DEF LayoutTypeOK
<1>2. /\ config' \in Kept /\ disk' \in Kept /\ greeted' \in BOOLEAN
      /\ toRenderer' \in Seq(Commands) /\ layoutCrossed' \in BOOLEAN /\ windowCrossed' \in BOOLEAN
  <2> DEFINE e == Head(toPanel)
  <2> USE DEF LayoutTypeOK, ghosts
  <2>1. CASE OnReady
    BY <2>1, SalvoType, SentType DEF OnReady
  <2>2. CASE OnModelLoaded
    <3>1. <<Command("layout", config.layout)>> \in Seq(Commands)
      BY CommandTypes, OneCommand DEF Kept
    <3> QED
      BY <2>2, <3>1, SentType DEF OnModelLoaded, panel
  <2>3. CASE OnLoadFailed
    BY <2>3 DEF OnLoadFailed, Saved
  <2>4. CASE e.what \in Layouts /\ OnLayoutChanged(e.what)
    BY <2>4 DEF OnLayoutChanged, Saved, Kept
  <2>5. CASE e.what \in Layouts /\ OnLayoutState(e.what)
    BY <2>5 DEF OnLayoutState, Kept
  <2>6. CASE e.what \in Int /\ OnDragEnd(e.what)
    BY <2>6 DEF OnDragEnd, Saved, Kept
  <2>7. CASE e.what \in [x : Int, w : Nat] /\ OnWindowResized(e.what)
    BY <2>7 DEF OnWindowResized, Saved, Kept
  <2>8. CASE OnLost
    BY <2>8 DEF OnLost
  <2> QED
    BY <2>1, <2>2, <2>3, <2>4, <2>5, <2>6, <2>7, <2>8, EventHandles
<1> QED
  BY <1>1, <1>2 DEF LayoutTypeOK, petProcess, shown, hands, budget

LEMMA LayoutTypes == ASSUME LayoutTypeOK, LayoutNext PROVE LayoutTypeOK'
BY NextSplits, UserTypes, IdlerTypes, PanelTypes, ProcessTypes, RunTypes, EventHandledTypes

-----------------------------------------------------------------------------
(* The pet: steps that are quiet about some events *)

QuietAbout(kinds) ==
    \/ toPanel' = toPanel
    \/ \E e \in Events : e.of \notin kinds /\ toPanel' = Append(toPanel, e)
    \/ toPanel # <<>> /\ Head(toPanel).of \notin kinds /\ toPanel' = Tail(toPanel)

LEMMA QuietKeeps ==
    ASSUME toPanel \in Seq(Events), NEW all, QuietAbout(all), NEW kinds \in SUBSET all
    PROVE /\ Untold(toPanel', kinds) <=> Untold(toPanel, kinds)
          /\ \A field, v : LastStores(toPanel, kinds, field, v) => LastStores(toPanel', kinds, field, v)
          /\ \A marks \in SUBSET all : NoneAfter(toPanel, marks, kinds) => NoneAfter(toPanel', marks, kinds)
<1>1. CASE toPanel' = toPanel
  BY <1>1
<1>2. CASE \E e \in Events : e.of \notin all /\ toPanel' = Append(toPanel, e)
  <2>1. PICK e \in Events : e.of \notin all /\ toPanel' = Append(toPanel, e)
    BY <1>2
  <2>2. e.of \notin kinds
    BY <2>1
  <2> QED
    BY <2>1, <2>2, ToldMore
<1>3. CASE toPanel # <<>> /\ Head(toPanel).of \notin all /\ toPanel' = Tail(toPanel)
  <2>1. Head(toPanel).of \notin kinds
    BY <1>3
  <2> QED
    BY <1>3, <2>1, ToldTail
<1> QED
  BY <1>1, <1>2, <1>3 DEF QuietAbout

\* q and r say the same of the commands of a kind.
Alike(q, r, kind) ==
    /\ Lacks(q, {kind}) <=> Lacks(r, {kind})
    /\ \A v : LastAsks(q, kind, v) => LastAsks(r, kind, v)
    /\ \A v : AllAsk(q, kind, v) => AllAsk(r, kind, v)

LEMMA AlikeTail ==
    ASSUME NEW q \in Seq(Commands), q # <<>>, NEW kind, Head(q).do # kind
    PROVE Alike(q, Tail(q), kind)
BY AskedTail DEF Alike

LEMMA LacksAsks == ASSUME NEW q, NEW kind, Lacks(q, {kind}) PROVE \A v : AllAsk(q, kind, v)
BY DEF Lacks, AllAsk

LEMMA AlikeMore ==
    ASSUME NEW q \in Seq(Commands), NEW s \in Seq(Commands), NEW kind, Lacks(s, {kind})
    PROVE Alike(q, q \o s, kind)
<1>1. \A v : AllAsk(s, kind, v)
  BY LacksAsks
<1> QED
  BY <1>1, AskedMore DEF Alike

LEMMA AlikeSent ==
    ASSUME toRenderer \in Seq(Commands), NEW s \in Seq(Commands), NEW kind, Lacks(s, {kind}),
           toRenderer' = SentTo(toRenderer, s)
    PROVE Alike(toRenderer, toRenderer', kind)
<1>1. CASE link
  BY <1>1, AlikeMore DEF SentTo
<1>2. CASE ~link
  BY <1>2 DEF SentTo, Alike
<1> QED
  BY <1>1, <1>2

LEMMA OneAsks ==
    ASSUME NEW c \in Commands
    PROVE /\ \A kinds : Lacks(<<c>>, kinds) <=> c.do \notin kinds
          /\ LastAsks(<<c>>, c.do, c.to)
BY DEF Lacks, LastAsks

LEMMA SalvoAsks ==
    /\ LastAsks(Salvo, "dial", config.dial) /\ LastAsks(Salvo, "layout", config.layout)
    /\ LastAsks(Salvo, "position", config.x) /\ AllAsk(Salvo, "size", config.w) /\ ~Lacks(Salvo, {"size"})
<1> DEFINE s == Salvo
<1>1. /\ DOMAIN s = 1 .. 5
      /\ s[1].do = "load" /\ s[2].do = "position" /\ s[3].do = "size" /\ s[4].do = "dial" /\ s[5].do = "layout"
      /\ s[2].to = config.x /\ s[3].to = config.w /\ s[4].to = config.dial /\ s[5].to = config.layout
  BY DEF Salvo, Command
<1> HIDE DEF s
<1>2. \A j \in 1 .. 5 : j = 1 \/ j = 2 \/ j = 3 \/ j = 4 \/ j = 5
  OBVIOUS
<1>3. LastAsks(s, "dial", config.dial)
  BY <1>1, <1>2 DEF LastAsks
<1>4. LastAsks(s, "layout", config.layout)
  BY <1>1, <1>2 DEF LastAsks
<1>5. LastAsks(s, "position", config.x)
  BY <1>1, <1>2 DEF LastAsks
<1>6. AllAsk(s, "size", config.w)
  BY <1>1, <1>2 DEF AllAsk
<1>7. ~Lacks(s, {"size"})
  BY <1>1 DEF Lacks
<1> QED
  BY <1>3, <1>4, <1>5, <1>6, <1>7 DEF s

LEMMA ReportedIs ==
    ASSUME NEW e \in Events, Reported(e), NEW kinds, e.of \notin kinds
    PROVE QuietAbout(kinds)
BY DEF Reported, QuietAbout

\* What is neither the end nor the start of a connection, nor the handling
\* of an event.
Calm == User \/ Idler \/ Panel \/ RunCommand

LEMMA CalmIsQuiet ==
    ASSUME LayoutTypeOK, Calm
    PROVE /\ UNCHANGED <<said, link, alive, greeted>>
          /\ toPanel' = toPanel \/ \E e \in Events : e.of \notin {"ready", "lost"} /\ toPanel' = Append(toPanel, e)
<1> USE DEF panel, wire, petProcess
<1> DEFINE Quietly == toPanel' = toPanel \/ \E e \in Events : e.of \notin {"ready", "lost"} /\ toPanel' = Append(toPanel, e)
<1>1. ASSUME NEW e \in Events, e.of \notin {"ready", "lost"}, Reported(e) PROVE Quietly
  BY <1>1 DEF Reported
<1>2. /\ \A l \in Layouts : /\ Event("layout_changed", l) \in Events /\ Event("layout_changed", l).of = "layout_changed"
                            /\ Event("layout_state", l) \in Events /\ Event("layout_state", l).of = "layout_state"
      /\ \A of \in {"loaded", "failed"} : Event(of, Fresh) \in Events /\ Event(of, Fresh).of = of
      /\ \A x \in Int : Event("drag_end", x) \in Events /\ Event("drag_end", x).of = "drag_end"
      /\ \A win \in [x : Int, w : Nat] : /\ Event("window_resized", win) \in Events
                                         /\ Event("window_resized", win).of = "window_resized"
  BY EventTypes DEF Event
<1> HIDE DEF Quietly
<1>3. CASE User
  <2>1. UNCHANGED <<said, link, alive, greeted>>
    BY <1>3 DEF User, DragWindow, ResizeWindow, DragModel, ScaleModel
  <2>2. ASSUME NEW x \in Places, DragWindow(x) PROVE Quietly
    BY <2>2 DEF DragWindow, Quietly
  <2>3. ASSUME NEW l \in Layouts, DragModel(l) PROVE Quietly
    BY <2>3 DEF DragModel, Quietly
  <2>4. ASSUME NEW l \in Layouts, ScaleModel(l) PROVE Quietly
    BY <1>1, <1>2, <2>4 DEF ScaleModel
  <2>5. ASSUME NEW w \in Widths, ResizeWindow(w) PROVE Quietly
    <3>1. window' \in [x : Int, w : Nat]
      BY <1>3, UserTypes DEF LayoutTypeOK
    <3> QED
      BY <1>1, <1>2, <2>5, <3>1 DEF ResizeWindow
  <2> QED
    BY <1>3, <2>1, <2>2, <2>3, <2>4, <2>5 DEF User, Quietly
<1>4. CASE Idler
  <2>1. UNCHANGED <<said, link, alive, greeted>>
    BY <1>4 DEF Idler, DropWindow, DropModel, NewFrame, ShowAnyway, SaveRow
  <2>2. ASSUME DropWindow PROVE Quietly
    <3>1. window.x \in Int
      BY DEF LayoutTypeOK
    <3> QED
      BY <1>1, <1>2, <2>2, <3>1 DEF DropWindow
  <2>3. ASSUME DropModel PROVE Quietly
    BY <1>1, <1>2, <2>3 DEF DropModel, LayoutTypeOK
  <2>4. ASSUME NewFrame \/ ShowAnyway \/ SaveRow PROVE Quietly
    BY <2>4 DEF NewFrame, ShowAnyway, SaveRow, Quietly
  <2> QED
    BY <1>4, <2>1, <2>2, <2>3, <2>4 DEF Idler, Quietly
<1>5. CASE Panel
  BY <1>5, PanelSends DEF Quietly
<1>6. CASE RunCommand
  <2>1. UNCHANGED <<said, link, alive, greeted>>
    BY <1>6, RunHandles
  <2>2. ASSUME LoadModel PROVE Quietly
    BY <1>1, <1>2, <2>2 DEF LoadModel
  <2>3. ASSUME GetLayout PROVE Quietly
    BY <1>1, <1>2, <2>3 DEF GetLayout, LayoutTypeOK
  <2>4. ASSUME UNCHANGED toPanel PROVE Quietly
    BY <2>4 DEF Quietly
  <2> QED
    BY <1>6, <2>1, <2>2, <2>3, <2>4, RunHandles
       DEF Quietly, PlaceWindow, SizeWindow, SetLayout, ResetLayout, SetDialShown
<1> QED
  BY <1>3, <1>4, <1>5, <1>6 DEF Calm, Quietly

LEMMA CalmStaysOpen ==
    ASSUME LayoutTypeOK, Calm PROVE Opened' => Opened
<1>1. UNCHANGED said /\ QuietAbout({"ready"})
  BY CalmIsQuiet DEF QuietAbout
<1> QED
  BY <1>1, QuietKeeps DEF Opened, LayoutTypeOK

-----------------------------------------------------------------------------
(* The pet: greeting *)

LEMMA GreetingKept ==
    ASSUME LayoutTypeOK, GreetingIsSound, LayoutNext
    PROVE GreetingIsSound'
<1> USE DEF GreetingIsSound
<1>0. toPanel \in Seq(Events)
  BY DEF LayoutTypeOK
<1>1. CASE Calm
  <2>1. /\ UNCHANGED <<said, link, alive, greeted>>
        /\ toPanel' = toPanel \/ \E e \in Events : e.of \notin {"ready", "lost"} /\ toPanel' = Append(toPanel, e)
    BY <1>1, CalmIsQuiet
  <2>2. CASE toPanel' = toPanel
    BY <2>1, <2>2
  <2>3. CASE \E e \in Events : e.of \notin {"ready", "lost"} /\ toPanel' = Append(toPanel, e)
    <3>1. PICK e \in Events : e.of \notin {"ready", "lost"} /\ toPanel' = Append(toPanel, e)
      BY <2>3
    <3>2. Untold(toPanel', {"lost"}) <=> Untold(toPanel, {"lost"})
      BY <1>0, <3>1, ToldMore
    <3>3. LostAfterReady(toPanel) => LostAfterReady(toPanel')
      BY <1>0, <3>1, LostAfter
    <3> QED
      BY <2>1, <3>2, <3>3
  <2> QED
    BY <2>1, <2>2, <2>3
<1>2. CASE HandleEvent
  <2>1. toPanel # <<>> /\ toPanel' = Tail(toPanel) /\ UNCHANGED <<link, alive, said>>
    BY <1>2 DEF HandleEvent, petProcess
  <2>2. Untold(toPanel, {"lost"}) <=> Head(toPanel).of \notin {"lost"} /\ Untold(toPanel', {"lost"})
    BY <1>0, <2>1, ToldTail
  <2>3. LostAfterReady(toPanel) =>
            LostAfterReady(toPanel') /\ (Head(toPanel).of = "ready" => ~Untold(toPanel', {"lost"}))
    BY <1>0, <2>1, LostAfter
  <2>4. \/ Head(toPanel).of = "ready" /\ greeted' = TRUE
        \/ Head(toPanel).of = "lost" /\ greeted' = FALSE
        \/ Head(toPanel).of # "lost" /\ greeted' = greeted
    BY <1>2, EventHandles DEF OnReady, OnModelLoaded, OnLoadFailed, OnLayoutChanged, OnLayoutState,
                              OnDragEnd, OnWindowResized, OnLost, panel
  <2>5. greeted' => said \/ ~Untold(toPanel', {"lost"})
    BY <2>2, <2>3, <2>4
  <2> QED
    BY <2>1, <2>2, <2>3, <2>5
<1>3. Untold(<<>>, {"lost"}) /\ LostAfterReady(<<>>)
  BY DEF Untold, LostAfterReady
<1>4. ASSUME NEW q \in Cut(toPanel), toPanel' = Append(q, Event("lost", Fresh))
      PROVE ~Untold(toPanel', {"lost"}) /\ LostAfterReady(toPanel')
  <2>1. q \in Seq(Events) /\ Event("lost", Fresh) \in Events /\ Event("lost", Fresh).of = "lost"
    BY <1>0, CutIs, EventTypes DEF Event
  <2> QED
    BY <1>4, <2>1, ToldMore, LostAfter
<1>5. CASE StartRenderer
  BY <1>3, <1>5 DEF StartRenderer, panel, wire
<1>6. CASE Connect
  BY <1>3, <1>6 DEF Connect, petProcess
<1>7. CASE SayReady
  <2>1. Event("ready", Fresh) \in Events /\ Event("ready", Fresh).of = "ready"
    BY EventTypes DEF Event
  <2>2. Untold(toPanel', {"lost"}) <=> Untold(toPanel, {"lost"})
    BY <1>0, <1>7, <2>1, ToldMore DEF SayReady
  <2> QED
    BY <1>7, <2>2 DEF SayReady, panel
<1>8. CASE LoseLink
  BY <1>4, <1>8 DEF LoseLink, panel
<1>9. CASE RendererDies
  <2>1. said' = FALSE /\ link' = FALSE /\ UNCHANGED greeted
    BY <1>9 DEF RendererDies, NoRenderer, panel
  <2>2. CASE link
    BY <1>4, <1>9, <2>1, <2>2 DEF RendererDies
  <2>3. CASE ~link
    BY <1>9, <2>1, <2>3 DEF RendererDies
  <2> QED
    BY <2>2, <2>3
<1>10. CASE PanelRestarts
  BY <1>3, <1>10 DEF PanelRestarts, NoRenderer
<1> QED
  BY <1>1, <1>2, <1>5, <1>6, <1>7, <1>8, <1>9, <1>10, NextSplits DEF Calm, Process

-----------------------------------------------------------------------------
(* The pet: connections *)

LEMMA ProcessSettles ==
    ASSUME PetInv, Process
    PROVE DialSettles' /\ WindowSettles' /\ LayoutSettles'
<1> USE DEF PetInv
<1>0. toPanel \in Seq(Events) /\ (said => link) /\ (link => alive)
  BY DEF LayoutTypeOK, GreetingIsSound
<1>1. ASSUME ~Opened', ~link' \/ toPanel' = <<>>
      PROVE DialSettles' /\ WindowSettles' /\ LayoutSettles'
  <2>1. toPanel' = <<>> => \A marks, kinds : NoneAfter(toPanel', marks, kinds)
    BY DEF NoneAfter
  <2> QED
    BY <1>1, <2>1 DEF DialSettles, WindowSettles, LayoutSettles
<1>2. CASE StartRenderer \/ Connect \/ PanelRestarts
  <2>1. ~said' /\ (~link' \/ toPanel' = <<>>)
    BY <1>0, <1>2 DEF StartRenderer, Connect, PanelRestarts, NoRenderer, petProcess, wire
  <2> QED
    BY <1>1, <2>1 DEF Opened
<1>3. CASE LoseLink \/ RendererDies
  BY <1>1, <1>3 DEF LoseLink, RendererDies, NoRenderer, Opened
<1>4. CASE SayReady
  <2>1. /\ Event("ready", Fresh) \in Events /\ Event("ready", Fresh).of \notin WindowNews \cup LayoutNews
        /\ Event("ready", Fresh).of = "ready"
    BY EventTypes DEF Event, WindowNews, LayoutNews
  <2>2. toPanel' = Append(toPanel, Event("ready", Fresh)) /\ UNCHANGED <<link, ghosts>>
    BY <1>4 DEF SayReady
  <2>3. ~Opened'
    BY <1>0, <2>1, <2>2, ToldMore DEF Opened
  <2>4. \A marks : /\ NoneAfter(toPanel, marks, WindowNews) => NoneAfter(toPanel', marks, WindowNews)
                   /\ NoneAfter(toPanel, marks, LayoutNews) => NoneAfter(toPanel', marks, LayoutNews)
    BY <1>0, <2>1, <2>2, ToldMore
  <2> QED
    BY <2>2, <2>3, <2>4 DEF DialSettles, WindowSettles, LayoutSettles, ghosts
<1> QED
  BY <1>2, <1>3, <1>4 DEF Process

-----------------------------------------------------------------------------
(* The pet: the dial *)

\* A step that neither turns the dial nor sends it.
LEMMA DialUntouched ==
    ASSUME DialSettles, Opened' => Opened, config'.dial = config.dial, UNCHANGED dial,
           Alike(toRenderer, toRenderer', "dial")
    PROVE DialSettles'
BY DEF DialSettles, Alike

LEMMA AlikeSame == \A q, kind : Alike(q, q, kind)
BY DEF Alike

LEMMA DialSettled ==
    ASSUME PetInv, LayoutNext, ~Process
    PROVE DialSettles'
<1> USE DEF PetInv
<1>0. /\ toPanel \in Seq(Events) /\ toRenderer \in Seq(Commands) /\ (said => link)
      /\ config \in Kept
  BY DEF LayoutTypeOK, GreetingIsSound
<1>1. CASE User \/ Idler
  <2>1. Opened' => Opened
    BY <1>1, CalmStaysOpen DEF Calm
  <2>2. UNCHANGED <<toRenderer, dial>> /\ config' = config
    <3>1. CASE User
      BY <3>1 DEF User, DragWindow, ResizeWindow, DragModel, ScaleModel, panel, wire
    <3>2. CASE Idler
      BY <3>2 DEF Idler, DropWindow, DropModel, NewFrame, ShowAnyway, SaveRow, Saved, panel, wire, shown
    <3> QED
      BY <1>1, <3>1, <3>2
  <2> QED
    BY <2>1, <2>2, AlikeSame, DialUntouched
<1>2. CASE Panel
  <2>1. Opened' => Opened
    BY <1>2, CalmStaysOpen DEF Calm
  <2>2. PICK c \in Commands :
          /\ toRenderer' = SentTo(toRenderer, <<c>>)
          /\ \/ \E d \in Dials : c = Command("dial", d) /\ config' = [config EXCEPT !.dial = d]
             \/ c.do \in {"load", "reset", "get"} /\ config' = config
    BY <1>2, PanelSends
  <2>3. UNCHANGED dial /\ <<c>> \in Seq(Commands)
    BY <1>2, PanelSends, OneCommand DEF shown
  <2>4. CASE c.do \in {"load", "reset", "get"} /\ config' = config
    <3>1. Lacks(<<c>>, {"dial"})
      BY <2>4, OneAsks
    <3>2. Alike(toRenderer, toRenderer', "dial")
      BY <1>0, <2>2, <2>3, <3>1, AlikeSent
    <3> QED
      BY <2>1, <2>3, <2>4, <3>2, DialUntouched
  <2>5. ASSUME NEW d \in Dials, c = Command("dial", d), config' = [config EXCEPT !.dial = d], link
        PROVE LastAsks(toRenderer', "dial", config'.dial)
    <3>1. c.do = "dial" /\ c.to = d /\ config'.dial = d
      BY <1>0, <2>5 DEF Command, Kept
    <3>2. LastAsks(<<c>>, "dial", d)
      BY <3>1, OneAsks
    <3>3. toRenderer' = toRenderer \o <<c>>
      BY <2>2, <2>5 DEF SentTo
    <3> QED
      BY <1>0, <2>3, <3>1, <3>2, <3>3, AskedMore
  <2>6. Opened => link
    BY <1>0 DEF Opened
  <2> QED
    BY <2>1, <2>2, <2>4, <2>5, <2>6 DEF DialSettles
<1>3. CASE RunCommand
  <2> DEFINE c == Head(toRenderer)
  <2>1. Opened' => Opened
    BY <1>3, CalmStaysOpen DEF Calm
  <2>2. toRenderer # <<>> /\ toRenderer' = Tail(toRenderer) /\ config' = config
    BY <1>3, RunHandles DEF panel
  <2>3. CASE c.do = "dial"
    <3>1. dial' = c.to
      BY <1>3, <2>3, RunHandles DEF SetDialShown
    <3>2. ~Lacks(toRenderer, {"dial"})
      BY <1>0, <2>2, <2>3, AskedTail
    <3>3. LastAsks(toRenderer, "dial", config.dial) =>
              LastAsks(toRenderer', "dial", config.dial) \/ (c.to = config.dial /\ Lacks(toRenderer', {"dial"}))
      BY <1>0, <2>2, AskedTail
    <3> QED
      BY <2>1, <2>2, <3>1, <3>2, <3>3 DEF DialSettles
  <2>4. CASE c.do # "dial"
    <3>1. UNCHANGED dial
      BY <1>3, <2>4, RunHandles DEF LoadModel, PlaceWindow, SizeWindow, SetLayout, ResetLayout, GetLayout
    <3>2. Alike(toRenderer, toRenderer', "dial")
      BY <1>0, <2>2, <2>4, AlikeTail
    <3> QED
      BY <2>1, <2>2, <3>1, <3>2, DialUntouched
  <2> QED
    BY <2>3, <2>4
<1>4. CASE HandleEvent
  <2>1. toPanel # <<>> /\ toPanel' = Tail(toPanel) /\ UNCHANGED <<said, link, dial>>
    BY <1>4 DEF HandleEvent, petProcess, shown
  <2>2. Untold(toPanel, {"ready"}) <=> Head(toPanel).of \notin {"ready"} /\ Untold(toPanel', {"ready"})
    BY <1>0, <2>1, ToldTail
  <2>3. Opened' => link /\ (Head(toPanel).of # "ready" => Opened)
    BY <1>0, <2>1, <2>2 DEF Opened
  <2>4. CASE Head(toPanel).of = "ready"
    <3>1. toRenderer' = SentTo(toRenderer, Salvo) /\ config' = config
      BY <1>4, <2>4, EventHandles DEF OnReady
    <3>2. link => LastAsks(toRenderer', "dial", config.dial)
      BY <1>0, <3>1, SalvoType, SalvoAsks, AskedMore DEF SentTo
    <3> QED
      BY <2>3, <3>1, <3>2 DEF DialSettles
  <2>5. CASE Head(toPanel).of = "loaded"
    <3>1. toRenderer' = SentTo(toRenderer, <<Command("layout", config.layout)>>) /\ config' = config
      BY <1>4, <2>5, EventHandles DEF OnModelLoaded, panel
    <3>2. /\ Command("layout", config.layout) \in Commands
          /\ Lacks(<<Command("layout", config.layout)>>, {"dial"})
      BY <1>0, CommandTypes, OneAsks DEF Kept, Command
    <3>3. Alike(toRenderer, toRenderer', "dial")
      BY <1>0, <3>1, <3>2, OneCommand, AlikeSent
    <3> QED
      BY <2>1, <2>3, <2>5, <3>1, <3>3, DialUntouched
  <2>6. CASE Head(toPanel).of \notin {"ready", "loaded"}
    <3>1. UNCHANGED toRenderer /\ config'.dial = config.dial
      BY <1>0, <1>4, <2>6, EventHandles
         DEF OnLoadFailed, OnLayoutChanged, OnLayoutState, OnDragEnd, OnWindowResized, OnLost, Saved, Kept
    <3> QED
      BY <2>1, <2>3, <2>6, <3>1, AlikeSame, DialUntouched
  <2> QED
    BY <2>4, <2>5, <2>6
<1> QED
  BY <1>1, <1>2, <1>3, <1>4, NextSplits

-----------------------------------------------------------------------------
(* The pet: the window *)

\* A step that is about something else.
LEMMA WindowUntouched ==
    ASSUME LayoutTypeOK, WindowSettles,
           UNCHANGED <<window, frameWidth, dragging, windowCrossed, link, said>>,
           config'.x = config.x, config'.w = config.w, QuietAbout({"ready"} \cup WindowNews),
           Alike(toRenderer, toRenderer', "position"), Alike(toRenderer, toRenderer', "size")
    PROVE WindowSettles'
<1>1. SUFFICES ASSUME ~windowCrossed' PROVE WindowSettles'
  BY DEF WindowSettles
<1> DEFINE all == {"ready"} \cup WindowNews
<1>2. toPanel \in Seq(Events) /\ {"ready"} \in SUBSET all /\ WindowNews \in SUBSET all /\ {"window_resized"} \in SUBSET all
  BY DEF LayoutTypeOK, WindowNews
<1>3. /\ Untold(toPanel', {"ready"}) <=> Untold(toPanel, {"ready"})
      /\ Untold(toPanel', WindowNews) <=> Untold(toPanel, WindowNews)
      /\ Untold(toPanel', {"window_resized"}) <=> Untold(toPanel, {"window_resized"})
  BY <1>2, QuietKeeps
<1>4. /\ \A v : LastStores(toPanel, WindowNews, "x", v) => LastStores(toPanel', WindowNews, "x", v)
      /\ \A v : LastStores(toPanel, {"window_resized"}, "w", v) => LastStores(toPanel', {"window_resized"}, "w", v)
  BY <1>2, QuietKeeps
<1>5. NoneAfter(toPanel, {"ready"}, WindowNews) => NoneAfter(toPanel', {"ready"}, WindowNews)
  BY <1>2, QuietKeeps
<1>6. Placing' <=> Placing
  <2>1. \A q : Lacks(q, {"position", "size"}) <=> Lacks(q, {"position"}) /\ Lacks(q, {"size"})
    BY DEF Lacks
  <2> QED
    BY <2>1 DEF Placing, Alike
<1>7. Opened' <=> Opened
  BY <1>3 DEF Opened
<1>8. WindowFollows => WindowFollows'
  BY <1>3 DEF WindowFollows, Alike
<1>9. WindowIsFollowed => WindowIsFollowed'
  BY <1>3, <1>4 DEF WindowIsFollowed
<1> QED
  BY <1>1, <1>5, <1>6, <1>7, <1>8, <1>9 DEF WindowSettles

\* The salvo's commands are run out.
LEMMA FollowsToTheEnd ==
    ASSUME WindowFollows, ~Placing PROVE WindowIsFollowed
<1>1. Untold(toPanel, {"window_resized"})
  BY DEF WindowFollows, Untold, WindowNews
<1>2. Lacks(toRenderer, {"position"}) /\ ~LastAsks(toRenderer, "position", config.x)
  BY DEF Placing, Lacks, LastAsks
<1> QED
  BY <1>1, <1>2 DEF WindowFollows, WindowIsFollowed

\* The user's edit met no replay: what is reported is what is shown.
LEMMA WindowEdited ==
    ASSUME LayoutTypeOK, WindowSettles, ~windowCrossed', link, ~WindowReplay,
           NEW e \in Events, toPanel' = Append(toPanel, e), e.of \in WindowNews,
           UNCHANGED <<toRenderer, link, said, config>>,
           dragging' \/ Value(e, "x") = window'.x,
           \/ e.of = "window_resized" /\ Value(e, "w") = window'.w
           \/ e.of # "window_resized" /\ ~windowCrossed /\ UNCHANGED window
    PROVE WindowSettles'
<1>0. toPanel \in Seq(Events)
  BY DEF LayoutTypeOK
<1>1. Lacks(toRenderer, {"position", "size"}) /\ Untold(toPanel, {"ready"})
  BY WhatIsAsked, WhatIsSaid DEF WindowReplay
<1>2. NoneAfter(toPanel', {"ready"}, WindowNews)
  <2>1. NoneAfter(toPanel, {"ready"}, WindowNews)
    BY <1>1 DEF NoneAfter, Untold
  <2> QED
    BY <1>0, <1>1, <2>1, ToldMore
<1>3. ~Placing' /\ ~Placing
  BY <1>1 DEF Placing
<1>4. ASSUME Opened' PROVE WindowIsFollowed'
  <2>1. LastStores(toPanel', WindowNews, "x", Value(e, "x"))
    BY <1>0, ToldMore
  <2>2. CASE e.of = "window_resized" /\ Value(e, "w") = window'.w
    <3>1. LastStores(toPanel', {"window_resized"}, "w", Value(e, "w"))
      BY <1>0, <2>2, ToldMore
    <3> QED
      BY <2>1, <2>2, <3>1 DEF WindowIsFollowed
  <2>3. CASE e.of # "window_resized" /\ ~windowCrossed /\ UNCHANGED window
    <3>1. said
      BY <1>4 DEF Opened
    <3>2. WindowIsFollowed
      BY <1>1, <1>3, <2>3, <3>1 DEF WindowSettles, Opened
    <3>3. /\ \A v : LastStores(toPanel, {"window_resized"}, "w", v) => LastStores(toPanel', {"window_resized"}, "w", v)
          /\ Untold(toPanel, {"window_resized"}) => Untold(toPanel', {"window_resized"})
      BY <1>0, <2>3, ToldMore
    <3> QED
      BY <2>1, <2>3, <3>2, <3>3 DEF WindowIsFollowed
  <2> QED
    BY <2>2, <2>3
<1> QED
  BY <1>2, <1>3, <1>4 DEF WindowSettles

LEMMA UserWindowSettled ==
    ASSUME PetInv, User \/ Idler PROVE WindowSettles'
<1> USE DEF PetInv, Touched, panel, wire, petProcess, shown, hands, ghosts, budget
<1> DEFINE all == {"ready"} \cup WindowNews
<1>0. toPanel \in Seq(Events) /\ window.x \in Int
  BY DEF LayoutTypeOK
<1>1. ASSUME NEW x \in Places, DragWindow(x) PROVE WindowSettles'
  <2>1. /\ window'.w = window.w /\ dragging' = TRUE
        /\ UNCHANGED <<config, frameWidth, toRenderer, toPanel, link, said, windowCrossed>>
    BY <1>1 DEF DragWindow, LayoutTypeOK
  <2>2. Placing' = Placing /\ Opened' = Opened
    BY <2>1 DEF Placing, Opened
  <2>3. WindowFollows => WindowFollows'
    BY <2>1 DEF WindowFollows
  <2>4. WindowIsFollowed => WindowIsFollowed'
    BY <2>1 DEF WindowIsFollowed
  <2> QED
    BY <2>1, <2>2, <2>3, <2>4 DEF WindowSettles
<1>2. ASSUME NEW w \in Widths, ResizeWindow(w) PROVE WindowSettles'
  <2> DEFINE e == Event("window_resized", window')
  <2>1. window' \in [x : Int, w : Nat]
    BY <1>2, UserTypes DEF LayoutTypeOK, User
  <2>2. e \in Events /\ e.of = "window_resized" /\ Value(e, "x") = window'.x /\ Value(e, "w") = window'.w
    BY <2>1, EventTypes DEF Event, Value
  <2>3. CASE windowCrossed'
    BY <2>3 DEF WindowSettles
  <2>4. CASE ~windowCrossed'
    <3>1. link /\ ~WindowReplay /\ toPanel' = Append(toPanel, e)
      BY <1>2, <2>4 DEF ResizeWindow, Reported
    <3>2. UNCHANGED <<toRenderer, link, said, config>>
      BY <1>2 DEF ResizeWindow
    <3> HIDE DEF e
    <3> QED
      BY <2>2, <2>4, <3>1, <3>2, WindowEdited DEF WindowNews
  <2> QED
    BY <2>3, <2>4
<1>3. ASSUME NEW l \in Layouts, DragModel(l) PROVE WindowSettles'
  <2>1. UNCHANGED <<window, frameWidth, dragging, windowCrossed, link, said, config, toPanel, toRenderer>>
    BY <1>3 DEF DragModel
  <2> QED
    BY <2>1, WindowUntouched, AlikeSame DEF QuietAbout
<1>4. ASSUME Reported(Event("layout_changed", layout')), layout' \in Layouts PROVE QuietAbout(all)
  <2>1. Event("layout_changed", layout') \in Events /\ Event("layout_changed", layout').of \notin all
    BY <1>4, EventTypes DEF Event, WindowNews
  <2> QED
    BY <1>4, <2>1, ReportedIs
<1>5. ASSUME NEW l \in Layouts, ScaleModel(l) PROVE WindowSettles'
  <2>1. UNCHANGED <<window, frameWidth, dragging, windowCrossed, link, said, config, toRenderer>>
    BY <1>5 DEF ScaleModel
  <2>2. QuietAbout(all)
    BY <1>4, <1>5 DEF ScaleModel
  <2> QED
    BY <2>1, <2>2, WindowUntouched, AlikeSame
<1>6. CASE DropWindow
  <2> DEFINE e == Event("drag_end", window.x)
  <2>1. e \in Events /\ e.of = "drag_end" /\ Value(e, "x") = window.x
    BY <1>0, EventTypes DEF Event, Value
  <2>2. CASE windowCrossed'
    BY <2>2 DEF WindowSettles
  <2>3. CASE ~windowCrossed'
    <3>1. link /\ ~WindowReplay /\ ~windowCrossed /\ toPanel' = Append(toPanel, e)
      BY <1>6, <2>3 DEF DropWindow, Reported
    <3>2. UNCHANGED <<toRenderer, link, said, config, window>>
      BY <1>6 DEF DropWindow
    <3> HIDE DEF e
    <3> QED
      BY <2>1, <2>3, <3>1, <3>2, WindowEdited DEF WindowNews
  <2> QED
    BY <2>2, <2>3
<1>7. CASE DropModel
  <2>1. UNCHANGED <<window, frameWidth, dragging, windowCrossed, link, said, config, toRenderer, layout>>
    BY <1>7 DEF DropModel
  <2>2. QuietAbout(all)
    BY <1>4, <1>7, <2>1 DEF DropModel, LayoutTypeOK
  <2> QED
    BY <2>1, <2>2, WindowUntouched, AlikeSame
<1>8. CASE NewFrame
  <2>1. /\ frameWidth' = window.w
        /\ UNCHANGED <<window, dragging, windowCrossed, link, said, config, toPanel, toRenderer>>
    BY <1>8 DEF NewFrame
  <2>2. Placing' = Placing /\ Opened' = Opened
    BY <2>1 DEF Placing, Opened
  <2>3. WindowFollows => WindowFollows'
    BY <2>1 DEF WindowFollows
  <2>4. WindowIsFollowed => WindowIsFollowed'
    BY <2>1 DEF WindowIsFollowed
  <2> QED
    BY <2>1, <2>2, <2>3, <2>4 DEF WindowSettles
<1>9. CASE ShowAnyway \/ SaveRow
  <2>1. UNCHANGED <<window, frameWidth, dragging, windowCrossed, link, said, config, toPanel, toRenderer>>
    BY <1>9 DEF ShowAnyway, SaveRow, Saved
  <2> QED
    BY <2>1, WindowUntouched, AlikeSame DEF QuietAbout
<1> QED
  BY <1>1, <1>2, <1>3, <1>5, <1>6, <1>7, <1>8, <1>9 DEF User, Idler

LEMMA PanelWindowSettled ==
    ASSUME PetInv, Panel PROVE WindowSettles'
<1> USE DEF PetInv
<1>1. PICK c \in Commands :
          /\ toRenderer' = SentTo(toRenderer, <<c>>)
          /\ \/ \E d \in Dials : c = Command("dial", d) /\ config' = [config EXCEPT !.dial = d]
             \/ c.do \in {"load", "reset", "get"} /\ config' = config
  BY PanelSends
<1>2. UNCHANGED <<link, toPanel, petProcess, shown, hands, ghosts>>
  BY PanelSends
<1>3. c.do \in {"load", "reset", "get", "dial"} /\ config'.x = config.x /\ config'.w = config.w
  BY <1>1 DEF Command, LayoutTypeOK, Kept
<1>4. Lacks(<<c>>, {"position"}) /\ Lacks(<<c>>, {"size"})
  BY <1>3, OneAsks
<1>5. Alike(toRenderer, toRenderer', "position") /\ Alike(toRenderer, toRenderer', "size")
  BY <1>1, <1>4, OneCommand, AlikeSent DEF LayoutTypeOK
<1> QED
  BY <1>2, <1>3, <1>5, WindowUntouched DEF QuietAbout, petProcess, shown, hands, ghosts

LEMMA RunWindowSettled ==
    ASSUME PetInv, RunCommand PROVE WindowSettles'
<1> USE DEF PetInv
<1> DEFINE c == Head(toRenderer)
           all == {"ready"} \cup WindowNews
<1>0. /\ toRenderer \in Seq(Commands) /\ toRenderer # <<>> /\ toRenderer' = Tail(toRenderer)
      /\ window \in [x : Int, w : Nat] /\ frameWidth \in Nat
  BY RunHandles DEF LayoutTypeOK
<1>1. UNCHANGED <<config, link, said, frameWidth, dragging, windowCrossed>>
  BY RunHandles DEF panel, hands
<1>2. CASE c.do \notin {"position", "size"}
  <2>1. UNCHANGED window
    BY <1>2, RunHandles DEF LoadModel, SetLayout, ResetLayout, GetLayout, SetDialShown
  <2>2. QuietAbout(all)
    <3>1. /\ \A of \in {"loaded", "failed"} : Event(of, Fresh) \in Events /\ Event(of, Fresh).of \notin all
          /\ Event("layout_state", layout) \in Events /\ Event("layout_state", layout).of \notin all
      BY EventTypes DEF Event, WindowNews, LayoutTypeOK
    <3>2. ASSUME LoadModel PROVE QuietAbout(all)
      BY <3>1, <3>2, ReportedIs DEF LoadModel
    <3>3. ASSUME GetLayout PROVE QuietAbout(all)
      BY <3>1, <3>3, ReportedIs DEF GetLayout
    <3>4. ASSUME toPanel' = toPanel PROVE QuietAbout(all)
      BY <3>4 DEF QuietAbout
    <3> QED
      BY <1>2, <3>2, <3>3, <3>4, RunHandles DEF SetLayout, ResetLayout, SetDialShown
  <2>3. Alike(toRenderer, toRenderer', "position") /\ Alike(toRenderer, toRenderer', "size")
    BY <1>0, <1>2, AlikeTail
  <2> QED
    BY <1>1, <2>1, <2>2, <2>3, WindowUntouched
<1>3. CASE c.do \in {"position", "size"}
  <2>1. UNCHANGED toPanel
    BY <1>3, RunHandles DEF PlaceWindow, SizeWindow
  <2>2. SUFFICES ASSUME ~windowCrossed, Opened PROVE IF Placing' THEN WindowFollows' ELSE WindowIsFollowed'
    BY <1>1, <2>1 DEF WindowSettles, Opened
  <2>3. Placing
    BY <1>0, <1>3, AskedTail DEF Placing
  <2>4. WindowFollows
    BY <2>2, <2>3 DEF WindowSettles
  <2>5. /\ AllAsk(toRenderer', "size", config.w) /\ (c.do = "size" => c.to = config.w /\ frameWidth = config.w)
        /\ Lacks(toRenderer', {"size"}) \/ frameWidth = config.w
        /\ \/ LastAsks(toRenderer', "position", config.x)
           \/ c.do = "position" /\ c.to = config.x /\ Lacks(toRenderer', {"position"})
           \/ Lacks(toRenderer', {"position"}) /\ c.do # "position" /\ (window.x = config.x \/ dragging)
    BY <1>0, <2>4, AskedTail DEF WindowFollows
  <2>6. /\ window'.w = config.w
        /\ c.do = "position" => window'.x = c.to
        /\ c.do = "size" => window'.x = window.x
    <3>1. CASE c.do = "position"
      <4>1. window' = [window EXCEPT !.x = c.to]
        BY <3>1, RunHandles DEF PlaceWindow
      <4> QED
        BY <1>0, <2>4, <3>1, <4>1 DEF WindowFollows
    <3>2. CASE c.do = "size"
      <4>1. c.to = config.w /\ frameWidth = config.w /\ window' = [x |-> Centred(window.x, frameWidth, c.to), w |-> c.to]
        BY <2>5, <3>2, RunHandles DEF SizeWindow
      <4>2. Centred(window.x, frameWidth, c.to) = window.x
        BY <1>0, <4>1, CentredType
      <4> QED
        BY <3>2, <4>1, <4>2
    <3> QED
      BY <1>3, <3>1, <3>2
  <2>7. WindowFollows'
    BY <1>1, <1>3, <2>1, <2>4, <2>5, <2>6 DEF WindowFollows
  <2>8. ~Placing' => WindowIsFollowed'
    <3>1. SUFFICES ASSUME ~Placing' PROVE WindowIsFollowed'
      OBVIOUS
    <3>2. Untold(toPanel', {"window_resized"})
      BY <2>7 DEF WindowFollows, Untold, WindowNews
    <3>3. Lacks(toRenderer', {"position"}) /\ ~LastAsks(toRenderer', "position", config'.x)
      BY <3>1 DEF Placing, Lacks, LastAsks
    <3> QED
      BY <2>7, <3>2, <3>3 DEF WindowFollows, WindowIsFollowed
  <2> QED
    BY <2>7, <2>8
<1> QED
  BY <1>2, <1>3

LEMMA EventWindowSettled ==
    ASSUME PetInv, HandleEvent PROVE WindowSettles'
<1> USE DEF PetInv
<1> DEFINE e == Head(toPanel)
           all == {"ready"} \cup WindowNews
<1>0. /\ toPanel \in Seq(Events) /\ toPanel # <<>> /\ toPanel' = Tail(toPanel)
      /\ toRenderer \in Seq(Commands) /\ config \in Kept /\ (said => link)
  BY EventHandles DEF LayoutTypeOK, GreetingIsSound
<1>1. UNCHANGED <<link, said, window, frameWidth, dragging>>
  BY EventHandles DEF petProcess, shown, hands
<1>2. CASE e.of = "ready"
  <2>1. OnReady
    BY <1>2, EventHandles
  <2>2. SUFFICES ASSUME ~windowCrossed', link
                 PROVE NoneAfter(toPanel', {"ready"}, WindowNews) /\ Placing' /\ WindowFollows'
    BY <1>0, <1>1 DEF WindowSettles, Opened
  <2>3. /\ ~(windowCrossed /\ Told(Tail(toPanel)) \cap WindowNews # {})
        /\ frameWidth = config.w /\ window.w = config.w /\ Lacks(toRenderer, {"size"})
        /\ toRenderer' = toRenderer \o Salvo /\ UNCHANGED config
    BY <2>1, <2>2, WhatIsAsked DEF OnReady, SentTo
  <2>4. Untold(toPanel', WindowNews)
    <3>1. CASE windowCrossed
      BY <1>0, <2>3, <3>1, WhatIsSaid
    <3>2. CASE ~windowCrossed
      <4>1. NoneAfter(toPanel, {"ready"}, WindowNews)
        BY <2>2, <3>2 DEF WindowSettles
      <4> QED
        BY <1>0, <1>2, <4>1, ToldTail
    <3> QED
      BY <3>1, <3>2
  <2>5. NoneAfter(toPanel', {"ready"}, WindowNews)
    BY <2>4 DEF NoneAfter, Untold
  <2>6. /\ AllAsk(toRenderer', "size", config.w) /\ LastAsks(toRenderer', "position", config.x)
        /\ ~Lacks(toRenderer', {"size"})
    <3>1. AllAsk(toRenderer, "size", config.w)
      BY <2>3, LacksAsks
    <3> QED
      BY <1>0, <2>3, <3>1, SalvoType, SalvoAsks, AskedMore
  <2>7. Placing'
    BY <2>6 DEF Placing, Lacks
  <2>8. WindowFollows'
    BY <1>1, <2>3, <2>4, <2>6 DEF WindowFollows
  <2> QED
    BY <2>5, <2>7, <2>8
<1>3. CASE e.of \notin all
  <2>1. QuietAbout(all)
    BY <1>0, <1>3 DEF QuietAbout
  <2>2. UNCHANGED windowCrossed /\ config'.x = config.x /\ config'.w = config.w
    BY <1>0, <1>3, EventHandles
       DEF OnModelLoaded, OnLoadFailed, OnLayoutChanged, OnLayoutState, OnLost, Saved, Kept, panel, ghosts, WindowNews
  <2>3. Alike(toRenderer, toRenderer', "position") /\ Alike(toRenderer, toRenderer', "size")
    <3>1. CASE toRenderer' = toRenderer
      BY <3>1, AlikeSame
    <3>2. CASE OnModelLoaded
      <4> DEFINE s == Command("layout", config.layout)
      <4>1. s \in Commands /\ s.do = "layout"
        BY <1>0, CommandTypes DEF Kept, Command
      <4>2. toRenderer' = SentTo(toRenderer, <<s>>)
        BY <3>2 DEF OnModelLoaded
      <4> HIDE DEF s
      <4>3. Lacks(<<s>>, {"position"}) /\ Lacks(<<s>>, {"size"}) /\ <<s>> \in Seq(Commands)
        BY <4>1, OneAsks, OneCommand
      <4> QED
        BY <1>0, <4>2, <4>3, AlikeSent
    <3> QED
      BY <1>3, <3>1, <3>2, EventHandles
         DEF OnLoadFailed, OnLayoutChanged, OnLayoutState, OnLost, WindowNews
  <2> QED
    BY <1>1, <2>1, <2>2, <2>3, WindowUntouched
<1>4. CASE e.of \in WindowNews
  <2>1. /\ UNCHANGED <<toRenderer, windowCrossed>>
        /\ config'.x = Value(e, "x")
        /\ e.of = "window_resized" => config'.w = Value(e, "w")
        /\ e.of # "window_resized" => config'.w = config.w
    BY <1>0, <1>4, EventHandles DEF OnDragEnd, OnWindowResized, Saved, Kept, Value, WindowNews, ghosts
  <2>2. SUFFICES ASSUME ~windowCrossed
                 PROVE WindowSettles'
    BY <2>1 DEF WindowSettles
  <2>3. /\ Untold(toPanel', {"ready"}) <=> Untold(toPanel, {"ready"})
        /\ NoneAfter(toPanel, {"ready"}, WindowNews) => NoneAfter(toPanel', {"ready"}, WindowNews)
        /\ ~Untold(toPanel, WindowNews)
    BY <1>0, <1>4, ToldTail DEF WindowNews
  <2>4. ASSUME Opened PROVE ~Placing /\ WindowIsFollowed
    BY <2>2, <2>3, <2>4 DEF WindowSettles, WindowFollows
  <2>5. ASSUME WindowIsFollowed PROVE WindowIsFollowed'
    <3>1. \/ LastStores(toPanel', {"window_resized"}, "w", window.w)
          \/ Untold(toPanel', {"window_resized"}) /\ config'.w = window.w
      <4>1. LastStores(toPanel, {"window_resized"}, "w", window.w) =>
                \/ LastStores(toPanel', {"window_resized"}, "w", window.w)
                \/ e.of = "window_resized" /\ Value(e, "w") = window.w /\ Untold(toPanel', {"window_resized"})
        BY <1>0, ToldTail
      <4>2. Untold(toPanel, {"window_resized"}) => e.of # "window_resized" /\ Untold(toPanel', {"window_resized"})
        BY <1>0, ToldTail
      <4> QED
        BY <2>1, <2>5, <4>1, <4>2 DEF WindowIsFollowed
    <3>2. LastStores(toPanel, WindowNews, "x", window.x) =>
              \/ LastStores(toPanel', WindowNews, "x", window.x)
              \/ Value(e, "x") = window.x /\ Untold(toPanel', WindowNews)
      BY <1>0, ToldTail
    <3> QED
      BY <1>1, <2>1, <2>3, <2>5, <3>1, <3>2 DEF WindowIsFollowed
  <2> QED
    BY <1>1, <2>1, <2>3, <2>4, <2>5 DEF WindowSettles, Opened, Placing
<1> QED
  BY <1>2, <1>3, <1>4

-----------------------------------------------------------------------------
(* The pet: the layout of the model *)

LEMMA LayoutUntouched ==
    ASSUME LayoutTypeOK, LayoutSettles,
           UNCHANGED <<layout, adjusting, layoutCrossed, link, said>>,
           config'.layout = config.layout, QuietAbout({"ready", "loaded"} \cup LayoutNews),
           Alike(toRenderer, toRenderer', "layout"), Lacks(toRenderer', {"reset"}) => Lacks(toRenderer, {"reset"})
    PROVE LayoutSettles'
<1>1. SUFFICES ASSUME ~layoutCrossed' PROVE LayoutSettles'
  BY DEF LayoutSettles
<1> DEFINE all == {"ready", "loaded"} \cup LayoutNews
<1>2. /\ toPanel \in Seq(Events) /\ {"ready"} \in SUBSET all /\ {"loaded"} \in SUBSET all
      /\ LayoutNews \in SUBSET all /\ {"ready", "loaded"} \in SUBSET all
  BY DEF LayoutTypeOK
<1>3. /\ Untold(toPanel', {"ready"}) <=> Untold(toPanel, {"ready"})
      /\ Untold(toPanel', {"loaded"}) <=> Untold(toPanel, {"loaded"})
      /\ Untold(toPanel', LayoutNews) <=> Untold(toPanel, LayoutNews)
  BY <1>2, QuietKeeps
<1>4. \A v : LastStores(toPanel, LayoutNews, "layout", v) => LastStores(toPanel', LayoutNews, "layout", v)
  BY <1>2, QuietKeeps
<1>5. NoneAfter(toPanel, {"ready", "loaded"}, LayoutNews) => NoneAfter(toPanel', {"ready", "loaded"}, LayoutNews)
  BY <1>2, QuietKeeps
<1>6. Opened' <=> Opened
  BY <1>3 DEF Opened
<1>7. ASSUME NEW l \in Layouts, WillKeep(l), WillShow(l) PROVE WillKeep(l)' /\ WillShow(l)'
  BY <1>3, <1>4, <1>7 DEF WillKeep, WillShow, Alike
<1> QED
  BY <1>1, <1>3, <1>5, <1>6, <1>7 DEF LayoutSettles

\* What is reported is what is shown, and nothing is on its way to change it.
LEMMA LayoutReported ==
    ASSUME LayoutTypeOK, ~LayoutReplay, link, UNCHANGED <<link, config>>,
           NEW of \in LayoutNews, layout' \in Layouts, toPanel' = Append(toPanel, Event(of, layout')),
           Lacks(toRenderer, {"load", "layout", "reset"}) => Lacks(toRenderer', {"layout"})
    PROVE LayoutSettles'
<1> DEFINE e == Event(of, layout')
<1>0. toPanel \in Seq(Events)
  BY DEF LayoutTypeOK
<1>1. e \in Events /\ e.of \in LayoutNews /\ Value(e, "layout") = layout'
  BY EventTypes DEF Event, Value, LayoutNews
<1>2. Lacks(toRenderer', {"layout"}) /\ Untold(toPanel, {"ready", "loaded"})
  BY WhatIsAsked, WhatIsSaid DEF LayoutReplay
<1> HIDE DEF e
<1>3. NoneAfter(toPanel', {"ready", "loaded"}, LayoutNews)
  <2>1. NoneAfter(toPanel, {"ready", "loaded"}, LayoutNews)
    BY <1>2 DEF NoneAfter, Untold
  <2> QED
    BY <1>0, <1>1, <1>2, <2>1, ToldMore DEF e
<1>4. LastStores(toPanel', LayoutNews, "layout", layout')
  <2>1. LastStores(Append(toPanel, e), LayoutNews, "layout", Value(e, "layout"))
    BY <1>0, <1>1, ToldMore
  <2> QED
    BY <1>1, <2>1 DEF e
<1>5. WillKeep(layout)' /\ WillShow(layout)'
  BY <1>2, <1>4 DEF WillKeep, WillShow
<1> QED
  BY <1>3, <1>5 DEF LayoutSettles

LEMMA UserLayoutSettled ==
    ASSUME PetInv, User \/ Idler PROVE LayoutSettles'
<1> USE DEF PetInv, Touched, panel, wire, petProcess, shown, hands, ghosts, budget
<1> DEFINE all == {"ready", "loaded"} \cup LayoutNews
<1>0. toPanel \in Seq(Events) /\ window.x \in Int /\ layout \in Layouts
  BY DEF LayoutTypeOK
<1>1. ASSUME NEW x \in Places, DragWindow(x) PROVE LayoutSettles'
  <2>1. UNCHANGED <<layout, adjusting, layoutCrossed, link, said, config, toPanel, toRenderer>>
    BY <1>1 DEF DragWindow
  <2> QED
    BY <2>1, LayoutUntouched, AlikeSame DEF QuietAbout
<1>2. ASSUME NEW w \in Widths, ResizeWindow(w) PROVE LayoutSettles'
  <2> DEFINE e == Event("window_resized", window')
  <2>1. window' \in [x : Int, w : Nat]
    BY <1>2, UserTypes DEF LayoutTypeOK, User
  <2>2. e \in Events /\ e.of \notin all
    BY <2>1, EventTypes DEF Event, LayoutNews
  <2>3. UNCHANGED <<layout, adjusting, layoutCrossed, link, said, config, toRenderer>> /\ Reported(e)
    BY <1>2 DEF ResizeWindow
  <2> HIDE DEF e
  <2>4. QuietAbout(all)
    BY <2>2, <2>3, ReportedIs
  <2> QED
    BY <2>3, <2>4, LayoutUntouched, AlikeSame
<1>3. ASSUME NEW l \in Layouts, DragModel(l) PROVE LayoutSettles'
  <2>1. adjusting' = TRUE /\ UNCHANGED <<layoutCrossed, link, said, config, toPanel, toRenderer>>
    BY <1>3 DEF DragModel
  <2>2. Opened' = Opened /\ \A v : (WillKeep(v) => WillKeep(v)') /\ (WillShow(v) => WillShow(v)')
    BY <2>1 DEF Opened, WillKeep, WillShow
  <2> QED
    BY <2>1, <2>2 DEF LayoutSettles
<1>4. ASSUME NEW l \in Layouts, ScaleModel(l) PROVE LayoutSettles'
  <2>1. CASE layoutCrossed'
    BY <2>1 DEF LayoutSettles
  <2>2. CASE ~layoutCrossed'
    <3>1. /\ link /\ ~LayoutReplay /\ UNCHANGED <<link, config, toRenderer>> /\ layout' = l
          /\ toPanel' = Append(toPanel, Event("layout_changed", l))
      BY <1>4, <2>2 DEF ScaleModel, Reported
    <3>2. Lacks(toRenderer, {"load", "layout", "reset"}) => Lacks(toRenderer', {"layout"})
      BY <3>1 DEF Lacks
    <3> QED
      BY <3>1, <3>2, LayoutReported DEF LayoutNews
  <2> QED
    BY <2>1, <2>2
<1>5. CASE DropWindow
  <2> DEFINE e == Event("drag_end", window.x)
  <2>1. e \in Events /\ e.of \notin all
    BY <1>0, EventTypes DEF Event, LayoutNews
  <2>2. UNCHANGED <<layout, adjusting, layoutCrossed, link, said, config, toRenderer>> /\ Reported(e)
    BY <1>5 DEF DropWindow
  <2> HIDE DEF e
  <2>3. QuietAbout(all)
    BY <2>1, <2>2, ReportedIs
  <2> QED
    BY <2>2, <2>3, LayoutUntouched, AlikeSame
<1>6. CASE DropModel
  <2>1. CASE layoutCrossed'
    BY <2>1 DEF LayoutSettles
  <2>2. CASE ~layoutCrossed'
    <3>1. /\ link /\ ~LayoutReplay /\ UNCHANGED <<link, config, toRenderer, layout>>
          /\ toPanel' = Append(toPanel, Event("layout_changed", layout'))
      BY <1>6, <2>2 DEF DropModel, Reported
    <3>2. Lacks(toRenderer, {"load", "layout", "reset"}) => Lacks(toRenderer', {"layout"})
      BY <3>1 DEF Lacks
    <3> QED
      BY <1>0, <3>1, <3>2, LayoutReported DEF LayoutNews
  <2> QED
    BY <2>1, <2>2
<1>7. CASE NewFrame \/ ShowAnyway \/ SaveRow
  <2>1. UNCHANGED <<layout, adjusting, layoutCrossed, link, said, config, toPanel, toRenderer>>
    BY <1>7 DEF NewFrame, ShowAnyway, SaveRow, Saved
  <2> QED
    BY <2>1, LayoutUntouched, AlikeSame DEF QuietAbout
<1> QED
  BY <1>1, <1>2, <1>3, <1>4, <1>5, <1>6, <1>7 DEF User, Idler

LEMMA PanelLayoutSettled ==
    ASSUME PetInv, Panel PROVE LayoutSettles'
<1> USE DEF PetInv
<1>1. PICK c \in Commands :
          /\ toRenderer' = SentTo(toRenderer, <<c>>)
          /\ \/ \E d \in Dials : c = Command("dial", d) /\ config' = [config EXCEPT !.dial = d]
             \/ c.do \in {"load", "reset", "get"} /\ config' = config
  BY PanelSends
<1>2. UNCHANGED <<link, toPanel, petProcess, shown, hands, ghosts>>
  BY PanelSends
<1>3. c.do \in {"load", "reset", "get", "dial"} /\ config'.layout = config.layout
  BY <1>1 DEF Command, LayoutTypeOK, Kept
<1>4. Lacks(<<c>>, {"layout"}) /\ <<c>> \in Seq(Commands) /\ toRenderer \in Seq(Commands)
  BY <1>3, OneAsks, OneCommand DEF LayoutTypeOK
<1>5. Alike(toRenderer, toRenderer', "layout")
  BY <1>1, <1>4, AlikeSent
<1>6. Lacks(toRenderer', {"reset"}) => Lacks(toRenderer, {"reset"})
  BY <1>1, <1>4, AskedMore DEF SentTo
<1> QED
  BY <1>2, <1>3, <1>5, <1>6, LayoutUntouched DEF QuietAbout, petProcess, shown, hands, ghosts

LEMMA RunLayoutSettled ==
    ASSUME PetInv, RunCommand PROVE LayoutSettles'
<1> USE DEF PetInv
<1> DEFINE c == Head(toRenderer)
           all == {"ready", "loaded"} \cup LayoutNews
<1>0. /\ toRenderer \in Seq(Commands) /\ toRenderer # <<>> /\ toRenderer' = Tail(toRenderer)
      /\ toPanel \in Seq(Events) /\ layout \in Layouts
  BY RunHandles DEF LayoutTypeOK
<1>1. UNCHANGED <<config, link, said, adjusting>>
  BY RunHandles DEF panel, hands
<1>2. Lacks(toRenderer, {"reset"}) <=> c.do \notin {"reset"} /\ Lacks(toRenderer', {"reset"})
  BY <1>0, AskedTail
<1>3. ASSUME c.do \notin {"layout", "reset"}, UNCHANGED <<layout, layoutCrossed>>, QuietAbout(all) PROVE LayoutSettles'
  <2>1. Alike(toRenderer, toRenderer', "layout")
    BY <1>0, <1>3, AlikeTail
  <2> QED
    BY <1>1, <1>2, <1>3, <2>1, LayoutUntouched
<1>4. CASE c.do \in {"position", "size", "dial"}
  <2>1. UNCHANGED <<layout, layoutCrossed, toPanel>>
    BY <1>4, RunHandles DEF PlaceWindow, SizeWindow, SetDialShown
  <2> QED
    BY <1>3, <1>4, <2>1 DEF QuietAbout
<1>5. CASE c.do = "load"
  <2>1. \A of \in {"loaded", "failed"} : Event(of, Fresh) \in Events /\ Event(of, Fresh).of = of
    BY EventTypes DEF Event
  <2>2. CASE Reported(Event("failed", Fresh)) /\ UNCHANGED <<layout, layoutCrossed>>
    <3>1. QuietAbout(all)
      BY <2>1, <2>2, ReportedIs DEF LayoutNews
    <3> QED
      BY <1>3, <1>5, <2>2, <3>1
  <2>3. CASE Reported(Event("loaded", Fresh)) /\ UNCHANGED layoutCrossed
    <3> DEFINE e == Event("loaded", Fresh)
    <3>1. e \in Events /\ e.of = "loaded" /\ e.of \notin LayoutNews
      BY <2>1 DEF LayoutNews
    <3> HIDE DEF e
    <3>2. SUFFICES ASSUME link PROVE LayoutSettles'
      <4>1. GreetingIsSound
        OBVIOUS
      <4> QED
        BY <1>1 DEF LayoutSettles, Opened, GreetingIsSound
    <3>3. toPanel' = Append(toPanel, e)
      BY <2>3, <3>2 DEF Reported, e
    <3>4. ~Untold(toPanel', {"loaded"})
      BY <1>0, <3>1, <3>3, ToldMore
    <3>5. NoneAfter(toPanel, {"ready", "loaded"}, LayoutNews) => NoneAfter(toPanel', {"ready", "loaded"}, LayoutNews)
      BY <1>0, <3>1, <3>3, ToldMore
    <3> QED
      BY <1>1, <2>3, <3>4, <3>5 DEF LayoutSettles
  <2> QED
    BY <1>5, <2>2, <2>3, RunHandles DEF LoadModel
<1>6. CASE c.do = "layout"
  <2>1. layout' = c.to /\ UNCHANGED <<toPanel, layoutCrossed>>
    BY <1>6, RunHandles DEF SetLayout
  <2>2. ASSUME NEW l, WillKeep(l), WillShow(l) PROVE WillKeep(l)' /\ WillShow(l)'
    <3>1. ~Lacks(toRenderer, {"layout"})
      BY <1>0, <1>6, AskedTail
    <3>2. LastAsks(toRenderer', "layout", l) \/ (c.to = l /\ Lacks(toRenderer', {"layout"}))
      BY <1>0, <2>2, <3>1, AskedTail DEF WillShow
    <3> QED
      BY <1>1, <2>1, <2>2, <3>2 DEF WillKeep, WillShow
  <2> QED
    BY <1>1, <1>2, <1>6, <2>1, <2>2 DEF LayoutSettles, Opened
<1>7. CASE c.do = "reset"
  <2>1. layoutCrossed' = TRUE
    BY <1>7, RunHandles DEF ResetLayout
  <2> QED
    BY <2>1 DEF LayoutSettles
<1>8. CASE c.do = "get"
  <2>1. GetLayout
    BY <1>8, RunHandles
  <2>2. CASE layoutCrossed'
    BY <2>2 DEF LayoutSettles
  <2>3. CASE ~layoutCrossed'
    <3>1. /\ link /\ ~LayoutReplay /\ UNCHANGED layout
          /\ toPanel' = Append(toPanel, Event("layout_state", layout'))
      BY <2>1, <2>3 DEF GetLayout, Reported
    <3>2. Lacks(toRenderer, {"load", "layout", "reset"}) => Lacks(toRenderer', {"layout"})
      <4>1. Lacks(toRenderer, {"load", "layout", "reset"}) => Lacks(toRenderer, {"layout"})
        BY DEF Lacks
      <4> QED
        BY <1>0, <4>1, AskedTail
    <3> QED
      BY <1>0, <1>1, <3>1, <3>2, LayoutReported DEF LayoutNews
  <2> QED
    BY <2>2, <2>3
<1> QED
  BY <1>4, <1>5, <1>6, <1>7, <1>8, RunHandles

LEMMA EventLayoutSettled ==
    ASSUME PetInv, HandleEvent PROVE LayoutSettles'
<1> USE DEF PetInv
<1> DEFINE e == Head(toPanel)
           all == {"ready", "loaded"} \cup LayoutNews
<1>0. /\ toPanel \in Seq(Events) /\ toPanel # <<>> /\ toPanel' = Tail(toPanel)
      /\ toRenderer \in Seq(Commands) /\ config \in Kept /\ config.layout \in Layouts /\ (said => link)
  BY EventHandles DEF LayoutTypeOK, GreetingIsSound, Kept
<1>1. UNCHANGED <<link, said, layout, adjusting>>
  BY EventHandles DEF petProcess, shown, hands
<1>2. CASE e.of \in {"ready", "loaded"}
  <2>1. /\ layoutCrossed' = (layoutCrossed /\ Told(Tail(toPanel)) \cap LayoutNews # {})
        /\ UNCHANGED config
        /\ toRenderer' = SentTo(toRenderer, Salvo) \/ toRenderer' = SentTo(toRenderer, <<Command("layout", config.layout)>>)
    BY <1>2, EventHandles DEF OnReady, OnModelLoaded, panel
  <2>2. SUFFICES ASSUME ~layoutCrossed', link PROVE LayoutSettles'
    BY <1>0, <1>1 DEF LayoutSettles, Opened
  <2>3. Untold(toPanel', LayoutNews)
    <3>1. CASE layoutCrossed
      BY <1>0, <2>1, <2>2, <3>1, WhatIsSaid
    <3>2. CASE ~layoutCrossed
      <4>1. NoneAfter(toPanel, {"ready", "loaded"}, LayoutNews)
        BY <2>2, <3>2 DEF LayoutSettles
      <4> QED
        BY <1>0, <1>2, <4>1, ToldTail
    <3> QED
      BY <3>1, <3>2
  <2>4. NoneAfter(toPanel', {"ready", "loaded"}, LayoutNews)
    BY <2>3 DEF NoneAfter, Untold
  <2>5. LastAsks(toRenderer', "layout", config.layout)
    <3>1. CASE toRenderer' = SentTo(toRenderer, Salvo)
      BY <1>0, <2>2, <3>1, SalvoType, SalvoAsks, AskedMore DEF SentTo
    <3>2. CASE toRenderer' = SentTo(toRenderer, <<Command("layout", config.layout)>>)
      <4> DEFINE s == Command("layout", config.layout)
      <4>1. s \in Commands /\ s.do = "layout" /\ s.to = config.layout
        BY <1>0, CommandTypes DEF Command
      <4>2. toRenderer' = toRenderer \o <<s>>
        BY <2>2, <3>2 DEF SentTo
      <4> HIDE DEF s
      <4>3. LastAsks(<<s>>, "layout", config.layout) /\ <<s>> \in Seq(Commands)
        BY <4>1, OneAsks, OneCommand
      <4> QED
        BY <1>0, <4>2, <4>3, AskedMore
    <3> QED
      BY <2>1, <3>1, <3>2
  <2>6. WillKeep(config.layout)' /\ WillShow(config.layout)'
    BY <2>1, <2>3, <2>5 DEF WillKeep, WillShow
  <2>7. \E l \in Layouts : WillKeep(l)' /\ WillShow(l)'
    BY <1>0, <2>1, <2>3, <2>5 DEF WillKeep, WillShow
  <2> QED
    BY <2>4, <2>7 DEF LayoutSettles
<1>3. CASE e.of \notin all
  <2>1. QuietAbout(all)
    BY <1>0, <1>3 DEF QuietAbout
  <2>2. UNCHANGED <<layoutCrossed, toRenderer>> /\ config'.layout = config.layout
    BY <1>0, <1>3, EventHandles
       DEF OnLoadFailed, OnDragEnd, OnWindowResized, OnLost, Saved, Kept, ghosts, LayoutNews
  <2> QED
    BY <1>1, <2>1, <2>2, AlikeSame, LayoutUntouched
<1>4. CASE e.of \in LayoutNews
  <2>1. UNCHANGED <<toRenderer, layoutCrossed>> /\ config'.layout = Value(e, "layout")
    BY <1>0, <1>4, EventHandles DEF OnLayoutChanged, OnLayoutState, Saved, Kept, Value, LayoutNews, ghosts
  <2>2. /\ Untold(toPanel', {"ready"}) <=> Untold(toPanel, {"ready"})
        /\ Untold(toPanel', {"loaded"}) <=> Untold(toPanel, {"loaded"})
        /\ NoneAfter(toPanel, {"ready", "loaded"}, LayoutNews) => NoneAfter(toPanel', {"ready", "loaded"}, LayoutNews)
        /\ ~Untold(toPanel, LayoutNews)
    BY <1>0, <1>4, ToldTail DEF LayoutNews
  <2>3. ASSUME NEW l, WillKeep(l), WillShow(l) PROVE WillKeep(l)' /\ WillShow(l)'
    <3>1. LastStores(toPanel', LayoutNews, "layout", l) \/ (Value(e, "layout") = l /\ Untold(toPanel', LayoutNews))
      BY <1>0, <2>2, <2>3, ToldTail DEF WillKeep
    <3> QED
      BY <1>1, <2>1, <2>3, <3>1 DEF WillKeep, WillShow
  <2> QED
    BY <1>1, <2>1, <2>2, <2>3 DEF LayoutSettles, Opened
<1> QED
  BY <1>2, <1>3, <1>4

-----------------------------------------------------------------------------
(* The pet: the theorem *)

LEMMA PetInitially == ASSUME LayoutInit PROVE PetInv
<1>1. LayoutTypeOK
  <2>1. Configs \subseteq Kept
    BY LayoutAssumption DEF Kept
  <2>2. config \in Kept /\ disk \in Kept
    BY <2>1 DEF LayoutInit
  <2>3. window \in [x : Int, w : Nat] /\ frameWidth \in Nat
    BY DEF LayoutInit, Nowhere
  <2>4. toRenderer \in Seq(Commands) /\ toPanel \in Seq(Events)
    BY EmptyType DEF LayoutInit
  <2> QED
    BY <2>2, <2>3, <2>4, LayoutAssumption DEF LayoutInit, LayoutTypeOK
<1>2. GreetingIsSound
  BY DEF LayoutInit, GreetingIsSound, LostAfterReady, Untold
<1>3. DialSettles /\ WindowSettles /\ LayoutSettles
  BY DEF LayoutInit, DialSettles, WindowSettles, LayoutSettles, Opened
<1> QED
  BY <1>1, <1>2, <1>3 DEF PetInv

LEMMA PetInductive == PetInv /\ [LayoutNext]_layoutVars => PetInv'
<1> SUFFICES ASSUME PetInv, [LayoutNext]_layoutVars PROVE PetInv'
  OBVIOUS
<1>1. CASE LayoutNext
  <2>1. LayoutTypeOK' /\ GreetingIsSound'
    BY <1>1, LayoutTypes, GreetingKept DEF PetInv
  <2>2. CASE Process
    BY <2>1, <2>2, ProcessSettles DEF PetInv
  <2>3. CASE ~Process
    <3>1. DialSettles'
      BY <1>1, <2>3, DialSettled
    <3>2. WindowSettles'
      BY <1>1, <2>3, NextSplits, UserWindowSettled, PanelWindowSettled, RunWindowSettled, EventWindowSettled
    <3>3. LayoutSettles'
      BY <1>1, <2>3, NextSplits, UserLayoutSettled, PanelLayoutSettled, RunLayoutSettled, EventLayoutSettled
    <3> QED
      BY <2>1, <3>1, <3>2, <3>3 DEF PetInv
  <2> QED
    BY <2>2, <2>3
<1>2. CASE UNCHANGED layoutVars
  BY <1>2 DEF layoutVars, panel, wire, petProcess, shown, hands, ghosts, budget,
              PetInv, LayoutTypeOK, GreetingIsSound, DialSettles, WindowSettles, LayoutSettles, Opened, Placing,
              WindowFollows, WindowIsFollowed, WillKeep, WillShow
<1> QED
  BY <1>1, <1>2

\* With both queues empty nothing is left to happen.
LEMMA PetSettled == ASSUME PetInv PROVE PetIsRestored
<1> SUFFICES ASSUME Settled PROVE /\ ~layoutCrossed => layout = config.layout
                                  /\ dial = config.dial
                                  /\ ~windowCrossed => window = [x |-> config.x, w |-> config.w]
  BY DEF PetIsRestored, LayoutIsRestored, WindowIsRestored
<1>1. toRenderer = <<>> /\ toPanel = <<>> /\ greeted /\ ~dragging /\ ~adjusting
  BY DEF Settled
<1>2. /\ \A kinds : Untold(toPanel, kinds) /\ Lacks(toRenderer, kinds)
      /\ \A kind, v : ~LastAsks(toRenderer, kind, v)
      /\ \A kinds, field, v : ~LastStores(toPanel, kinds, field, v)
  BY <1>1 DEF Untold, Lacks, LastAsks, LastStores
<1>3. Opened /\ ~Placing
  BY <1>1, <1>2 DEF PetInv, GreetingIsSound, Opened, Placing
<1>4. dial = config.dial
  BY <1>2, <1>3 DEF PetInv, DialSettles
<1>5. ~layoutCrossed => layout = config.layout
  BY <1>1, <1>2, <1>3 DEF PetInv, LayoutSettles, WillKeep, WillShow
<1>6. ~windowCrossed => window = [x |-> config.x, w |-> config.w]
  <2>1. window \in [x : Int, w : Nat]
    BY DEF PetInv, LayoutTypeOK
  <2>2. ~windowCrossed => config.w = window.w /\ config.x = window.x
    BY <1>1, <1>2, <1>3 DEF PetInv, WindowSettles, WindowIsFollowed
  <2> QED
    BY <2>1, <2>2
<1> QED
  BY <1>4, <1>5, <1>6

(* What the two queues will still do to the screen and to the row, after   *)
(* any number of edits, switches, read-backs, losses and restarts.         *)
THEOREM PetInvHolds == LayoutSpec => []PetInv
<1>1. LayoutInit => PetInv
  BY PetInitially
<1> QED
  BY <1>1, PetInductive, PTL DEF LayoutSpec

(* The pet comes back where it stood, as large as it was and laid out as   *)
(* it was (StartupSalvo, handleModelLoadedEvent).                          *)
THEOREM PetIsRestoredHolds == LayoutSpec => []PetIsRestored
<1>1. PetInv => PetIsRestored
  BY PetSettled
<1> QED
  BY <1>1, PetInvHolds, PTL

-----------------------------------------------------------------------------
(* The run that composes them: each of its steps is a step of one part and  *)
(* a stutter of the others.                                                 *)

LEMMA StoreRefinesItsParts ==
    StoreSpec => PSSpec /\ ASSpec /\ LayoutSpec /\ ConfigSpec
<1>1. StoreInit => PSInit /\ ASInit /\ LayoutInit /\ ConfigInit
  BY DEF StoreInit
<1>2. [StoreNext]_<<vars, asVars, layoutVars, configVars, part>> =>
        [PSNext]_vars /\ [ASNext]_asVars /\ [LayoutNext]_layoutVars /\ [ConfigNext]_configVars
  BY DEF StoreNext
<1> QED
  BY <1>1, <1>2, PTL DEF StoreSpec, PSSpec, ASSpec, LayoutSpec, ConfigSpec

\* What survives the panel's end: its settings in their row, and with them
\* the move of the directory that holds the row.
THEOREM ConfigurationIsKeptHolds == StoreSpec => ConfigurationIsKept
BY StoreRefinesItsParts, SettingsAreKeptHolds, MigrationIsSafeHolds, PTL DEF ConfigurationIsKept

\* And the roster, the images and the pet on screen, in the same run.
THEOREM StoreIsSound == StoreSpec => [](RosterIsKept /\ AssetUsesAreSound /\ PetIsRestored)
BY StoreRefinesItsParts, RosterIsKeptHolds, AssetUsesAreSoundHolds, PetIsRestoredHolds, PTL
=============================================================================
