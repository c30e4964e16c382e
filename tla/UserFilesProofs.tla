--------------------------- MODULE UserFilesProofs ---------------------------
(***************************************************************************)
(* Proofs about the files that are shared with the user and other          *)
(* programs: PrivateFile, StartupFile and ProxyConfig, for any number of   *)
(* files, lines, keys and aliases, and any sequence of changes that others *)
(* make to them between the steps of setup and of a save.                  *)
(***************************************************************************)
EXTENDS PrivateFile, StartupFile, ProxyConfig,
        Integers, SequenceTheorems, WellFoundedInduction, TLAPS


-----------------------------------------------------------------------------
(***************************************************************************)
(* Type correctness                                                        *)
(***************************************************************************)
LEMMA NoSaveIsSave == NoSave \in Save
BY DEF NoSave, Save

LEMMA PrivateInitTyped == PrivateInit => PrivateTypeOK
BY NoSaveIsSave DEF PrivateInit, PrivateTypeOK

\* The steps of a save, and those of others.
LEMMA PrivateCases ==
    ASSUME [PrivateNext]_privateVars, NEW P,
           ASSUME NEW kind \in {"replace", "new", "config"}, StartSave(kind) PROVE P,
           ASSUME NEW i \in Inode, PrepareFile(i) PROVE P,
           ASSUME NEW i \in Inode, PrepareFileFails(i) PROVE P,
           InspectFirst => P, InspectTarget => P, BeforePublish => P,
           PublishNew => P, PublishExchange => P, CompareBoth => P,
           AfterPublish => P, Confirm => P, SyncParent => P, Abandon => P,
           ASSUME NEW i \in Inode, ReplaceTarget(i) PROVE P,
           RemoveTarget => P, WriteInPlace => P,
           UNCHANGED privateVars => P
    PROVE  P
BY DEF PrivateNext, SaveStep

LEMMA PrivateTyped == PrivateTypeOK /\ [PrivateNext]_privateVars => PrivateTypeOK'
<1> SUFFICES ASSUME PrivateTypeOK, [PrivateNext]_privateVars PROVE PrivateTypeOK'
  OBVIOUS
<1> USE NoSaveIsSave DEF PrivateTypeOK, FilesStay, Continue
<1>1. ASSUME NEW kind \in {"replace", "new", "config"}, StartSave(kind) PROVE PrivateTypeOK'
  BY <1>1, ZenonT(40) DEF StartSave, Save
<1>2. ASSUME NEW i \in Inode, PrepareFile(i) PROVE PrivateTypeOK'
  BY <1>2 DEF PrepareFile, Save
<1>3. ASSUME NEW i \in Inode, PrepareFileFails(i) PROVE PrivateTypeOK'
  BY <1>3 DEF PrepareFileFails
<1>4. InspectFirst => PrivateTypeOK'
  BY DEF InspectFirst, Save
<1>5. InspectTarget => PrivateTypeOK'
  BY DEF InspectTarget, Save
<1>6. BeforePublish => PrivateTypeOK'
  BY DEF BeforePublish, Save
<1>7. PublishNew => PrivateTypeOK'
  BY DEF PublishNew, Save
<1>8. PublishExchange => PrivateTypeOK'
  BY DEF PublishExchange, Save
<1>9. CompareBoth => PrivateTypeOK'
  BY DEF CompareBoth, Save
<1>10. AfterPublish => PrivateTypeOK'
  BY DEF AfterPublish, Save
<1>11. Confirm => PrivateTypeOK'
  BY DEF Confirm, Save
<1>12. SyncParent => PrivateTypeOK'
  BY DEF SyncParent, Save
<1>13. Abandon => PrivateTypeOK'
  BY DEF Abandon
<1>14. ASSUME NEW i \in Inode, ReplaceTarget(i) PROVE PrivateTypeOK'
  BY <1>14 DEF ReplaceTarget
<1>15. RemoveTarget => PrivateTypeOK'
  BY DEF RemoveTarget
<1>16. WriteInPlace => PrivateTypeOK'
  BY DEF WriteInPlace
<1>17. UNCHANGED privateVars => PrivateTypeOK'
  BY DEF privateVars
<1> QED
  BY <1>1, <1>2, <1>3, <1>4, <1>5, <1>6, <1>7, <1>8, <1>9, <1>10, <1>11, <1>12, <1>13,
     <1>14, <1>15, <1>16, <1>17, PrivateCases

\* Every file is where a file can be, and a save is at one of its calls.
THEOREM PrivateTypeCorrect == PrivateSpec => []PrivateTypeOK
BY PrivateInitTyped, PrivateTyped, PTL DEF PrivateSpec

-----------------------------------------------------------------------------
(***************************************************************************)
(* The invariant: a prepared file is new and nobody else's until it is     *)
(* published, and a file that has lost its name never gets it back.        *)
(***************************************************************************)
Unpublished == {"first", "prepare", "inspect", "before", "publish"}
Prepared == {"inspect", "before", "publish"}
Settled == {"after", "confirm", "sync"}

\* Everything that was seen under the name has come into being.
SeenInv ==
    \A i \in Inode : i \in {target, save.first, save.seen} => data[i] # "none"

PreparedInv ==
    save.pc \in Prepared =>
        /\ save.mine \in retained /\ save.mine \notin {target, theirs}
        /\ data[save.mine] # "none"

\* With what beforePublish compares, and what is compared after the exchange,
\* the file that a configuration displaces is the one it began with.
FirstInv ==
    save.kind = "config" =>
        /\ save.pc \in Unpublished => save.displaced = NoFile
        /\ save.pc = "before" /\ save.first # NoFile /\ target = save.first =>
              save.seen = save.first
        /\ save.pc = "publish" /\ save.seen # save.first =>
              save.seen # NoFile /\ target # save.seen
        /\ save.pc = "compare" /\ save.displaced = save.seen => save.seen = save.first
        /\ save.pc \in Settled => save.displaced = save.first

PrivateInv == PrivateTypeOK /\ ContentRetained /\ SeenInv /\ PreparedInv /\ FirstInv

LEMMA NoSaveFields ==
    /\ NoSave.pc = "idle" /\ NoSave.kind = "new"
    /\ NoSave.first = NoFile /\ NoSave.seen = NoFile /\ NoSave.displaced = NoFile
BY DEF NoSave

LEMMA PrivateInvInit == PrivateInit => PrivateInv
<1> SUFFICES ASSUME PrivateInit PROVE PrivateInv
  OBVIOUS
<1>1. PrivateTypeOK
  BY PrivateInitTyped
<1>2. ContentRetained /\ SeenInv
  BY NoSaveFields, NoFileAssumption DEF PrivateInit, ContentRetained, SeenInv
<1>3. PreparedInv /\ FirstInv
  BY NoSaveFields DEF PrivateInit, PreparedInv, FirstInv, Prepared
<1> QED
  BY <1>1, <1>2, <1>3 DEF PrivateInv

LEMMA PrivateInvStep == PrivateInv /\ [PrivateNext]_privateVars => PrivateInv'
<1> SUFFICES ASSUME PrivateInv, [PrivateNext]_privateVars PROVE PrivateInv'
  OBVIOUS
<1>0. PrivateTypeOK'
  BY PrivateTyped DEF PrivateInv
<1> DEFINE Rest == ContentRetained /\ SeenInv /\ PreparedInv /\ FirstInv
<1> USE NoFileAssumption, NoSaveFields
    DEF PrivateInv, PrivateTypeOK, ContentRetained, SeenInv, PreparedInv, FirstInv,
        Unpublished, Prepared, Settled, FilesStay, Continue, Unused
<1>1. ASSUME NEW kind \in {"replace", "new", "config"}, StartSave(kind) PROVE Rest'
  BY <1>1, NoSaveIsSave DEF StartSave, Save
<1>2. ASSUME NEW i \in Inode, PrepareFile(i) PROVE Rest'
  BY <1>2 DEF PrepareFile, Save
<1>3. ASSUME NEW i \in Inode, PrepareFileFails(i) PROVE Rest'
  BY <1>3 DEF PrepareFileFails, Save
<1>4. InspectFirst => Rest'
  BY DEF InspectFirst, Save
<1>5. InspectTarget => Rest'
  BY DEF InspectTarget, Save
<1>6. BeforePublish => Rest'
  BY DEF BeforePublish, Save
<1>7. PublishNew => Rest'
  BY DEF PublishNew, Save
<1>8. PublishExchange => Rest'
  BY DEF PublishExchange, Save
<1>9. CompareBoth => Rest'
  BY DEF CompareBoth, Save
<1>10. AfterPublish => Rest'
  BY DEF AfterPublish, Save
<1>11. Confirm => Rest'
  BY DEF Confirm, Save
<1>12. SyncParent => Rest'
  BY DEF SyncParent, Save
<1>13. Abandon => Rest'
  BY DEF Abandon, Save
<1>14. ASSUME NEW i \in Inode, ReplaceTarget(i) PROVE Rest'
  BY <1>14 DEF ReplaceTarget, Save
<1>15. RemoveTarget => Rest'
  BY DEF RemoveTarget, Save
<1>16. WriteInPlace => Rest'
  BY DEF WriteInPlace, Save
<1>17. UNCHANGED privateVars => Rest'
  BY DEF privateVars
<1>18. Rest'
  <2> HIDE DEF Rest
  <2> QED
    BY <1>1, <1>2, <1>3, <1>4, <1>5, <1>6, <1>7, <1>8, <1>9, <1>10, <1>11, <1>12, <1>13,
       <1>14, <1>15, <1>16, <1>17, PrivateCases
<1> QED
  BY <1>0, <1>18

-----------------------------------------------------------------------------
\* A save may race an editor but destroys nothing of what the editor wrote.
THEOREM NothingDestroyed == PrivateSpec => []ContentRetained
<1>1. PrivateInv => ContentRetained
  BY DEF PrivateInv
<1> QED
  BY <1>1, PrivateInvInit, PrivateInvStep, PTL DEF PrivateSpec

\* A configuration is published only over what its save found first.
THEOREM PublishedOverFirst == PrivateSpec => []NoBlindOverwrite
<1>1. PrivateInv => NoBlindOverwrite
  BY DEF PrivateInv, FirstInv, NoBlindOverwrite, Settled
<1> QED
  BY <1>1, PrivateInvInit, PrivateInvStep, PTL DEF PrivateSpec

-----------------------------------------------------------------------------
(***************************************************************************)
(* Sequences without some of their elements                                *)
(***************************************************************************)
LEMMA LeastNat == ASSUME NEW T, T \subseteq Nat, T # {} PROVE \E x \in T : \A y \in T : x <= y
<1> DEFINE R == {ss \in Nat \X Nat : ss[1] < ss[2]}
<1>1. IsWellFoundedOn(R, Nat) 
  <2>1. IsWellFoundedOn(OpToRel(<, Nat), Nat) BY NatLessThanWellFounded
  <2> QED BY Zenon, <2>1 DEF OpToRel
<1>2. \E x \in T : \A y \in T : ~(<<y, x>> \in R)
  <2> HIDE DEF R
  <2> QED BY <1>1, WFMin
<1>3. \A x, y \in T : x < y => <<x, y>> \in R
  OBVIOUS
<1> HIDE DEF R
<1>4. PICK x \in T : \A y \in T : ~(<<y, x>> \in R)
  BY <1>2
<1>5. \A y \in T : ~(y < x)
  BY Zenon, <1>3, <1>4
<1>6. \A y \in T : x <= y
  BY <1>5
<1> QED BY <1>6

LEMMA SetInduction == ASSUME NEW S, 0 \in S, \A n \in Nat : n \in S => n+1 \in S PROVE Nat \subseteq S
<1> SUFFICES ASSUME Nat \ S # {} PROVE FALSE OBVIOUS
<1>1. PICK x \in Nat \ S : \A y \in Nat \ S : x <= y BY LeastNat
<1>2. x # 0 BY <1>1
<1>3. x-1 \in Nat BY <1>1, <1>2
<1>4. x-1 \in S BY <1>3, <1>1
<1> QED BY <1>1, <1>3, <1>4

FilterStep(seq, dropped, g, i) ==
    IF i = 0 THEN <<>>
    ELSE IF seq[i] \in dropped THEN g[i - 1] ELSE Append(g[i - 1], seq[i])

\* the function exists
LEMMA FilterExists ==
    ASSUME NEW seq, NEW dropped, NEW n \in Nat
    PROVE  \E g : g = [i \in 0 .. n |-> FilterStep(seq, dropped, g, i)]
<1> DEFINE S == {m \in Nat : \E g : g = [i \in 0 .. m |-> FilterStep(seq, dropped, g, i)]}
<1>1. 0 \in S
  <2> DEFINE g == [i \in 0 .. 0 |-> <<>>]
  <2>1. g = [i \in 0 .. 0 |-> FilterStep(seq, dropped, g, i)]
    BY DEF FilterStep
  <2> QED
    BY <2>1
<1>2. ASSUME NEW m \in Nat, m \in S PROVE m + 1 \in S
  <2>1. PICK g : g = [i \in 0 .. m |-> FilterStep(seq, dropped, g, i)]
    BY <1>2
  <2> DEFINE h == [i \in 0 .. m + 1 |-> IF i = m + 1 THEN FilterStep(seq, dropped, g, m + 1) ELSE g[i]]
  <2>2. \A i \in 0 .. m + 1 : h[i] = FilterStep(seq, dropped, h, i)
    <3> TAKE i \in 0 .. m + 1
    <3>1. i # 0 => i - 1 \in 0 .. m /\ h[i - 1] = g[i - 1]
      OBVIOUS
    <3>2. FilterStep(seq, dropped, h, i) = FilterStep(seq, dropped, g, i)
      BY <3>1 DEF FilterStep
    <3>3. i # m + 1 => g[i] = FilterStep(seq, dropped, g, i)
      BY <2>1
    <3> QED
      BY <3>2, <3>3
  <2>3. h = [i \in 0 .. m + 1 |-> FilterStep(seq, dropped, h, i)]
    <3> DEFINE k == [i \in 0 .. m + 1 |-> FilterStep(seq, dropped, h, i)]
    <3>1. DOMAIN h = DOMAIN k /\ \A i \in DOMAIN h : h[i] = k[i]
      BY <2>2
    <3>2. h = [i \in DOMAIN h |-> h[i]] /\ k = [i \in DOMAIN k |-> k[i]]
      OBVIOUS
    <3> HIDE DEF h, k
    <3>3. h = k
      BY <3>1, <3>2
    <3> QED
      BY Zenon, <3>3 DEF k
  <2> HIDE DEF h
  <2>4. \E k : k = [i \in 0 .. m + 1 |-> FilterStep(seq, dropped, k, i)]
    BY Zenon, <2>3
  <2> QED
    BY <2>4
<1> HIDE DEF S
<1>3. n \in S
  BY <1>1, <1>2, SetInduction
<1> QED
  BY <1>3 DEF S

LEMMA FilterDef ==
    ASSUME NEW T, NEW seq \in Seq(T), NEW dropped
    PROVE  \E f :
              /\ f = [i \in 0 .. Len(seq) |-> FilterStep(seq, dropped, f, i)]
              /\ Without(seq, dropped) = f[Len(seq)]
<1> DEFINE f == CHOOSE g : g = [i \in 0 .. Len(seq) |-> FilterStep(seq, dropped, g, i)]
<1>1. Len(seq) \in Nat
  OBVIOUS
<1>2. f = [i \in 0 .. Len(seq) |-> FilterStep(seq, dropped, f, i)]
  <2>1. \E g : g = [i \in 0 .. Len(seq) |-> FilterStep(seq, dropped, g, i)]
    BY <1>1, FilterExists
  <2> QED
    BY Zenon, <2>1
<1>3. Without(seq, dropped) = f[Len(seq)]
  BY Zenon DEF Without, FilterStep
<1> QED
  BY Zenon, <1>2, <1>3

LEMMA FilterAppend ==
    ASSUME NEW T, NEW s \in Seq(T), NEW e \in T, NEW dropped
    PROVE  Without(Append(s, e), dropped)
             = IF e \in dropped THEN Without(s, dropped) ELSE Append(Without(s, dropped), e)
<1> DEFINE t == Append(s, e)
           n == Len(s)
<1>1. t \in Seq(T) /\ n \in Nat /\ Len(t) = n + 1
  OBVIOUS
<1>2. PICK f : /\ f = [i \in 0 .. n |-> FilterStep(s, dropped, f, i)]
               /\ Without(s, dropped) = f[n]
  BY FilterDef
<1>3. PICK g : /\ g = [i \in 0 .. Len(t) |-> FilterStep(t, dropped, g, i)]
               /\ Without(t, dropped) = g[Len(t)]
  BY <1>1, FilterDef
<1>4. \A i \in 0 .. n : t[i] = s[i] \/ i = 0
  OBVIOUS
<1>5. t[n + 1] = e
  OBVIOUS
<1> DEFINE S == {m \in Nat : m <= n => g[m] = f[m]}
<1> HIDE DEF t, n
<1>6. 0 \in S
  BY <1>1, <1>2, <1>3 DEF FilterStep
<1>7. ASSUME NEW m \in Nat, m \in S PROVE m + 1 \in S
  <2> SUFFICES ASSUME m + 1 <= n PROVE g[m + 1] = f[m + 1]
    OBVIOUS
  <2>1. g[m] = f[m] /\ t[m + 1] = s[m + 1]
    BY <1>7, <1>4, <1>1
  <2>2. g[m + 1] = FilterStep(t, dropped, g, m + 1) /\ f[m + 1] = FilterStep(s, dropped, f, m + 1)
    <3>1. m + 1 \in 0 .. n /\ m + 1 \in 0 .. Len(t)
      BY <1>1
    <3> QED
      BY ONLY <3>1, <1>2, <1>3
  <2>3. m + 1 # 0 /\ (m + 1) - 1 = m
    OBVIOUS
  <2> QED
    BY <2>1, <2>2, <2>3 DEF FilterStep
<1> HIDE DEF S
<1>8. n \in S
  BY <1>1, <1>6, <1>7, SetInduction
<1>9. g[n] = f[n]
  BY <1>8, <1>1 DEF S
<1>10. g[n + 1] = FilterStep(t, dropped, g, n + 1)
  BY <1>1, <1>3
<1>11. n + 1 # 0 /\ (n + 1) - 1 = n
  BY <1>1
<1> QED
  BY <1>1, <1>2, <1>3, <1>5, <1>9, <1>10, <1>11 DEF FilterStep, t

LEMMA FilterEmpty ==
    ASSUME NEW dropped
    PROVE  Without(<<>>, dropped) = <<>>
<1>1. PICK f : /\ f = [i \in 0 .. Len(<<>>) |-> FilterStep(<<>>, dropped, f, i)]
               /\ Without(<<>>, dropped) = f[Len(<<>>)]
  <2>1. <<>> \in Seq({})
    OBVIOUS
  <2> QED
    BY <2>1, FilterDef
<1>2. Len(<<>>) = 0
  OBVIOUS
<1> QED
  BY <1>1, <1>2 DEF FilterStep

LEMMA SeqInduction ==
    ASSUME NEW T, NEW S, <<>> \in S,
           \A s \in Seq(T), e \in T : s \in S => Append(s, e) \in S
    PROVE  Seq(T) \subseteq S
<1> DEFINE N == {n \in Nat : \A s \in Seq(T) : Len(s) = n => s \in S}
<1>1. 0 \in N
  OBVIOUS
<1>2. ASSUME NEW n \in Nat, n \in N PROVE n + 1 \in N
  <2> SUFFICES ASSUME NEW s \in Seq(T), Len(s) = n + 1 PROVE s \in S
    OBVIOUS
  <2> DEFINE r == SubSeq(s, 1, n)
  <2>1. r \in Seq(T) /\ Len(r) = n /\ s[n + 1] \in T
    OBVIOUS
  <2>2. s = Append(r, s[n + 1])
    OBVIOUS
  <2>3. r \in S
    BY <1>2, <2>1
  <2> HIDE DEF r
  <2> QED
    BY <2>1, <2>2, <2>3
<1> HIDE DEF N
<1>3. Nat \subseteq N
  BY <1>1, <1>2, SetInduction
<1> QED
  BY <1>3 DEF N

LEMMA FilterType ==
    ASSUME NEW T, NEW s \in Seq(T), NEW dropped
    PROVE  Without(s, dropped) \in Seq(T \ dropped)
<1> DEFINE S == {r \in Seq(T) : Without(r, dropped) \in Seq(T \ dropped)}
<1>1. <<>> \in S
  <2>1. <<>> \in Seq(T) /\ <<>> \in Seq(T \ dropped)
    OBVIOUS
  <2> QED
    BY <2>1, FilterEmpty
<1>2. ASSUME NEW r \in Seq(T), NEW e \in T, r \in S PROVE Append(r, e) \in S
  <2>1. Append(r, e) \in Seq(T)
    OBVIOUS
  <2>2. Without(r, dropped) \in Seq(T \ dropped)
    BY <1>2
  <2>3. e \notin dropped => Append(Without(r, dropped), e) \in Seq(T \ dropped)
    BY <2>2
  <2>4. Without(Append(r, e), dropped)
           = IF e \in dropped THEN Without(r, dropped) ELSE Append(Without(r, dropped), e)
    BY FilterAppend
  <2> QED
    BY <2>1, <2>2, <2>3, <2>4
<1> HIDE DEF S
<1>3. Seq(T) \subseteq S
  BY <1>1, <1>2, SeqInduction
<1> QED
  BY <1>3 DEF S

LEMMA FilterConcat ==
    ASSUME NEW T, NEW a \in Seq(T), NEW b \in Seq(T), NEW dropped
    PROVE  Without(a \o b, dropped) = Without(a, dropped) \o Without(b, dropped)
<1> DEFINE S == {r \in Seq(T) :
                   Without(a \o r, dropped) = Without(a, dropped) \o Without(r, dropped)}
<1>0. ASSUME NEW r \in Seq(T) PROVE Without(r, dropped) \in Seq(T)
  <2>1. Without(r, dropped) \in Seq(T \ dropped)
    BY FilterType
  <2> QED
    BY <2>1
<1>1. <<>> \in S
  BY <1>0, FilterEmpty
<1>2. ASSUME NEW r \in Seq(T), NEW e \in T, r \in S PROVE Append(r, e) \in S
  <2>1. a \o Append(r, e) = Append(a \o r, e) /\ a \o r \in Seq(T)
    OBVIOUS
  <2>2. Without(Append(a \o r, e), dropped)
           = IF e \in dropped THEN Without(a \o r, dropped) ELSE Append(Without(a \o r, dropped), e)
    <3> DEFINE c == a \o r
    <3> HIDE DEF S, c
    <3>1. c \in Seq(T)
      BY <2>1 DEF c
    <3>2. Without(Append(c, e), dropped)
             = IF e \in dropped THEN Without(c, dropped) ELSE Append(Without(c, dropped), e)
      BY <3>1, FilterAppend
    <3> QED
      BY <3>2 DEF c
  <2>3. Without(Append(r, e), dropped)
           = IF e \in dropped THEN Without(r, dropped) ELSE Append(Without(r, dropped), e)
    BY FilterAppend
  <2>4. Without(a, dropped) \in Seq(T) /\ Without(r, dropped) \in Seq(T)
    BY <1>0
  <2>5. Append(Without(a, dropped) \o Without(r, dropped), e)
          = Without(a, dropped) \o Append(Without(r, dropped), e)
    <3> DEFINE u == Without(a, dropped)
               v == Without(r, dropped)
               l == Append(u \o v, e)
               m == u \o Append(v, e)
    <3> HIDE DEF u, v
    <3>0. u \in Seq(T) /\ v \in Seq(T)
      BY <2>4 DEF u, v
    <3>1. l \in Seq(T) /\ m \in Seq(T) /\ Len(l) = Len(u) + Len(v) + 1 /\ Len(m) = Len(l)
      BY <3>0
    <3>2. ASSUME NEW i \in 1 .. Len(u) + Len(v) + 1 PROVE l[i] = m[i]
      <4>1. CASE i <= Len(u)
        BY <3>0, <4>1
      <4>2. CASE i > Len(u) /\ i <= Len(u) + Len(v)
        BY <3>0, <4>2
      <4>3. CASE i = Len(u) + Len(v) + 1
        BY <3>0, <4>3
      <4>4. Len(u) \in Nat /\ Len(v) \in Nat
        BY <3>0
      <4>5. i <= Len(u) \/ (i > Len(u) /\ i <= Len(u) + Len(v)) \/ i = Len(u) + Len(v) + 1
        BY <4>4
      <4> QED
        BY Zenon, <4>1, <4>2, <4>3, <4>5
    <3> HIDE DEF l, m
    <3>3. l = m
      BY <3>1, <3>2, SeqEqual
    <3> QED
      BY <3>3 DEF l, m, u, v
  <2>6. Append(r, e) \in Seq(T)
    OBVIOUS
  <2>7. Without(a \o r, dropped) = Without(a, dropped) \o Without(r, dropped)
    BY <1>2
  <2>8. Without(a \o Append(r, e), dropped) = Without(a, dropped) \o Without(Append(r, e), dropped)
    BY <2>1, <2>2, <2>3, <2>5, <2>7
  <2> QED
    BY <2>6, <2>8
<1> HIDE DEF S
<1>3. Seq(T) \subseteq S
  BY <1>1, <1>2, SeqInduction
<1> QED
  BY <1>3 DEF S

LEMMA FilterKeeps ==
    ASSUME NEW T, NEW s \in Seq(T), NEW dropped, \A i \in DOMAIN s : s[i] \notin dropped
    PROVE  Without(s, dropped) = s
<1> DEFINE S == {r \in Seq(T) : (\A i \in DOMAIN r : r[i] \notin dropped) => Without(r, dropped) = r}
<1>1. <<>> \in S
  BY FilterEmpty
<1>2. ASSUME NEW r \in Seq(T), NEW e \in T, r \in S PROVE Append(r, e) \in S
  <2> SUFFICES ASSUME \A i \in DOMAIN Append(r, e) : Append(r, e)[i] \notin dropped
               PROVE  Without(Append(r, e), dropped) = Append(r, e)
    <3>1. Append(r, e) \in Seq(T)
      OBVIOUS
    <3> QED
      BY <3>1
  <2>1. e \notin dropped /\ \A i \in DOMAIN r : r[i] \notin dropped
    <3>1. Len(r) + 1 \in DOMAIN Append(r, e) /\ Append(r, e)[Len(r) + 1] = e
      OBVIOUS
    <3>2. \A i \in DOMAIN r : i \in DOMAIN Append(r, e) /\ Append(r, e)[i] = r[i]
      OBVIOUS
    <3> QED
      BY <3>1, <3>2
  <2> QED
    BY <1>2, <2>1, FilterAppend
<1> HIDE DEF S
<1>3. Seq(T) \subseteq S
  BY <1>1, <1>2, SeqInduction
<1> QED
  BY <1>3 DEF S

LEMMA FilterDrops ==
    ASSUME NEW T, NEW s \in Seq(T), NEW dropped, \A i \in DOMAIN s : s[i] \in dropped
    PROVE  Without(s, dropped) = <<>>
<1> DEFINE S == {r \in Seq(T) : (\A i \in DOMAIN r : r[i] \in dropped) => Without(r, dropped) = <<>>}
<1>1. <<>> \in S
  BY FilterEmpty
<1>2. ASSUME NEW r \in Seq(T), NEW e \in T, r \in S PROVE Append(r, e) \in S
  <2> SUFFICES ASSUME \A i \in DOMAIN Append(r, e) : Append(r, e)[i] \in dropped
               PROVE  Without(Append(r, e), dropped) = <<>>
    <3>1. Append(r, e) \in Seq(T)
      OBVIOUS
    <3> QED
      BY <3>1
  <2>1. e \in dropped /\ \A i \in DOMAIN r : r[i] \in dropped
    <3>1. Len(r) + 1 \in DOMAIN Append(r, e) /\ Append(r, e)[Len(r) + 1] = e
      OBVIOUS
    <3>2. \A i \in DOMAIN r : i \in DOMAIN Append(r, e) /\ Append(r, e)[i] = r[i]
      OBVIOUS
    <3> QED
      BY <3>1, <3>2
  <2> QED
    BY <1>2, <2>1, FilterAppend
<1> HIDE DEF S
<1>3. Seq(T) \subseteq S
  BY <1>1, <1>2, SeqInduction
<1> QED
  BY <1>3 DEF S

-----------------------------------------------------------------------------
(***************************************************************************)
(* StartupFile: texts and blocks                                           *)
(***************************************************************************)
Plain == Line \ Marker

LEMMA PlainLines ==
    /\ Bin \subseteq Line /\ OwnLine \subseteq Line /\ Marker \subseteq Line
    /\ Bin \cap Marker = {} /\ Bin \cap OwnLine = {} /\ OwnLine \cap Marker = {}
    /\ "blank" \notin OwnLine
BY BinAssumption DEF Line, OwnLine, Marker

LEMMA PlainIsLines == ASSUME NEW a \in Seq(Plain) PROVE a \in Seq(Line)
BY DEF Plain

LEMMA PlainUnmarked ==
    ASSUME NEW a \in Seq(Plain)
    PROVE  Unmarked(a)
BY DEF Unmarked, Marks, Plain

LEMMA UnmarkedPlain ==
    ASSUME NEW lines \in Seq(Line), Unmarked(lines)
    PROVE  lines \in Seq(Plain)
<1>1. \A i \in 1 .. Len(lines) : lines[i] \in Plain
  BY DEF Unmarked, Marks, Plain
<1> QED
  BY <1>1

\* The bounds that are found are those of the one block.
LEMMA BoundsFound ==
    ASSUME NEW lines \in Seq(Line), NEW i \in DOMAIN lines, NEW j \in DOMAIN lines,
           BlockAt(lines, i, j)
    PROVE  /\ StartOf(lines) = i /\ EndOf(lines) = j
           /\ ~Unmarked(lines) /\ ~Damaged(lines)
<1>1. Marks(lines) = {i, j} /\ lines[i] = "start" /\ lines[j] = "end" /\ i < j
  BY DEF BlockAt
<1>2. \A k \in Marks(lines) : (lines[k] = "start" <=> k = i) /\ (lines[k] = "end" <=> k = j)
  BY <1>1
<1>3. StartOf(lines) = i
  BY <1>1, <1>2 DEF StartOf
<1>4. EndOf(lines) = j
  BY <1>1, <1>2 DEF EndOf
<1> QED
  BY <1>1, <1>3, <1>4 DEF Unmarked, Damaged

\* What is outside of a block has no marker.
LEMMA OutsidePlain ==
    ASSUME NEW lines \in Seq(Line), NEW i \in DOMAIN lines, NEW j \in DOMAIN lines,
           BlockAt(lines, i, j)
    PROVE  /\ Outside(lines)[1] \in Seq(Plain)
           /\ Outside(lines)[2] \in Seq(Plain)
<1>1. StartOf(lines) = i /\ EndOf(lines) = j
  BY BoundsFound
<1>2. i \in 1 .. Len(lines) /\ j \in 1 .. Len(lines) /\ i < j /\ Len(lines) \in Nat
  BY DEF BlockAt
<1>3. \A k \in 1 .. Len(lines) : k # i /\ k # j => lines[k] \in Plain
  BY DEF BlockAt, Marks, Plain
<1>4. SubSeq(lines, 1, i - 1) \in Seq(Plain)
  <2>1. \A k \in 1 .. i - 1 : lines[k] \in Plain
    BY <1>2, <1>3
  <2> QED
    BY <1>2, <2>1, SubSeqProperties
<1>5. SubSeq(lines, j + 1, Len(lines)) \in Seq(Plain)
  <2>1. \A k \in j + 1 .. Len(lines) : lines[k] \in Plain
    BY <1>2, <1>3
  <2> QED
    BY <1>2, <2>1, SubSeqProperties
<1> QED
  BY <1>1, <1>4, <1>5 DEF Outside

\* s is a and then b.
Joins(s, a, b) ==
    /\ Len(s) = Len(a) + Len(b)
    /\ \A i \in 1 .. Len(a) : s[i] = a[i]
    /\ \A i \in 1 .. Len(b) : s[Len(a) + i] = b[i]

LEMMA ConcatJoins ==
    ASSUME NEW T, NEW a \in Seq(T), NEW b \in Seq(T)
    PROVE  a \o b \in Seq(T) /\ Joins(a \o b, a, b)
BY DEF Joins

\* A block between lines that are no markers is found, and is what it is.
LEMMA BlockBetween ==
    ASSUME NEW a \in Seq(Plain), NEW b \in Seq(Plain), NEW bin \in Bin
    PROVE  LET lines == a \o Block(bin) \o b
           IN  /\ lines \in Seq(Line)
               /\ Len(lines) = Len(a) + 3 + Len(b)
               /\ BlockAt(lines, Len(a) + 1, Len(a) + 3)
               /\ SubSeq(lines, Len(a) + 1, Len(a) + 3) = Block(bin)
               /\ Outside(lines) = <<a, b>>
<1> DEFINE lines == a \o Block(bin) \o b
           n == Len(a)
           m == Len(b)
<1>1. Block(bin) \in Seq(Line) /\ Len(Block(bin)) = 3
  BY PlainLines DEF Block, Marker
<1>2. a \in Seq(Line) /\ b \in Seq(Line) /\ n \in Nat /\ m \in Nat
  BY PlainIsLines
<1> DEFINE blk == Block(bin)
           ab == a \o blk
<1>3. blk[1] = "start" /\ blk[2] = bin /\ blk[3] = "end" /\ blk \in Seq(Line) /\ Len(blk) = 3
  BY <1>1 DEF Block
<1> HIDE DEF blk
<1>4. /\ ab \in Seq(Line) /\ Len(ab) = n + 3
      /\ \A i \in 1 .. n : ab[i] = a[i]
      /\ \A i \in 1 .. 3 : ab[n + i] = blk[i]
  <2>1. ab \in Seq(Line) /\ Joins(ab, a, blk)
    BY <1>2, <1>3, ConcatJoins
  <2> HIDE DEF ab
  <2> QED
    BY <1>3, <2>1 DEF Joins
<1> HIDE DEF ab
<1>5. lines \in Seq(Line) /\ Joins(lines, ab, b)
  <2>1. lines = ab \o b
    BY DEF ab, blk
  <2> HIDE DEF lines
  <2> QED
    BY <1>2, <1>4, <2>1, ConcatJoins
<1> HIDE DEF lines
<1>6. /\ lines \in Seq(Line)
      /\ Len(lines) = n + 3 + m
  BY <1>2, <1>4, <1>5 DEF Joins
<1>7. \A i \in 1 .. n : lines[i] = a[i]
  BY <1>2, <1>4, <1>5 DEF Joins
<1>8. \A i \in 1 .. m : lines[n + 3 + i] = b[i]
  BY <1>2, <1>4, <1>5 DEF Joins
<1>9. lines[n + 1] = "start" /\ lines[n + 2] = bin /\ lines[n + 3] = "end"
  BY <1>2, <1>3, <1>4, <1>5 DEF Joins
<1>10. \A i \in 1 .. n + 3 + m : lines[i] \in Marker <=> i = n + 1 \/ i = n + 3
  <2> TAKE i \in 1 .. n + 3 + m
  <2>1. CASE i \in 1 .. n
    BY <1>2, <1>7, <2>1 DEF Plain
  <2>2. CASE i \in {n + 1, n + 2, n + 3}
    BY <1>2, <1>9, <2>2, PlainLines DEF Marker
  <2>3. CASE i \in n + 4 .. n + 3 + m
    <3>1. i - (n + 3) \in 1 .. m /\ n + 3 + (i - (n + 3)) = i
      BY <1>2, <2>3
    <3>2. lines[i] = b[i - (n + 3)]
      BY <1>8, <3>1
    <3> QED
      BY <1>2, <2>3, <3>1, <3>2 DEF Plain
  <2>4. i \in 1 .. n \/ i \in {n + 1, n + 2, n + 3} \/ i \in n + 4 .. n + 3 + m
    BY <1>2
  <2> QED
    BY Zenon, <2>1, <2>2, <2>3, <2>4
<1>11. BlockAt(lines, n + 1, n + 3)
  <2>1. Marks(lines) = {n + 1, n + 3}
    BY <1>2, <1>6, <1>10 DEF Marks
  <2> QED
    BY <1>2, <1>9, <2>1 DEF BlockAt
<1>12. SubSeq(lines, n + 1, n + 3) = Block(bin)
  <2> DEFINE t == SubSeq(lines, n + 1, n + 3)
  <2>1. t \in Seq(Line) /\ Len(t) = 3
    BY <1>2, <1>6
  <2>2. t[1] = lines[n + 1] /\ t[2] = lines[n + 2] /\ t[3] = lines[n + 3]
    BY <1>2, <1>6
  <2> HIDE DEF t
  <2>3. \A i \in 1 .. 3 : t[i] = Block(bin)[i]
    BY <1>9, <2>2 DEF Block
  <2>4. t = Block(bin)
    BY <1>1, <2>1, <2>3, SeqEqual
  <2> QED
    BY <2>4 DEF t
<1>13. Outside(lines) = <<a, b>>
  <2>1. StartOf(lines) = n + 1 /\ EndOf(lines) = n + 3
    <3>1. n + 1 \in DOMAIN lines /\ n + 3 \in DOMAIN lines
      BY <1>2, <1>6
    <3> QED
      BY <1>6, <1>11, <3>1, BoundsFound
  <2>2. SubSeq(lines, 1, n) = a
    <3> DEFINE t == SubSeq(lines, 1, n)
    <3>1. t \in Seq(Line) /\ Len(t) = n /\ \A i \in 1 .. n : t[i] = lines[i]
      BY <1>2, <1>6
    <3> HIDE DEF t
    <3>2. t = a
      BY <1>2, <1>7, <3>1, SeqEqual
    <3> QED
      BY <3>2 DEF t
  <2>3. SubSeq(lines, n + 4, n + 3 + m) = b
    <3> DEFINE t == SubSeq(lines, n + 4, n + 3 + m)
    <3>1. t \in Seq(Line) /\ Len(t) = m /\ \A i \in 1 .. m : t[i] = lines[n + 3 + i]
      BY <1>2, <1>6
    <3> HIDE DEF t
    <3>2. t = b
      BY <1>2, <1>8, <3>1, SeqEqual
    <3> QED
      BY <3>2 DEF t
  <2>4. n + 1 - 1 = n /\ n + 3 + 1 = n + 4
    BY <1>2
  <2> QED
    BY <1>6, <2>1, <2>2, <2>3, <2>4 DEF Outside
<1> QED
  BY <1>6, <1>11, <1>12, <1>13 DEF lines

LEMMA NotDamaged ==
    ASSUME NEW lines \in Seq(Line), ~Unmarked(lines), ~Damaged(lines)
    PROVE  \E i, j \in DOMAIN lines : BlockAt(lines, i, j)
BY DEF Damaged

\* What replaceManagedBlock writes is a block between plain lines, those around
\* the old block or all there were.
LEMMA ReplacedIs ==
    ASSUME NEW text \in Text, ~Damaged(text.lines), NEW bin \in Bin
    PROVE  \E a, b \in Seq(Plain) :
              /\ IF Unmarked(text.lines) THEN a = text.lines /\ b = <<>> ELSE Outside(text.lines) = <<a, b>>
              /\ Replaced(text, bin).lines = a \o Block(bin) \o b
              /\ Replaced(text, bin) \in Text
              /\ Replaced(text, bin).open => Len(b) > 0
<1> DEFINE lines == text.lines
<1>1. lines \in Seq(Line) /\ text.open \in BOOLEAN
  BY DEF Text
<1>2. CASE Unmarked(lines)
  <2>1. lines \in Seq(Plain) /\ <<>> \in Seq(Plain)
    BY <1>1, <1>2, UnmarkedPlain
  <2> DEFINE l == lines \o Block(bin)
  <2>2. l \in Seq(Line) /\ l = lines \o Block(bin) \o <<>>
    <3>1. Block(bin) \in Seq(Line)
      BY PlainLines DEF Block, Marker
    <3>2. l \in Seq(Line)
      BY <1>1, <3>1
    <3> HIDE DEF l
    <3>3. l \o <<>> = l
      BY <3>2
    <3> QED
      BY <3>2, <3>3 DEF l
  <2>3. Replaced(text, bin) = [lines |-> l, open |-> FALSE]
    BY <1>2 DEF Replaced
  <2> HIDE DEF l
  <2>4. Replaced(text, bin) \in Text /\ Replaced(text, bin).lines = l /\ ~Replaced(text, bin).open
    BY <2>2, <2>3 DEF Text
  <2> QED
    BY <1>2, <2>1, <2>2, <2>4
<1>3. CASE ~Unmarked(lines)
  <2>1. PICK i \in DOMAIN lines, j \in DOMAIN lines : BlockAt(lines, i, j)
    BY <1>1, <1>3, NotDamaged
  <2> DEFINE a == Outside(lines)[1]
             b == Outside(lines)[2]
             l == a \o Block(bin) \o b
  <2>2. a \in Seq(Plain) /\ b \in Seq(Plain)
    BY <1>1, <2>1, OutsidePlain
  <2>3. Outside(lines) = <<a, b>>
    BY DEF Outside
  <2>4. EndOf(lines) = j /\ j \in 1 .. Len(lines) /\ Len(lines) \in Nat
    BY <1>1, <2>1, BoundsFound
  <2>5. b = SubSeq(lines, j + 1, Len(lines))
    BY <2>4 DEF Outside
  <2>6. Len(b) = Len(lines) - j
    BY <1>1, <2>4, <2>5
  <2>7. Replaced(text, bin) = [lines |-> l, open |-> text.open /\ j < Len(lines)]
    BY <1>3, <2>4 DEF Replaced
  <2> HIDE DEF a, b
  <2>8. l \in Seq(Line)
    BY <2>2, BlockBetween
  <2> HIDE DEF l
  <2>9. Replaced(text, bin) \in Text /\ Replaced(text, bin).lines = l
    BY <2>7, <2>8 DEF Text
  <2>10. Replaced(text, bin).open => Len(b) > 0
    <3>1. Replaced(text, bin).open = (text.open /\ j < Len(lines))
      BY <2>7
    <3>2. j < Len(lines) => Len(b) > 0
      BY <2>4, <2>6
    <3> QED
      BY Zenon, <3>1, <3>2
  <2> QED
    BY <1>3, <2>2, <2>3, <2>9, <2>10 DEF l
<1> QED
  BY <1>2, <1>3

LEMMA ReplacedTyped ==
    ASSUME NEW text \in Text, ~Damaged(text.lines), NEW bin \in Bin
    PROVE  Replaced(text, bin) \in Text
BY ReplacedIs

\* The block that setup puts into a file is found there as it was recorded.
LEMMA ReplacedIntact ==
    ASSUME NEW text \in Text, ~Damaged(text.lines), NEW bin \in Bin
    PROVE  BlockIntact(Replaced(text, bin), bin)
<1> DEFINE new == Replaced(text, bin)
<1>1. PICK a \in Seq(Plain), b \in Seq(Plain) :
         /\ new.lines = a \o Block(bin) \o b
         /\ new.open => Len(b) > 0
  BY ReplacedIs
<1> DEFINE lines == a \o Block(bin) \o b
<1>2. /\ lines \in Seq(Line)
      /\ Len(lines) = Len(a) + 3 + Len(b)
      /\ BlockAt(lines, Len(a) + 1, Len(a) + 3)
      /\ SubSeq(lines, Len(a) + 1, Len(a) + 3) = Block(bin)
  BY BlockBetween
<1> HIDE DEF lines, new
<1>3. Len(a) \in Nat /\ Len(b) \in Nat
  OBVIOUS
<1>4. Len(a) + 1 \in DOMAIN lines /\ Len(a) + 3 \in DOMAIN lines
  BY <1>2, <1>3
<1>5. new.lines = lines
  BY <1>1 DEF lines
<1>6. Closed(new, Len(a) + 3)
  BY <1>1, <1>2, <1>3, <1>5 DEF Closed
<1>7. BlockIntact(new, bin)
  BY <1>2, <1>4, <1>5, <1>6 DEF BlockIntact
<1> QED
  BY <1>7 DEF new

LEMMA RemovedTyped ==
    ASSUME NEW text \in Text, NEW bin, BlockIntact(text, bin)
    PROVE  /\ BlockRemoved(text) \in Text
           /\ Outside(text.lines)[1] \in Seq(Plain) /\ Outside(text.lines)[2] \in Seq(Plain)
           /\ BlockRemoved(text).lines = Outside(text.lines)[1] \o Outside(text.lines)[2]
           /\ ~Unmarked(text.lines) /\ ~Damaged(text.lines)
<1> DEFINE lines == text.lines
<1>1. lines \in Seq(Line) /\ text.open \in BOOLEAN
  BY DEF Text
<1>2. PICK i \in DOMAIN lines, j \in DOMAIN lines : BlockAt(lines, i, j)
  BY DEF BlockIntact
<1> DEFINE a == Outside(lines)[1]
           b == Outside(lines)[2]
<1>3. a \in Seq(Plain) /\ b \in Seq(Plain)
  BY <1>1, <1>2, OutsidePlain
<1>4. BlockRemoved(text) = [lines |-> a \o b, open |-> text.open /\ EndOf(lines) < Len(lines)]
  BY DEF BlockRemoved
<1>5. ~Unmarked(lines) /\ ~Damaged(lines)
  BY <1>1, <1>2, BoundsFound
<1> HIDE DEF a, b
<1>6. a \o b \in Seq(Line)
  <2>1. a \in Seq(Line) /\ b \in Seq(Line)
    BY <1>3, PlainIsLines
  <2> QED
    BY <2>1
<1>7. BlockRemoved(text) \in Text /\ BlockRemoved(text).lines = a \o b
  BY <1>4, <1>6 DEF Text
<1> QED
  BY <1>3, <1>5, <1>7 DEF a, b

-----------------------------------------------------------------------------
(***************************************************************************)
(* StartupFile: type correctness                                           *)
(***************************************************************************)
StartupTyped == StartupTypeOK /\ (stage # "none" => plan # NoPlan)

NoText == [lines |-> <<>>, open |-> FALSE]
Original(f) == IF f = Absent THEN NoText ELSE f

LEMMA OriginalTyped ==
    ASSUME NEW f \in Text \cup {Absent}
    PROVE  Original(f) \in Text
<1>1. <<>> \in Seq(Line)
  OBVIOUS
<1> QED
  BY <1>1 DEF Original, NoText, Text

LEMMA StartupInitTyped == StartupInit => StartupTyped
<1> SUFFICES ASSUME StartupInit PROVE StartupTyped
  OBVIOUS
<1>1. Short \subseteq Seq(Line)
  BY FileBounds DEF Short
<1>2. file \in Text \cup {Absent}
  BY <1>1 DEF StartupInit, Text
<1>3. edits \in 0 .. MaxEdits
  BY FileBounds DEF StartupInit
<1>4. /\ record \in Record \cup {NoRecord} /\ plan \in Plan \cup {NoPlan}
      /\ stage = "none" /\ update \in Update \cup {NoUpdate} /\ crossed \in BOOLEAN
  BY DEF StartupInit
<1> QED
  BY <1>2, <1>3, <1>4 DEF StartupTyped, StartupTypeOK

\* One conjunct for each of the steps.
LEMMA StartupCases ==
    ASSUME [StartupNext]_startupVars, NEW P,
           ASSUME NEW bin \in Bin, PlanSetup(bin) PROVE P,
           ApplyProfile => P, ApplyRecord => P, CommitSetup => P, StopSetup => P,
           UndoSetup => P, UndoRefused => P,
           ASSUME NEW release \in {1, 2}, Activate(release) \/ CutOff(release) PROVE P,
           RecoverUpdate => P, Uninstall => P, UserEdits => P,
           UNCHANGED startupVars => P
    PROVE  P
BY DEF StartupNext, SetupStep

\* The block that a ledger records, or none.
Recorded(r) == IF r = NoRecord THEN NoBin ELSE r.block

LEMMA UpdatedIs ==
    ASSUME record \in Record \cup {NoRecord}, NEW release \in {1, 2}
    PROVE  Updated(release) \in Record /\ Recorded(Updated(release)) = Recorded(record)
<1>1. CASE record = NoRecord
  <2>1. Updated(release) = [release |-> release, block |-> NoBin, created |-> FALSE]
    BY <1>1 DEF Updated
  <2>2. Updated(release) \in Record /\ Updated(release).block = NoBin
    BY <2>1 DEF Record
  <2> QED
    BY <1>1, <2>2, NoRecordAssumption DEF Recorded
<1>2. CASE record # NoRecord
  <2>1. record \in Record /\ Updated(release) = [record EXCEPT !.release = release]
    BY <1>2 DEF Updated
  <2>2. Updated(release) \in Record /\ Updated(release).block = record.block
    BY <2>1 DEF Record
  <2> QED
    BY <1>2, <2>2, NoRecordAssumption DEF Recorded
<1> QED
  BY <1>1, <1>2

\* Done or cut off, an update leaves the block that is recorded, and a copy of
\* the ledger from before if anything.
LEMMA ActivateIs ==
    ASSUME StartupTyped, NEW release \in {1, 2}, Activate(release) \/ CutOff(release)
    PROVE  /\ record' \in Record \cup {NoRecord} /\ Recorded(record') = Recorded(record)
           /\ update' # NoUpdate => update' \in Update /\ update'.prior = record
           /\ stage # "profile" /\ UNCHANGED <<file, plan, stage, crossed, edits>>
<1>1. record \in Record \cup {NoRecord}
  BY DEF StartupTyped, StartupTypeOK
<1>2. Updated(release) \in Record /\ Recorded(Updated(release)) = Recorded(record)
  BY <1>1, UpdatedIs
<1>3. stage # "profile" /\ update = NoUpdate /\ UNCHANGED <<file, plan, stage, crossed, edits>>
  BY DEF Activate, CutOff, Starts
<1>4. CASE Activate(release)
  BY <1>2, <1>3, <1>4 DEF Activate
<1>5. CASE CutOff(release)
  <2>1. update' = [prior |-> record, new |-> Updated(release)] /\ record' \in {record, Updated(release)}
    BY <1>5 DEF CutOff
  <2>2. update' \in Update /\ update'.prior = record
    BY <1>1, <1>2, <2>1 DEF Update
  <2> QED
    BY <1>1, <1>2, <1>3, <2>1, <2>2
<1> QED
  BY <1>4, <1>5

LEMMA PlanIs ==
    ASSUME NEW bin \in Bin, StartupTyped, PlanSetup(bin)
    PROVE  /\ Original(file) \in Text /\ ~Damaged(Original(file).lines)
           /\ plan' = [before |-> file, after |-> Replaced(Original(file), bin),
                       recordBefore |-> record,
                       recordAfter |-> IF record = NoRecord THEN NoRecord
                                       ELSE [record EXCEPT !.block = bin,
                                                           !.created = @ \/ file = Absent]]
           /\ plan' \in Plan
<1>1. file \in Text \cup {Absent} /\ record \in Record \cup {NoRecord}
  BY DEF StartupTyped, StartupTypeOK
<1>2. Original(file) \in Text
  BY <1>1, OriginalTyped
<1>3. /\ ~Damaged(Original(file).lines)
      /\ plan' = [before |-> file, after |-> Replaced(Original(file), bin),
                  recordBefore |-> record,
                  recordAfter |-> IF record = NoRecord THEN NoRecord
                                  ELSE [record EXCEPT !.block = bin,
                                                      !.created = @ \/ file = Absent]]
  BY DEF PlanSetup, Original, NoText
<1>4. Replaced(Original(file), bin) \in Text
  BY <1>2, <1>3, ReplacedTyped
<1>5. record # NoRecord => [record EXCEPT !.block = bin, !.created = @ \/ file = Absent] \in Record
  <2> SUFFICES ASSUME record \in Record
               PROVE  [record EXCEPT !.block = bin, !.created = @ \/ file = Absent] \in Record
    BY <1>1
  <2>1. (record.created \/ file = Absent) \in BOOLEAN
    OBVIOUS
  <2> QED
    BY <2>1 DEF Record
<1>6. plan' \in Plan
  BY <1>1, <1>3, <1>4, <1>5 DEF Plan
<1> QED
  BY <1>2, <1>3, <1>6

LEMMA EditTyped ==
    ASSUME StartupTyped, UserEdits
    PROVE  /\ file' \in Text \cup {Absent} /\ edits' \in 0 .. MaxEdits
           /\ edits' # 0 /\ edits' # edits
           /\ UNCHANGED <<record, plan, stage, update, crossed>>
<1>1. file \in Text \cup {Absent} /\ edits \in 0 .. MaxEdits /\ MaxEdits \in Nat
  BY FileBounds DEF StartupTyped, StartupTypeOK
<1>2. ASSUME NEW text, EditFile(text)
      PROVE  /\ file' = text /\ edits' \in 0 .. MaxEdits /\ edits' # 0 /\ edits' # edits
             /\ UNCHANGED <<record, plan, stage, update, crossed>>
  BY <1>1, <1>2 DEF EditFile
<1>3. PICK text : EditFile(text) /\ text \in Text \cup {Absent}
  <2>1. CASE file = Absent
    <3>1. PICK line \in OwnLine \cup {"blank"} : EditFile([lines |-> <<line>>, open |-> FALSE])
      BY <2>1 DEF UserEdits
    <3>2. <<line>> \in Seq(Line)
      BY DEF Line
    <3>3. [lines |-> <<line>>, open |-> FALSE] \in Text
      BY <3>2 DEF Text
    <3> QED
      BY Zenon, <3>1, <3>3
  <2>2. CASE file # Absent
    <3>1. file \in Text
      BY <1>1, <2>2
    <3>2. CASE EditFile(Absent)
      BY <3>2
    <3>3. CASE EditFile([file EXCEPT !.open = ~@ /\ file.lines # <<>>])
      <4>1. [file EXCEPT !.open = ~@ /\ file.lines # <<>>] \in Text
        BY <3>1 DEF Text
      <4> QED
        BY <3>3, <4>1
    <3>4. CASE \E i \in DOMAIN file.lines :
                  EditFile([file EXCEPT !.lines = SubSeq(@, 1, i - 1) \o SubSeq(@, i + 1, Len(@))])
      <4>1. PICK i \in DOMAIN file.lines :
                  EditFile([file EXCEPT !.lines = SubSeq(@, 1, i - 1) \o SubSeq(@, i + 1, Len(@))])
        BY <3>4
      <4>2. file.lines \in Seq(Line)
        BY <3>1 DEF Text
      <4>3. SubSeq(file.lines, 1, i - 1) \in Seq(Line) /\ SubSeq(file.lines, i + 1, Len(file.lines)) \in Seq(Line)
        BY <4>2
      <4>4. SubSeq(file.lines, 1, i - 1) \o SubSeq(file.lines, i + 1, Len(file.lines)) \in Seq(Line)
        BY <4>3
      <4>5. [file EXCEPT !.lines = SubSeq(@, 1, i - 1) \o SubSeq(@, i + 1, Len(@))] \in Text
        BY <3>1, <4>4 DEF Text
      <4> QED
        BY <4>1, <4>5
    <3>5. CASE \E i \in 0 .. Len(file.lines), line \in {"own", "blank", "start", "end"} :
                  EditFile([file EXCEPT !.lines = SubSeq(@, 1, i) \o <<line>> \o SubSeq(@, i + 1, Len(@))])
      <4>1. PICK i \in 0 .. Len(file.lines), line \in {"own", "blank", "start", "end"} :
                  EditFile([file EXCEPT !.lines = SubSeq(@, 1, i) \o <<line>> \o SubSeq(@, i + 1, Len(@))])
        BY <3>5
      <4>2. file.lines \in Seq(Line)
        BY <3>1 DEF Text
      <4>3. SubSeq(file.lines, 1, i) \in Seq(Line) /\ SubSeq(file.lines, i + 1, Len(file.lines)) \in Seq(Line)
        BY <4>2
      <4>4. <<line>> \in Seq(Line)
        BY DEF Line, OwnLine
      <4>5. SubSeq(file.lines, 1, i) \o <<line>> \o SubSeq(file.lines, i + 1, Len(file.lines)) \in Seq(Line)
        BY <4>3, <4>4
      <4>6. [file EXCEPT !.lines = SubSeq(@, 1, i) \o <<line>> \o SubSeq(@, i + 1, Len(@))] \in Text
        BY <3>1, <4>5 DEF Text
      <4> QED
        BY <4>1, <4>6
    <3> QED
      BY <2>2, <3>2, <3>3, <3>4, <3>5 DEF UserEdits
  <2> QED
    BY <2>1, <2>2
<1> QED
  BY <1>2, <1>3

LEMMA StartupStepTyped == StartupTyped /\ [StartupNext]_startupVars => StartupTyped'
<1> SUFFICES ASSUME StartupTyped, [StartupNext]_startupVars PROVE StartupTyped'
  OBVIOUS
<1> USE DEF StartupTyped, StartupTypeOK
<1>1. ASSUME NEW bin \in Bin, PlanSetup(bin) PROVE StartupTyped'
  <2>1. plan' \in Plan /\ plan' # NoPlan
    BY <1>1, PlanIs, NoPlanAssumption
  <2> QED
    BY <1>1, <2>1 DEF PlanSetup
<1>2. plan # NoPlan => /\ plan.before \in Text \cup {Absent} /\ plan.after \in Text
                       /\ plan.recordBefore \in Record \cup {NoRecord}
                       /\ plan.recordAfter \in Record \cup {NoRecord}
  BY DEF Plan
<1>3. ApplyProfile => StartupTyped'
  BY <1>2 DEF ApplyProfile
<1>4. ApplyRecord => StartupTyped'
  BY <1>2 DEF ApplyRecord
<1>5. CommitSetup => StartupTyped'
  BY DEF CommitSetup
<1>6. StopSetup => StartupTyped'
  BY DEF StopSetup
<1>7. plan # NoPlan /\ RollBack => file' \in Text \cup {Absent} /\ record' \in Record \cup {NoRecord}
  BY <1>2 DEF RollBack, PutBack
<1>8. UndoSetup => StartupTyped'
  BY <1>7 DEF UndoSetup, NoteCrossing
<1>9. UndoRefused => StartupTyped'
  BY <1>7 DEF UndoRefused, NoteCrossing
<1>10. ASSUME NEW release \in {1, 2}, Activate(release) \/ CutOff(release) PROVE StartupTyped'
  BY <1>10, ActivateIs
<1>14. RecoverUpdate => StartupTyped'
  BY DEF RecoverUpdate, Update
<1>11. Uninstall => StartupTyped'
  <2> SUFFICES ASSUME Uninstall PROVE StartupTyped'
    OBVIOUS
  <2>1. record.block # NoBin => file \in Text /\ BlockIntact(file, record.block)
    BY DEF Uninstall, Removable
  <2>2. record.block # NoBin => BlockRemoved(file) \in Text
    BY <2>1, RemovedTyped
  <2> QED
    BY <2>2 DEF Uninstall
<1>12. UserEdits => StartupTyped'
  BY EditTyped
<1>13. UNCHANGED startupVars => StartupTyped'
  BY DEF startupVars
<1> QED
  BY <1>1, <1>3, <1>4, <1>5, <1>6, <1>8, <1>9, <1>10, <1>11, <1>12, <1>13, <1>14, StartupCases

\* A startup file stays lines of text, the ledger one block or none, and a setup
\* in progress has its journal, whatever setup, update, uninstall and user do.
THEOREM StartupTypeCorrect == StartupSpec => []StartupTypeOK
<1>1. StartupTyped => StartupTypeOK
  BY DEF StartupTyped
<1> QED
  BY <1>1, StartupInitTyped, StartupStepTyped, PTL DEF StartupSpec

-----------------------------------------------------------------------------
(***************************************************************************)
(* StartupFile: what the ledger records is there                           *)
(***************************************************************************)
Fits(f, r) == Recorded(r) # NoBin => f # Absent /\ BlockIntact(f, Recorded(r))

\* The file and the ledger fit together when no setup is pending; the versions
\* before and after a pending one do, and the file is one of its two.  The
\* ledger need not be: an update changes it, but neither its block nor, for a
\* setup that had no ledger to list, a block that there is none of.
Fitting ==
    /\ plan = NoPlan => Fits(file, record)
    /\ plan # NoPlan =>
          /\ Fits(plan.before, plan.recordBefore) /\ Fits(plan.after, plan.recordAfter)
          /\ file \in {plan.before, plan.after}
          /\ plan.recordBefore = NoRecord => Recorded(record) = NoBin

\* The copy that an update has left behind records the same block as the ledger,
\* so that it may be put back at any time: setup writes another block only where
\* there is no such copy, and its rollback is what `crossed` speaks of.
CopyCurrent ==
    /\ update # NoUpdate => Recorded(update.prior) = Recorded(record)
    /\ stage = "profile" /\ plan.recordBefore # NoRecord => update = NoUpdate

Matching == edits = 0 /\ ~crossed => Fitting /\ CopyCurrent
MatchInv == StartupTyped /\ Matching

LEMMA MatchInit == StartupInit => MatchInv
BY StartupInitTyped DEF MatchInv, Matching, Fitting, CopyCurrent, Fits, Recorded, StartupInit

\* Whatever the rollback finds, it leaves one of the plan's versions of the file
\* and, if it accepts both targets, the version before of both.
LEMMA RollBackLeaves ==
    ASSUME Fitting, plan # NoPlan, RollBack
    PROVE  /\ file' = plan.before
           /\ plan.recordBefore = NoRecord => record' = record
           /\ BothAccepted /\ plan.recordBefore # NoRecord => record' = plan.recordBefore
<1>1. file \in {plan.before, plan.after}
  BY DEF Fitting
<1>2. file' = plan.before
  BY <1>1 DEF RollBack, PutBack, ProfileListed
<1>3. plan.recordBefore = NoRecord => record' = record
  BY DEF RollBack, RecordListed
<1>4. BothAccepted /\ plan.recordBefore # NoRecord => record' = plan.recordBefore
  BY DEF RollBack, RecordListed, BothAccepted, Accepted, PutBack
<1> QED
  BY <1>2, <1>3, <1>4

\* As long as the ledger's block stays, so does what concerns file and ledger.
LEMMA FittingKept ==
    ASSUME Fitting, UNCHANGED <<file, plan>>, Recorded(record') = Recorded(record)
    PROVE  Fitting'
BY DEF Fitting, Fits

LEMMA MatchStep == MatchInv /\ [StartupNext]_startupVars => MatchInv'
<1> SUFFICES ASSUME MatchInv, [StartupNext]_startupVars PROVE MatchInv'
  OBVIOUS
<1>1. StartupTyped' /\ StartupTyped
  BY StartupStepTyped DEF MatchInv
<1>2. edits = 0 /\ ~crossed => Fitting /\ CopyCurrent
  BY DEF MatchInv, Matching
<1>3. record # NoRecord => record \in Record
  BY <1>1 DEF StartupTyped, StartupTypeOK
<1>4. ASSUME NEW bin \in Bin, PlanSetup(bin) PROVE Matching'
  <2> SUFFICES ASSUME edits = 0, ~crossed PROVE Fitting' /\ CopyCurrent'
    BY <1>4 DEF PlanSetup, Matching
  <2>1. /\ Original(file) \in Text /\ ~Damaged(Original(file).lines)
        /\ plan' = [before |-> file, after |-> Replaced(Original(file), bin),
                    recordBefore |-> record,
                    recordAfter |-> IF record = NoRecord THEN NoRecord
                                    ELSE [record EXCEPT !.block = bin,
                                                        !.created = @ \/ file = Absent]]
        /\ plan' \in Plan
    BY <1>1, <1>4, PlanIs
  <2>2. plan = NoPlan /\ plan' # NoPlan /\ UNCHANGED <<file, record, update>> /\ stage' = "planned"
    BY <1>4, <2>1, NoPlanAssumption DEF PlanSetup
  <2>3. plan'.before = file /\ plan'.recordBefore = record /\ plan'.after = Replaced(Original(file), bin)
    BY <2>1
  <2>4. Fits(plan'.before, plan'.recordBefore)
    BY <1>2, <2>2, <2>3 DEF Fitting
  <2>5. plan'.recordAfter # NoRecord => plan'.recordAfter.block = bin
    BY <2>1, <1>3 DEF Record
  <2>6. plan'.after # Absent /\ BlockIntact(plan'.after, bin)
    BY <2>1, <2>3, ReplacedIntact, ReplacedTyped, AbsentAssumption
  <2>7. Fits(plan'.after, plan'.recordAfter)
    BY <2>5, <2>6 DEF Fits, Recorded
  <2>8. Fitting'
    BY <2>2, <2>3, <2>4, <2>7 DEF Fitting, Recorded
  <2> QED
    BY <1>2, <2>2, <2>8 DEF CopyCurrent
<1>5. ApplyProfile => Matching'
  <2> SUFFICES ASSUME ApplyProfile, edits = 0, ~crossed PROVE Fitting' /\ CopyCurrent'
    BY DEF ApplyProfile, Matching
  <2>1. plan # NoPlan /\ file' = plan.after /\ UNCHANGED <<record, plan, update>>
    BY <1>1 DEF ApplyProfile, StartupTyped
  <2>2. plan.recordBefore # NoRecord => update = NoUpdate
    BY DEF ApplyProfile, RecordListed
  <2> QED
    BY <1>2, <2>1, <2>2 DEF Fitting, CopyCurrent
<1>6. ApplyRecord => Matching'
  <2> SUFFICES ASSUME ApplyRecord, edits = 0, ~crossed PROVE Fitting' /\ CopyCurrent'
    BY DEF ApplyRecord, Matching
  <2>1. /\ plan # NoPlan /\ stage = "profile" /\ stage' = "applied"
        /\ UNCHANGED <<file, plan, update>>
    BY <1>1 DEF ApplyRecord, StartupTyped
  <2>2. plan.recordBefore = NoRecord => record' = record
    BY DEF ApplyRecord, RecordListed
  <2>3. plan.recordBefore # NoRecord => update = NoUpdate
    BY <1>2, <2>1 DEF CopyCurrent
  <2> QED
    BY <1>2, <2>1, <2>2, <2>3 DEF Fitting, CopyCurrent
<1>7. CommitSetup => Matching'
  <2> SUFFICES ASSUME CommitSetup, edits = 0, ~crossed PROVE Fitting' /\ CopyCurrent'
    BY DEF CommitSetup, Matching
  <2>1. plan # NoPlan /\ plan' = NoPlan /\ UNCHANGED <<file, record, update>> /\ stage' = "none"
    BY <1>1 DEF CommitSetup, StartupTyped
  <2>2. file = plan.after
    BY <1>2, <2>1 DEF CommitSetup, ProfileListed, Fitting
  <2>3. plan.recordBefore # NoRecord => record = plan.recordAfter
    BY DEF CommitSetup, RecordListed
  <2>4. Fits(file, record)
    BY <1>2, <2>1, <2>2, <2>3 DEF Fitting, Fits
  <2> QED
    BY <1>2, <2>1, <2>4 DEF Fitting, CopyCurrent
<1>8. StopSetup => Matching'
  <2> SUFFICES ASSUME StopSetup, edits = 0, ~crossed PROVE Fitting' /\ CopyCurrent'
    BY DEF StopSetup, Matching
  <2> QED
    BY <1>2 DEF StopSetup, Fitting, CopyCurrent
<1>9. UndoSetup => Matching'
  <2> SUFFICES ASSUME UndoSetup, edits = 0, ~crossed' PROVE Fitting' /\ CopyCurrent'
    BY DEF UndoSetup, Matching
  <2>1. /\ plan # NoPlan /\ plan' = NoPlan /\ RollBack /\ BothAccepted
        /\ UNCHANGED <<stage, update>> /\ stage = "none"
        /\ ~crossed /\ (update = NoUpdate \/ record' = record)
    BY DEF UndoSetup, NoteCrossing
  <2>2. file' = plan.before /\ (plan.recordBefore = NoRecord => record' = record)
        /\ (plan.recordBefore # NoRecord => record' = plan.recordBefore)
    BY <1>2, <2>1, RollBackLeaves
  <2>3. Fits(file', record')
    BY <1>2, <2>1, <2>2 DEF Fitting, Fits
  <2> QED
    BY <1>2, <2>1, <2>3 DEF Fitting, CopyCurrent
<1>10. UndoRefused => Matching'
  <2> SUFFICES ASSUME UndoRefused, edits = 0, ~crossed' PROVE Fitting' /\ CopyCurrent'
    BY DEF UndoRefused, Matching
  <2>1. /\ plan # NoPlan /\ plan' = plan /\ RollBack
        /\ UNCHANGED <<stage, update>> /\ stage = "none"
        /\ ~crossed /\ (update = NoUpdate \/ record' = record)
    BY DEF UndoRefused, NoteCrossing
  <2>2. file' = plan.before /\ (plan.recordBefore = NoRecord => record' = record)
    BY <1>2, <2>1, RollBackLeaves
  <2> QED
    BY <1>2, <2>1, <2>2 DEF Fitting, CopyCurrent
<1>11. ASSUME NEW release \in {1, 2}, Activate(release) \/ CutOff(release) PROVE Matching'
  <2>1. /\ Recorded(record') = Recorded(record)
        /\ update' # NoUpdate => update'.prior = record
        /\ stage # "profile" /\ UNCHANGED <<file, plan, stage, crossed, edits>>
    BY <1>1, <1>11, ActivateIs
  <2> SUFFICES ASSUME edits = 0, ~crossed PROVE Fitting' /\ CopyCurrent'
    BY <2>1 DEF Matching
  <2>2. Fitting'
    BY <1>2, <2>1, FittingKept
  <2> QED
    BY <2>1, <2>2 DEF CopyCurrent
<1>12. RecoverUpdate => Matching'
  <2> SUFFICES ASSUME RecoverUpdate, edits = 0, ~crossed PROVE Fitting' /\ CopyCurrent'
    BY DEF RecoverUpdate, Matching
  <2>1. /\ update # NoUpdate /\ update' = NoUpdate /\ record' \in {record, update.prior}
        /\ stage # "profile" /\ UNCHANGED <<file, plan, stage>>
    BY DEF RecoverUpdate
  <2>2. Recorded(record') = Recorded(record)
    BY <1>2, <2>1 DEF CopyCurrent
  <2>3. Fitting'
    BY <1>2, <2>1, <2>2, FittingKept
  <2> QED
    BY <2>1, <2>3 DEF CopyCurrent
<1>13. Uninstall => Matching'
  <2> SUFFICES ASSUME Uninstall PROVE Fitting' /\ CopyCurrent'
    BY DEF Matching
  <2>1. /\ plan = NoPlan /\ plan' = NoPlan /\ update' = NoUpdate /\ stage' = "none"
        /\ Recorded(record') = NoBin
    BY DEF Uninstall, Recorded
  <2> QED
    BY <2>1 DEF Fitting, CopyCurrent, Fits
<1>14. UserEdits => Matching'
  BY <1>1, EditTyped DEF Matching
<1>15. UNCHANGED startupVars => Matching'
  BY <1>2 DEF startupVars, Matching, Fitting, CopyCurrent
<1>16. Matching'
  BY <1>4, <1>5, <1>6, <1>7, <1>8, <1>9, <1>10, <1>11, <1>12, <1>13, <1>14, <1>15, StartupCases
<1> QED
  BY <1>1, <1>16 DEF MatchInv

\* As long as nobody edits the startup file, the block that the ledger records is
\* in it whenever no setup is pending, through any number of setups, failed,
\* interrupted and rolled back ones included, and updates between their steps,
\* done, or cut off and recovered at any later time: but not where a setup is
\* undone in the ledger while the journal of a cut-off update still waits.
THEOREM BlockAsRecorded == StartupSpec => []RecordMatches
<1>1. MatchInv => RecordMatches
  BY DEF MatchInv, Matching, Fitting, Fits, Recorded, RecordMatches
<1> QED
  BY <1>1, MatchInit, MatchStep, PTL DEF StartupSpec

-----------------------------------------------------------------------------
(***************************************************************************)
(* StartupFile: the user's lines                                           *)
(***************************************************************************)
LEMMA UserLinesOfPlain ==
    ASSUME NEW text \in Text, Unmarked(text.lines)
    PROVE  UserLines(text) = Without(text.lines, Line \ OwnLine)
BY AbsentAssumption DEF UserLines

LEMMA UserLinesOfMarked ==
    ASSUME NEW text \in Text, ~Unmarked(text.lines), ~Damaged(text.lines)
    PROVE  UserLines(text)
             = Without(Outside(text.lines)[1] \o Outside(text.lines)[2], Line \ OwnLine)
BY AbsentAssumption DEF UserLines

LEMMA UserLinesOfReplaced ==
    ASSUME NEW text \in Text, ~Damaged(text.lines), NEW bin \in Bin
    PROVE  UserLines(Replaced(text, bin)) = UserLines(text)
<1> DEFINE new == Replaced(text, bin)
<1>1. PICK a \in Seq(Plain), b \in Seq(Plain) :
         /\ IF Unmarked(text.lines) THEN a = text.lines /\ b = <<>> ELSE Outside(text.lines) = <<a, b>>
         /\ new.lines = a \o Block(bin) \o b
         /\ new \in Text
  BY ReplacedIs
<1> DEFINE lines == a \o Block(bin) \o b
<1>2. /\ lines \in Seq(Line)
      /\ Len(lines) = Len(a) + 3 + Len(b)
      /\ BlockAt(lines, Len(a) + 1, Len(a) + 3)
      /\ Outside(lines) = <<a, b>>
  BY BlockBetween
<1> HIDE DEF lines, new
<1>3. new.lines = lines
  BY <1>1 DEF lines
<1>4. ~Unmarked(lines) /\ ~Damaged(lines)
  <2>1. Len(a) \in Nat /\ Len(b) \in Nat
    OBVIOUS
  <2>2. Len(a) + 1 \in DOMAIN lines /\ Len(a) + 3 \in DOMAIN lines
    BY <1>2, <2>1
  <2> QED
    BY <1>2, <2>2, BoundsFound
<1>5. UserLines(new) = Without(a \o b, Line \ OwnLine)
  <2>1. Outside(new.lines)[1] = a /\ Outside(new.lines)[2] = b
    BY <1>2, <1>3
  <2>2. UserLines(new) = Without(Outside(new.lines)[1] \o Outside(new.lines)[2], Line \ OwnLine)
    BY <1>1, <1>3, <1>4, UserLinesOfMarked
  <2> QED
    BY <2>1, <2>2
<1>6. CASE Unmarked(text.lines)
  <2>1. a \o b = text.lines
    BY <1>1, <1>6
  <2> QED
    BY <1>5, <1>6, <2>1, UserLinesOfPlain DEF new
<1>7. CASE ~Unmarked(text.lines)
  <2>1. Outside(text.lines)[1] = a /\ Outside(text.lines)[2] = b
    BY <1>1, <1>7
  <2>2. UserLines(text) = Without(Outside(text.lines)[1] \o Outside(text.lines)[2], Line \ OwnLine)
    BY <1>7, UserLinesOfMarked
  <2> QED
    BY <1>5, <2>1, <2>2 DEF new
<1> QED
  BY <1>6, <1>7

LEMMA UserLinesOfNothing == UserLines(Absent) = <<>> /\ UserLines(NoText) = <<>>
<1>1. NoText \in Text /\ NoText.lines = <<>>
  <2>1. <<>> \in Seq(Line)
    OBVIOUS
  <2> QED
    BY <2>1 DEF NoText, Text
<1>2. Unmarked(<<>>)
  BY DEF Unmarked, Marks
<1>3. UserLines(NoText) = Without(<<>>, Line \ OwnLine)
  BY <1>1, <1>2, UserLinesOfPlain
<1> QED
  BY <1>3, FilterEmpty DEF UserLines

LEMMA UserLinesOfRemoved ==
    ASSUME NEW text \in Text, NEW bin, BlockIntact(text, bin)
    PROVE  /\ UserLines(BlockRemoved(text)) = UserLines(text)
           /\ Blank(BlockRemoved(text).lines) => UserLines(text) = <<>>
<1> DEFINE new == BlockRemoved(text)
           ab == Outside(text.lines)[1] \o Outside(text.lines)[2]
<1>1. /\ new \in Text /\ new.lines = ab
      /\ Outside(text.lines)[1] \in Seq(Plain) /\ Outside(text.lines)[2] \in Seq(Plain)
      /\ ~Unmarked(text.lines) /\ ~Damaged(text.lines)
  BY RemovedTyped
<1>2. UserLines(text) = Without(ab, Line \ OwnLine)
  BY <1>1, UserLinesOfMarked
<1>3. ab \in Seq(Plain)
  BY <1>1
<1> HIDE DEF new, ab
<1>4. Unmarked(new.lines)
  BY <1>1, <1>3, PlainUnmarked
<1>5. UserLines(new) = Without(ab, Line \ OwnLine)
  BY <1>1, <1>4, UserLinesOfPlain
<1>6. ASSUME Blank(new.lines) PROVE Without(ab, Line \ OwnLine) = <<>>
  <2>1. \A i \in DOMAIN ab : ab[i] \in Line \ OwnLine
    <3>1. \A i \in DOMAIN ab : ab[i] = "blank"
      BY <1>1, <1>6 DEF Blank
    <3>2. "blank" \in Line \ OwnLine
      BY PlainLines DEF Line
    <3> QED
      BY <3>1, <3>2
  <2> QED
    BY <1>3, <2>1, FilterDrops
<1> QED
  BY <1>2, <1>5, <1>6 DEF new

\* A pending setup's versions of the file hold the same lines of the user's.
KeepsLines == plan # NoPlan => UserLines(plan.after) = UserLines(plan.before)
KeptInv == StartupTyped /\ KeepsLines

LEMMA KeptInit == StartupInit => KeptInv
BY StartupInitTyped DEF KeptInv, KeepsLines, StartupInit

LEMMA KeptStep == KeptInv /\ [StartupNext]_startupVars => KeptInv'
<1> SUFFICES ASSUME KeptInv, [StartupNext]_startupVars PROVE KeptInv'
  OBVIOUS
<1>1. StartupTyped /\ StartupTyped' /\ KeepsLines
  BY StartupStepTyped DEF KeptInv
<1>2. ASSUME NEW bin \in Bin, PlanSetup(bin) PROVE KeepsLines'
  <2>1. /\ Original(file) \in Text /\ ~Damaged(Original(file).lines)
        /\ plan' = [before |-> file, after |-> Replaced(Original(file), bin),
                    recordBefore |-> record,
                    recordAfter |-> IF record = NoRecord THEN NoRecord
                                    ELSE [record EXCEPT !.block = bin,
                                                        !.created = @ \/ file = Absent]]
    BY <1>1, <1>2, PlanIs
  <2>2. UserLines(Original(file)) = UserLines(file)
    BY UserLinesOfNothing DEF Original
  <2>3. plan'.before = file /\ plan'.after = Replaced(Original(file), bin)
    BY <2>1
  <2>4. UserLines(plan'.after) = UserLines(plan'.before)
    BY <2>1, <2>2, <2>3, UserLinesOfReplaced
  <2> QED
    BY <2>4 DEF KeepsLines
<1>3. plan' = plan \/ plan' = NoPlan => KeepsLines'
  BY <1>1 DEF KeepsLines
<1>4. ApplyProfile \/ ApplyRecord \/ CommitSetup \/ StopSetup \/ UndoSetup \/ UndoRefused
         => plan' = plan \/ plan' = NoPlan
  BY DEF ApplyProfile, ApplyRecord, CommitSetup, StopSetup, UndoSetup, UndoRefused
<1>5. \A release \in {1, 2} : Activate(release) \/ CutOff(release) => plan' = plan
  BY DEF Activate, CutOff, Starts
<1>6. Uninstall \/ RecoverUpdate \/ UNCHANGED startupVars => plan' = plan
  BY DEF Uninstall, RecoverUpdate, startupVars
<1>7. UserEdits => plan' = plan
  BY <1>1, EditTyped
<1>8. KeepsLines'
  BY <1>2, <1>3, <1>4, <1>5, <1>6, <1>7, StartupCases
<1> QED
  BY <1>1, <1>8 DEF KeptInv

LinesKept == edits' = edits /\ file # Absent => UserLines(file') = UserLines(file)

LEMMA LinesKeptStep == KeptInv /\ [StartupNext]_startupVars => LinesKept
<1> SUFFICES ASSUME KeptInv, [StartupNext]_startupVars, edits' = edits, file # Absent
             PROVE  UserLines(file') = UserLines(file)
  BY DEF LinesKept
<1> DEFINE Same == UserLines(file') = UserLines(file)
<1>1. StartupTyped /\ KeepsLines
  BY DEF KeptInv
<1>2. file \in Text
  BY <1>1 DEF StartupTyped, StartupTypeOK
<1>3. file' = file => Same
  OBVIOUS
<1>4. ASSUME NEW bin \in Bin, PlanSetup(bin) PROVE Same
  BY <1>4 DEF PlanSetup
<1>5. ApplyProfile => Same
  BY <1>1 DEF ApplyProfile, StartupTyped, KeepsLines
<1>6. ApplyRecord \/ CommitSetup \/ StopSetup => file' = file
  BY DEF ApplyRecord, CommitSetup, StopSetup
<1>7. plan # NoPlan /\ RollBack => Same
  BY <1>1 DEF RollBack, PutBack, KeepsLines
<1>8. UndoSetup \/ UndoRefused => plan # NoPlan /\ RollBack
  BY DEF UndoSetup, UndoRefused
<1>9. ASSUME NEW release \in {1, 2}, Activate(release) \/ CutOff(release) PROVE Same
  BY <1>9 DEF Activate, CutOff, Starts
<1>10. Uninstall => Same
  <2> SUFFICES ASSUME Uninstall PROVE Same
    OBVIOUS
  <2>1. CASE record.block = NoBin
    BY <2>1 DEF Uninstall
  <2>2. CASE record.block # NoBin
    <3>1. BlockIntact(file, record.block)
      BY <2>2 DEF Uninstall, Removable
    <3>2. /\ UserLines(BlockRemoved(file)) = UserLines(file)
          /\ Blank(BlockRemoved(file).lines) => UserLines(file) = <<>>
      BY <1>2, <3>1, UserLinesOfRemoved
    <3>3. file' = BlockRemoved(file) \/ (file' = Absent /\ Blank(BlockRemoved(file).lines))
      BY <2>2 DEF Uninstall
    <3> QED
      BY <3>2, <3>3, UserLinesOfNothing
  <2> QED
    BY <2>1, <2>2
<1>11. ~UserEdits
  BY <1>1, EditTyped
<1>12. UNCHANGED startupVars \/ RecoverUpdate => Same
  BY DEF startupVars, RecoverUpdate
<1> QED
  BY <1>3, <1>4, <1>5, <1>6, <1>7, <1>8, <1>9, <1>10, <1>11, <1>12, StartupCases

\* No step of setup, its recovery, an update or uninstall changes, drops, adds or
\* reorders the user's lines: blocks go in, are exchanged and come out, and only a
\* file without such a line is deleted, whatever the user edits in between.
THEOREM UserLinesSurvive == StartupSpec => UserTextKept
<1>1. KeptInv /\ [StartupNext]_startupVars
         => [edits' = edits /\ file # Absent => UserLines(file') = UserLines(file)]_startupVars
  BY LinesKeptStep DEF LinesKept
<1> QED
  BY <1>1, KeptInit, KeptStep, PTL DEF StartupSpec, UserTextKept

-----------------------------------------------------------------------------
(***************************************************************************)
(* ProxyConfig: type correctness                                           *)
(***************************************************************************)
Key == ManagedKey \cup {"placeholder", "own"}
Entry == [alias : Alias, right : BOOLEAN]
TheirEntry == Entry \ [alias : Required, right : BOOLEAN]

Managing ==
    \/ managing = NotManaging
    \/ /\ managing.pc \in {"prepared", "listed", "applied"}
       /\ managing.key \in ManagedKey /\ managing.updated \in Config
       /\ managing.pc # "prepared" => managing.before \in Config
ProxyTyped ==
    /\ config \in Config /\ credential \in ManagedKey \cup {NoKey}
    /\ minted \subseteq ManagedKey /\ Managing

LEMMA ConfigFields ==
    ASSUME NEW c \in Config
    PROVE  /\ c.plain \in BOOLEAN /\ c.listen \in {"ours", "other"}
           /\ c.authDir \in {"none", "ours", "theirs"}
           /\ c.keys \in Seq(Key) /\ c.aliases \in Seq(Entry)
BY DEF Config, Key, Entry

LEMMA RightAliasesTyped == RightAliases \in Seq(Entry) /\ Len(RightAliases) = Aliases
<1>1. \A i \in 1 .. Aliases : [alias |-> i, right |-> TRUE] \in Entry
  <2> TAKE i \in 1 .. Aliases
  <2>1. i \in Alias
    BY ProxyBounds DEF Alias
  <2> QED
    BY <2>1 DEF Entry
<1>2. RightAliases \in [1 .. Aliases -> Entry]
  <2> DEFINE E == Entry
  <2>1. \A i \in 1 .. Aliases : [alias |-> i, right |-> TRUE] \in E
    BY <1>1
  <2> HIDE DEF E
  <2>2. [i \in 1 .. Aliases |-> [alias |-> i, right |-> TRUE]] \in [1 .. Aliases -> E]
    BY <2>1
  <2> QED
    BY <2>2 DEF RightAliases, Required, E
<1>3. Aliases \in Nat
  BY ProxyBounds
<1> HIDE DEF RightAliases
<1> QED
  BY <1>2, <1>3

\* What the loops of mutateProxyYAML keep is what is the user's, no placeholder
\* and no required alias.
LEMMA TheirsTyped ==
    ASSUME NEW c \in Config, NEW key \in ManagedKey
    PROVE  /\ TheirKeys(c, key) \in Seq(Key \ {"placeholder", key})
           /\ TheirKeys(c, key) \in Seq(Key)
           /\ TheirAliases(c) \in Seq(TheirEntry) /\ TheirAliases(c) \in Seq(Entry)
<1>1. c.keys \in Seq(Key) /\ c.aliases \in Seq(Entry)
  BY ConfigFields
<1>2. TheirKeys(c, key) \in Seq(Key \ {"placeholder", key})
  BY <1>1, FilterType DEF TheirKeys
<1>3. TheirAliases(c) \in Seq(TheirEntry)
  BY <1>1, FilterType DEF TheirAliases, TheirEntry
<1>4. TheirKeys(c, key) \in Seq(Key)
  BY <1>2
<1>5. TheirAliases(c) \in Seq(Entry)
  BY <1>3 DEF TheirEntry
<1> QED
  BY <1>2, <1>3, <1>4, <1>5

LEMMA MutatedIs ==
    ASSUME NEW c \in Config, NEW key \in ManagedKey
    PROVE  LET m == Mutated(c, key)
           IN  /\ m \in Config
               /\ m.plain = c.plain /\ m.listen = "ours"
               /\ m.authDir = IF c.authDir = "none" THEN "ours" ELSE c.authDir
               /\ m.keys = Append(TheirKeys(c, key), key)
               /\ m.aliases = TheirAliases(c) \o RightAliases
<1> DEFINE keys == Append(TheirKeys(c, key), key)
           aliases == TheirAliases(c) \o RightAliases
           authDir == IF c.authDir = "none" THEN "ours" ELSE c.authDir
<1>1. keys \in Seq(Key)
  <2>1. TheirKeys(c, key) \in Seq(Key) /\ key \in Key
    BY TheirsTyped DEF Key
  <2> QED
    BY <2>1
<1>2. aliases \in Seq(Entry)
  <2>1. TheirAliases(c) \in Seq(Entry) /\ RightAliases \in Seq(Entry)
    BY TheirsTyped, RightAliasesTyped
  <2> QED
    BY <2>1
<1>3. authDir \in {"none", "ours", "theirs"}
  BY ConfigFields
<1>4. Mutated(c, key) = [c EXCEPT !.listen = "ours", !.authDir = authDir,
                                  !.keys = keys, !.aliases = aliases]
  BY DEF Mutated, Config
<1> HIDE DEF keys, aliases, authDir
<1>5. LET m == Mutated(c, key)
      IN  /\ m \in Config
          /\ m.plain = c.plain /\ m.listen = "ours" /\ m.authDir = authDir
          /\ m.keys = keys /\ m.aliases = aliases
  BY <1>1, <1>2, <1>3, <1>4 DEF Config, Key, Entry
<1> QED
  BY <1>5 DEF keys, aliases, authDir

LEMMA ProxyInitTyped == ProxyInit => ProxyTyped
<1> SUFFICES ASSUME ProxyInit PROVE ProxyTyped
  OBVIOUS
<1>1. <<"placeholder", "own">> \in Seq(Key) /\ <<>> \in Seq(Entry)
  BY DEF Key
<1>2. config \in Config
  BY <1>1 DEF ProxyInit, Config, Key, Entry
<1> QED
  BY <1>2 DEF ProxyInit, ProxyTyped, Managing

LEMMA ChangesTyped ==
    ASSUME ProxyTyped, Changes
    PROVE  config' \in Config /\ UNCHANGED <<credential, managing, minted>>
<1>1. config \in Config
  BY DEF ProxyTyped
<1>2. /\ config.plain \in BOOLEAN /\ config.keys \in Seq(Key) /\ config.aliases \in Seq(Entry)
  BY <1>1, ConfigFields
<1>3. ASSUME NEW c \in Config, ChangeProxy(c)
      PROVE  config' \in Config /\ UNCHANGED <<credential, managing, minted>>
  BY <1>3 DEF ChangeProxy
<1>4. CASE \E listen \in {"ours", "other"} : ChangeProxy([config EXCEPT !.listen = listen])
  <2>1. PICK listen \in {"ours", "other"} : ChangeProxy([config EXCEPT !.listen = listen])
    BY <1>4
  <2>2. [config EXCEPT !.listen = listen] \in Config
    BY <1>1 DEF Config
  <2> QED
    BY <1>3, <2>1, <2>2
<1>5. CASE ChangeProxy([config EXCEPT !.plain = ~@])
  <2>1. [config EXCEPT !.plain = ~@] \in Config
    BY <1>1 DEF Config
  <2> QED
    BY <1>3, <1>5, <2>1
<1>6. CASE ChangeProxy([config EXCEPT !.authDir = "none"])
  <2>1. [config EXCEPT !.authDir = "none"] \in Config
    BY <1>1 DEF Config
  <2> QED
    BY <1>3, <1>6, <2>1
<1>7. CASE \E key \in minted \cup {"placeholder", "own"} :
              ChangeProxy([config EXCEPT !.keys = Append(@, key)])
  <2>1. PICK key \in minted \cup {"placeholder", "own"} :
              ChangeProxy([config EXCEPT !.keys = Append(@, key)])
    BY <1>7
  <2> DEFINE keys == Append(config.keys, key)
  <2>2. keys \in Seq(Key)
    <3>1. key \in Key
      BY DEF ProxyTyped, Key
    <3> QED
      BY <1>2, <3>1
  <2>3. ChangeProxy([config EXCEPT !.keys = keys])
    BY <2>1
  <2> HIDE DEF keys
  <2>4. [config EXCEPT !.keys = keys] \in Config
    BY <1>1, <2>2 DEF Config, Key
  <2> QED
    BY <1>3, <2>3, <2>4
<1>8. CASE \E i \in DOMAIN config.keys :
              ChangeProxy([config EXCEPT !.keys = SubSeq(@, 1, i - 1) \o SubSeq(@, i + 1, Len(@))])
  <2>1. PICK i \in DOMAIN config.keys :
              ChangeProxy([config EXCEPT !.keys = SubSeq(@, 1, i - 1) \o SubSeq(@, i + 1, Len(@))])
    BY <1>8
  <2> DEFINE keys == SubSeq(config.keys, 1, i - 1) \o SubSeq(config.keys, i + 1, Len(config.keys))
  <2>2. SubSeq(config.keys, 1, i - 1) \in Seq(Key) /\ SubSeq(config.keys, i + 1, Len(config.keys)) \in Seq(Key)
    BY <1>2
  <2>3. keys \in Seq(Key)
    BY <2>2
  <2>4. ChangeProxy([config EXCEPT !.keys = keys])
    BY <2>1
  <2> HIDE DEF keys
  <2>5. [config EXCEPT !.keys = keys] \in Config
    BY <1>1, <2>3 DEF Config, Key
  <2> QED
    BY <1>3, <2>4, <2>5
<1>9. CASE \E i \in DOMAIN config.aliases :
              ChangeProxy([config EXCEPT !.aliases = SubSeq(@, 1, i - 1) \o SubSeq(@, i + 1, Len(@))])
  <2>1. PICK i \in DOMAIN config.aliases :
              ChangeProxy([config EXCEPT !.aliases = SubSeq(@, 1, i - 1) \o SubSeq(@, i + 1, Len(@))])
    BY <1>9
  <2> DEFINE aliases == SubSeq(config.aliases, 1, i - 1)
                           \o SubSeq(config.aliases, i + 1, Len(config.aliases))
  <2>2. /\ SubSeq(config.aliases, 1, i - 1) \in Seq(Entry)
        /\ SubSeq(config.aliases, i + 1, Len(config.aliases)) \in Seq(Entry)
    BY <1>2
  <2>3. aliases \in Seq(Entry)
    BY <2>2
  <2>4. ChangeProxy([config EXCEPT !.aliases = aliases])
    BY <2>1
  <2> HIDE DEF aliases
  <2>5. [config EXCEPT !.aliases = aliases] \in Config
    BY <1>1, <2>3 DEF Config, Entry
  <2> QED
    BY <1>3, <2>4, <2>5
<1>10. CASE \E alias \in Alias :
              ChangeProxy([config EXCEPT !.aliases = <<[alias |-> alias, right |-> FALSE]>> \o @])
  <2>1. PICK alias \in Alias :
              ChangeProxy([config EXCEPT !.aliases = <<[alias |-> alias, right |-> FALSE]>> \o @])
    BY <1>10
  <2> DEFINE aliases == <<[alias |-> alias, right |-> FALSE]>> \o config.aliases
  <2>2. <<[alias |-> alias, right |-> FALSE]>> \in Seq(Entry)
    BY DEF Entry
  <2>3. aliases \in Seq(Entry)
    BY <1>2, <2>2
  <2>4. ChangeProxy([config EXCEPT !.aliases = aliases])
    BY <2>1
  <2> HIDE DEF aliases
  <2>5. [config EXCEPT !.aliases = aliases] \in Config
    BY <1>1, <2>3 DEF Config, Entry
  <2> QED
    BY <1>3, <2>4, <2>5
<1> QED
  BY <1>4, <1>5, <1>6, <1>7, <1>8, <1>9, <1>10 DEF Changes

LEMMA ProxyStepTyped == ProxyTyped /\ [ProxyNext]_proxyVars => ProxyTyped'
<1> SUFFICES ASSUME ProxyTyped, [ProxyNext]_proxyVars PROVE ProxyTyped'
  OBVIOUS
<1> USE DEF ProxyTyped
<1>1. PrepareProxy => ProxyTyped'
  <2> SUFFICES ASSUME PrepareProxy PROVE ProxyTyped'
    OBVIOUS
  <2>1. PICK key \in IF credential = NoKey THEN ManagedKey \ minted ELSE {credential} :
           /\ minted' = minted \cup {key}
           /\ managing' = [pc |-> "prepared", key |-> key, updated |-> Mutated(config, key)]
    BY DEF PrepareProxy
  <2>2. key \in ManagedKey
    BY <2>1
  <2>3. Mutated(config, key) \in Config
    BY <2>2, MutatedIs
  <2>4. Managing'
    BY <2>1, <2>2, <2>3 DEF Managing
  <2> QED
    BY <2>1, <2>2, <2>4 DEF PrepareProxy
<1>2. RefuseProxy => ProxyTyped'
  BY DEF RefuseProxy, proxyVars, Managing
<1>3. SnapshotProxy => ProxyTyped'
  BY DEF SnapshotProxy, Managing, NotManaging
<1>4. ApplyProxy => ProxyTyped'
  BY DEF ApplyProxy, Managing, NotManaging
<1>5. CommitProxy => ProxyTyped'
  BY DEF CommitProxy, Managing, NotManaging
<1>6. AbandonProxy => ProxyTyped'
  BY DEF AbandonProxy, Managing, NotManaging
<1>7. PurgeCredential => ProxyTyped'
  BY DEF PurgeCredential, Managing
<1>8. Changes => ProxyTyped'
  BY ChangesTyped DEF Managing
<1>9. UNCHANGED proxyVars => ProxyTyped'
  BY DEF proxyVars, Managing
<1> QED
  BY <1>1, <1>2, <1>3, <1>4, <1>5, <1>6, <1>7, <1>8, <1>9 DEF ProxyNext

-----------------------------------------------------------------------------
(***************************************************************************)
(* ProxyConfig: the next setup settles the file                            *)
(***************************************************************************)
\* What one setup has filtered, the next filters to the same.
LEMMA FilteredTwice ==
    ASSUME NEW c \in Config, NEW key \in ManagedKey
    PROVE  /\ TheirKeys(Mutated(c, key), key) = TheirKeys(c, key)
           /\ TheirAliases(Mutated(c, key)) = TheirAliases(c)
<1> DEFINE m == Mutated(c, key)
           keys == TheirKeys(c, key)
           aliases == TheirAliases(c)
           dropped == {"placeholder", key}
           required == [alias : Required, right : BOOLEAN]
<1>1. m.keys = Append(keys, key) /\ m.aliases = aliases \o RightAliases
  BY MutatedIs
<1>2. keys \in Seq(Key \ dropped) /\ aliases \in Seq(Entry \ required)
  BY TheirsTyped DEF TheirEntry
<1>3. TheirKeys(m, key) = Without(m.keys, dropped) /\ TheirAliases(m) = Without(m.aliases, required)
  BY DEF TheirKeys, TheirAliases
<1>4. RightAliases \in Seq(Entry)
  BY RightAliasesTyped
<1>5. \A i \in DOMAIN RightAliases : RightAliases[i] \in required
  BY DEF RightAliases
<1> HIDE DEF m, keys, aliases, dropped, required
<1>6. Without(m.keys, dropped) = keys
  <2>1. keys \in Seq(Key) /\ key \in Key /\ key \in dropped
    BY <1>2 DEF Key, dropped
  <2>2. Without(Append(keys, key), dropped) = Without(keys, dropped)
    BY <2>1, FilterAppend
  <2>3. \A i \in DOMAIN keys : keys[i] \notin dropped
    BY <1>2
  <2>4. Without(keys, dropped) = keys
    BY <2>1, <2>3, FilterKeeps
  <2> QED
    BY <1>1, <2>2, <2>4
<1>7. Without(m.aliases, required) = aliases
  <2>1. aliases \in Seq(Entry) /\ \A i \in DOMAIN aliases : aliases[i] \notin required
    BY <1>2
  <2>2. Without(aliases, required) = aliases
    BY <2>1, FilterKeeps
  <2>3. Without(RightAliases, required) = <<>>
    BY <1>4, <1>5, FilterDrops
  <2>4. Without(aliases \o RightAliases, required) = Without(aliases, required) \o Without(RightAliases, required)
    BY <2>1, <1>4, FilterConcat
  <2>5. aliases \o <<>> = aliases
    BY <2>1
  <2> QED
    BY <1>1, <2>2, <2>3, <2>4, <2>5
<1> QED
  BY <1>3, <1>6, <1>7 DEF m, keys, aliases

LEMMA MutatedTwice ==
    ASSUME NEW c \in Config, NEW key \in ManagedKey
    PROVE  Mutated(Mutated(c, key), key) = Mutated(c, key)
<1> DEFINE m == Mutated(c, key)
           n == Mutated(m, key)
<1>1. /\ m \in Config /\ m.listen = "ours"
      /\ m.authDir = IF c.authDir = "none" THEN "ours" ELSE c.authDir
      /\ m.keys = Append(TheirKeys(c, key), key)
      /\ m.aliases = TheirAliases(c) \o RightAliases
  BY MutatedIs
<1>2. TheirKeys(m, key) = TheirKeys(c, key) /\ TheirAliases(m) = TheirAliases(c)
  BY FilteredTwice
<1> HIDE DEF m
<1>3. /\ n \in Config /\ n.plain = m.plain /\ n.listen = "ours"
      /\ n.authDir = IF m.authDir = "none" THEN "ours" ELSE m.authDir
      /\ n.keys = Append(TheirKeys(m, key), key)
      /\ n.aliases = TheirAliases(m) \o RightAliases
  BY <1>1, MutatedIs
<1> HIDE DEF n
<1>4. n.authDir = m.authDir
  BY <1>1, <1>3
<1>5. n.keys = m.keys /\ n.aliases = m.aliases /\ n.listen = m.listen
  BY <1>1, <1>2, <1>3
<1>6. n \in Config /\ m \in Config /\ n.plain = m.plain
  BY <1>1, <1>3
<1>7. \A d \in Config : d = [plain |-> d.plain, listen |-> d.listen, authDir |-> d.authDir,
                            keys |-> d.keys, aliases |-> d.aliases]
  BY DEF Config
<1>8. n = m
  BY ONLY <1>4, <1>5, <1>6, <1>7
<1> QED
  BY <1>8 DEF n, m

\* The check that setup makes of what it has derived passes.
LEMMA MutatedValid ==
    ASSUME NEW c \in Config, c.plain, NEW key \in ManagedKey
    PROVE  Valid(Mutated(c, key), key)
<1> DEFINE m == Mutated(c, key)
           keys == TheirKeys(c, key)
           aliases == TheirAliases(c)
           k == Len(keys)
           l == Len(aliases)
<1>1. /\ m \in Config /\ m.plain /\ m.listen = "ours"
      /\ m.keys = Append(keys, key)
      /\ m.aliases = aliases \o RightAliases
  BY MutatedIs
<1>2. keys \in Seq(Key \ {"placeholder", key}) /\ keys \in Seq(Key)
      /\ aliases \in Seq(TheirEntry) /\ aliases \in Seq(Entry)
  BY TheirsTyped
<1>3. RightAliases \in Seq(Entry) /\ Len(RightAliases) = Aliases
      /\ \A i \in 1 .. Aliases : RightAliases[i] = [alias |-> i, right |-> TRUE]
  BY RightAliasesTyped DEF RightAliases, Required
<1> HIDE DEF m, keys, aliases
<1>4. k \in Nat /\ l \in Nat /\ Aliases \in Nat
  BY <1>2, ProxyBounds
<1>5. DOMAIN m.keys = 1 .. k + 1 /\ m.keys[k + 1] = key
      /\ \A i \in 1 .. k : m.keys[i] \notin {"placeholder", key}
  BY <1>1, <1>2
<1>6. \A i \in DOMAIN m.keys : m.keys[i] # "placeholder"
  <2>1. key # "placeholder"
    BY KeysAssumption
  <2>2. \A i \in 1 .. k + 1 : i \in 1 .. k \/ i = k + 1
    BY <1>4
  <2> QED
    BY <1>5, <2>1, <2>2
<1>7. Once(m.keys, key)
  <2>1. k + 1 \in DOMAIN m.keys
    BY <1>4, <1>5
  <2>2. \A j \in DOMAIN m.keys : m.keys[j] = key <=> k + 1 = j
    <3>1. \A i \in 1 .. k + 1 : i \in 1 .. k \/ i = k + 1
      BY <1>4
    <3>2. \A i \in 1 .. k : i # k + 1
      BY <1>4
    <3> QED
      BY <1>5, <3>1, <3>2
  <2> QED
    BY <2>1, <2>2 DEF Once
<1>8. Joins(m.aliases, aliases, RightAliases) /\ m.aliases \in Seq(Entry)
  BY <1>1, <1>2, <1>3, ConcatJoins
<1>9. /\ DOMAIN m.aliases = 1 .. l + Aliases
      /\ \A i \in 1 .. l : m.aliases[i].alias \notin Required
      /\ \A i \in 1 .. Aliases : m.aliases[l + i] = [alias |-> i, right |-> TRUE]
  <2>1. \A i \in 1 .. l : aliases[i] \in TheirEntry
    BY <1>2
  <2>2. \A e \in TheirEntry : e.alias \notin Required
    BY DEF TheirEntry, Entry
  <2>3. DOMAIN m.aliases = 1 .. l + Aliases
    BY <1>2, <1>3, <1>8 DEF Joins
  <2>4. \A i \in 1 .. l : m.aliases[i] = aliases[i]
    BY <1>8 DEF Joins
  <2>5. \A i \in 1 .. Aliases : m.aliases[l + i] = RightAliases[i]
    BY <1>3, <1>8 DEF Joins
  <2>6. \A i \in 1 .. l : m.aliases[i].alias \notin Required
    BY Zenon, <2>1, <2>2, <2>4
  <2>7. \A i \in 1 .. Aliases : m.aliases[l + i] = [alias |-> i, right |-> TRUE]
    BY Zenon, <1>3, <2>5
  <2> QED
    BY <2>3, <2>6, <2>7
<1>10. ASSUME NEW alias \in Required
       PROVE  /\ Once(AliasNames(m), alias)
              /\ \A i \in DOMAIN m.aliases : m.aliases[i].alias = alias => m.aliases[i].right
  <2>1. alias \in 1 .. Aliases
    BY DEF Required
  <2>2. l + alias \in 1 .. l + Aliases
    BY <1>4, <2>1
  <2>3. \A i \in 1 .. l + Aliases : m.aliases[i].alias = alias <=> l + alias = i
    <3> TAKE i \in 1 .. l + Aliases
    <3>1. CASE i \in 1 .. l
      BY <1>4, <1>9, <2>1, <3>1
    <3>2. CASE i \in l + 1 .. l + Aliases
      <4>1. i - l \in 1 .. Aliases /\ l + (i - l) = i
        BY <1>4, <3>2
      <4>2. m.aliases[i] = [alias |-> i - l, right |-> TRUE]
        BY <1>9, <4>1
      <4>3. m.aliases[i].alias = i - l
        BY <4>2
      <4> QED
        BY <1>4, <2>1, <4>1, <4>3
    <3>3. i \in 1 .. l \/ i \in l + 1 .. l + Aliases
      BY <1>4
    <3> QED
      BY Zenon, <3>1, <3>2, <3>3
  <2>4. m.aliases[l + alias].right
    <3>1. m.aliases[l + alias] = [alias |-> alias, right |-> TRUE]
      BY <1>9, <2>1
    <3> QED
      BY <3>1
  <2>5. Once(AliasNames(m), alias)
    <3>1. DOMAIN AliasNames(m) = 1 .. l + Aliases
      BY <1>9 DEF AliasNames
    <3>2. \A i \in 1 .. l + Aliases : AliasNames(m)[i] = m.aliases[i].alias
      BY <1>9 DEF AliasNames
    <3> QED
      BY <2>2, <2>3, <3>1, <3>2 DEF Once
  <2> QED
    BY <1>9, <2>3, <2>4, <2>5
<1>11. Valid(m, key)
  BY <1>1, <1>6, <1>7, <1>10 DEF Valid
<1> QED
  BY <1>11 DEF m

\* From every plain file that the user, the proxy or an earlier setup may leave,
\* setup derives one that passes its own check, keeps the user's keys and aliases
\* in their order, and is left as it is by the setup after that.
THEOREM NextSetupSettles == ProxySpec => []SetupSettles
<1>1. ProxyTyped => SetupSettles
  <2> SUFFICES ASSUME ProxyTyped, config.plain, NEW key \in ManagedKey
               PROVE  LET managed == Mutated(config, key)
                      IN  /\ Valid(managed, key)
                          /\ TheirKeys(managed, key) = TheirKeys(config, key)
                          /\ TheirAliases(managed) = TheirAliases(config)
                          /\ Mutated(managed, key) = managed
    BY DEF SetupSettles
  <2>1. config \in Config
    BY DEF ProxyTyped
  <2> QED
    BY <2>1, MutatedValid, FilteredTwice, MutatedTwice
<1> QED
  BY <1>1, ProxyInitTyped, ProxyStepTyped, PTL DEF ProxySpec
=============================================================================
