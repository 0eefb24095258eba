-------------------------- MODULE LineEditor_proof --------------------------
(***************************************************************************)
(* The editor's invariants, for every buffer length, alphabet and line:    *)
(* `forwarded` is exact, so menu is never handed a byte it has no room for;*)
(* the open quote is the one a walk over the shadow finds; and for as long *)
(* as a line is intact, the shadow mirrors the terminal's line and menu    *)
(* holds the command that line spells.  So the editor implements           *)
(* CommandLine.                                                            *)
(***************************************************************************)
EXTENDS LineEditor, FiniteSetTheorems, TLAPS

(* The two folds over a line.                                              *)
NothingCoded == [quote |-> None, out |-> <<>>]
Walk  == INSTANCE FoldLemmas WITH op <- QuoteStep, base <- None
Coded == INSTANCE FoldLemmas WITH op <- EncodeStep, base <- NothingCoded

(* The part of the state the count depends on.                             *)
LineTypes == shadow \in Seq(Glyphs) /\ menuBuf \in Seq(Glyphs) /\ forwarded \in Nat
Inv == LineTypes /\ forwarded <= CliBufLen /\ ForwardedMirrorsUsed

(* Dropping the last byte of a line leaves a line one shorter.             *)
LEMMA FrontOfLine ==
  ASSUME NEW s \in Seq(Glyphs), s # <<>>
  PROVE  Front(s) \in Seq(Glyphs) /\ Len(Front(s)) = Len(s) - 1
<1>1. Len(s) \in Nat /\ Len(s) # 0
  OBVIOUS
<1>2. Len(s) - 1 \in 0..Len(s)
  BY <1>1
<1>3. Front(s) = [i \in 1..(Len(s) - 1) |-> s[i]]
  BY <1>1 DEF Front
<1>4. Front(s) \in Seq(Glyphs)
  BY <1>1, <1>2, <1>3
<1>5. Len(Front(s)) = Len(s) - 1
  BY <1>1, <1>2, <1>3
<1>. QED
  BY <1>4, <1>5

(* Pushing a byte keeps a line a line.                                     *)
LEMMA PushIsLine ==
  ASSUME NEW s \in Seq(Glyphs), NEW b \in Glyphs
  PROVE  Push(s, b) \in Seq(Glyphs)
BY DEF Push

LEMMA SentIsGlyph == ASSUME NEW b \in Glyphs PROVE Sent(b) \in Glyphs
BY DEF Sent, Glyphs

LEMMA LiteralIsGlyph == ASSUME NEW b, IsLiteral(b) PROVE b \in Glyphs
BY DEF IsLiteral, Glyphs

LEMMA CapIsPositive == CliBufLen \in Nat \ {0}
BY LineAssumption

LEMMA InvInit == Init => Inv
BY CapIsPositive DEF Init, Inv, LineTypes, ForwardedMirrorsUsed

LEMMA InvStep == Inv /\ [Next]_vars => Inv'
<1>. SUFFICES ASSUME Inv, [Next]_vars PROVE Inv'
  OBVIOUS
<1>. USE DEF Inv, LineTypes, ForwardedMirrorsUsed
<1>cap. CliBufLen \in Nat \ {0}
  BY CapIsPositive
<1>1. ASSUME NEW b \in LineKeys, TypeQuote(b) PROVE Inv'
  <2>1. b \in Glyphs
    BY <1>1 DEF TypeQuote, Glyphs
  <2>. QED
    BY <1>1, <2>1, PushIsLine DEF TypeQuote, Remember
<1>2. ASSUME NEW b \in LineKeys, TypeLiteral(b) PROVE Inv'
  <2>1. Sent(b) \in Glyphs
    BY <1>2, LiteralIsGlyph, SentIsGlyph DEF TypeLiteral
  <2>2. shadow' \in Seq(Glyphs)
    BY <1>2, <2>1, PushIsLine DEF TypeLiteral, Remember
  <2>3. /\ menuBuf' = Append(menuBuf, Sent(b))
        /\ overflowed' = overflowed
        /\ forwarded' = forwarded + 1
        /\ atCapacity' = atCapacity
        /\ forwarded < CliBufLen
    BY <1>2, <1>cap DEF TypeLiteral, MayForward, MenuAppend
  <2>. QED
    BY <2>1, <2>2, <2>3, <1>cap
<1>3. ASSUME NEW b \in LineKeys, Dropped(b) PROVE Inv'
  BY <1>3, <1>cap DEF Dropped, MayForward
<1>4. ASSUME Backspace PROVE Inv'
  <2>1. shadow' \in Seq(Glyphs) /\ ~atCapacity' /\ ~overflowed'
    BY <1>4, FrontOfLine DEF Backspace, ReArm
  <2>2. CASE UNCHANGED <<menuBuf, forwarded>>
    BY <2>1, <2>2
  <2>3. CASE MenuBackspace /\ Uncount
    <3>1. CASE menuBuf = <<>>
      BY <2>1, <2>3, <3>1, <1>cap DEF MenuBackspace, Uncount
    <3>2. CASE menuBuf # <<>>
      <4>1. menuBuf' \in Seq(Glyphs) /\ Len(menuBuf') = Len(menuBuf) - 1
        BY <2>3, <3>2, FrontOfLine DEF MenuBackspace
      <4>2. Len(menuBuf) # 0
        BY <3>2
      <4>. QED
        BY <2>1, <2>3, <4>1, <4>2, <1>cap DEF Uncount
    <3>. QED
      BY <3>1, <3>2
  <2>. QED
    BY <1>4, <2>2, <2>3 DEF Backspace
<1>5. ASSUME CarriageReturn PROVE Inv'
  BY <1>5, <1>cap DEF CarriageReturn, ForgetCount, ReArm
<1>6. ASSUME LineFeed PROVE Inv'
  BY <1>6 DEF LineFeed
<1>7. CASE UNCHANGED vars
  BY <1>7 DEF vars
<1>. QED
  BY <1>1, <1>2, <1>3, <1>4, <1>5, <1>6, <1>7 DEF Next, Input

(***************************************************************************)
(* The mirror.  It survives a backspace only because menu still has a byte *)
(* for each one that the shadow holds and menu was given, so the invariant *)
(* counts them.                                                            *)
(***************************************************************************)
Mirror(s) == [i \in DOMAIN s |-> Shown(s[i])]
Given(s)  == {i \in DOMAIN s : s[i] \notin Quotes}

LEMMA MirrorAppend ==
  ASSUME NEW s \in Seq(Glyphs), NEW g \in Glyphs
  PROVE  Mirror(Append(s, g)) = Append(Mirror(s), Shown(g))
BY DEF Mirror

LEMMA MirrorIsLine ==
  ASSUME NEW s \in Seq(Glyphs)
  PROVE  Mirror(s) \in Seq(Glyphs)
<1>1. \A i \in 1..Len(s) : Shown(s[i]) \in Glyphs
  <2>1. \A g \in Glyphs : Shown(g) \in Glyphs
    BY DEF Shown, Glyphs
  <2>. QED
    BY <2>1
<1>2. DOMAIN s = 1..Len(s) /\ Len(s) \in Nat
  OBVIOUS
<1>. QED
  BY <1>1, <1>2 DEF Mirror

LEMMA FrontAppend ==
  ASSUME NEW s \in Seq(Glyphs), NEW g \in Glyphs
  PROVE  Front(Append(s, g)) = s /\ Append(s, g) # <<>>
<1>1. Front(Append(s, g)) = s
  BY DEF Front
<1>2. Len(Append(s, g)) = Len(s) + 1 /\ Len(s) \in Nat /\ Len(<<>>) = 0
  OBVIOUS
<1>. QED
  BY <1>1, <1>2

LEMMA AppendFrontLast ==
  ASSUME NEW s \in Seq(Glyphs), s # <<>>
  PROVE  /\ s = Append(Front(s), Last(s))
         /\ Front(s) \in Seq(Glyphs)
         /\ Last(s) \in Glyphs
<1>1. Front(s) \in Seq(Glyphs) /\ Len(Front(s)) = Len(s) - 1
  BY FrontOfLine
<1>2. Len(s) \in Nat /\ Len(s) # 0 /\ Last(s) = s[Len(s)] /\ Last(s) \in Glyphs
  BY DEF Last
<1>3. \A i \in 1..(Len(s) - 1) : Front(s)[i] = s[i]
  BY <1>2 DEF Front
<1>. QED
  BY <1>1, <1>2, <1>3

(* Appending a quote gives menu nothing, appending another glyph one byte. *)
LEMMA GivenAppend ==
  ASSUME NEW s \in Seq(Glyphs), NEW g \in Glyphs
  PROVE  /\ Cardinality(Given(s)) \in Nat
         /\ Cardinality(Given(Append(s, g)))
              = Cardinality(Given(s)) + (IF g \in Quotes THEN 0 ELSE 1)
<1>1. IsFiniteSet(Given(s)) /\ Cardinality(Given(s)) \in Nat
  <2>1. IsFiniteSet(1..Len(s))
    BY FS_Interval
  <2>2. Given(s) \subseteq 1..Len(s)
    BY DEF Given
  <2>. QED
    BY <2>1, <2>2, FS_Subset, FS_CardinalityType
<1>2. CASE g \in Quotes
  <2>1. Given(Append(s, g)) = Given(s)
    BY <1>2 DEF Given
  <2>. QED
    BY <1>1, <1>2, <2>1
<1>3. CASE g \notin Quotes
  <2>1. Given(Append(s, g)) = Given(s) \cup {Len(s) + 1}
    BY <1>3 DEF Given
  <2>2. Len(s) + 1 \notin Given(s)
    BY DEF Given
  <2>. QED
    BY <1>1, <1>3, <2>1, <2>2, FS_AddElement
<1>. QED
  BY <1>1, <1>2, <1>3

LEMMA GivenEmpty == Cardinality(Given(<<>>)) = 0 /\ Mirror(<<>>) = <<>>
BY FS_EmptySet DEF Given, Mirror

Mirrored == intact => screen = Mirror(shadow) /\ Cardinality(Given(shadow)) <= Len(menuBuf)
MirrorInv == Inv /\ Mirrored

LEMMA MirrorStep == MirrorInv /\ [Next]_vars => Mirrored'
<1>. SUFFICES ASSUME Inv, Mirrored, [Next]_vars, intact' PROVE Mirrored'
  BY DEF MirrorInv, Mirrored
<1>. USE DEF Inv, LineTypes
<1>1. ASSUME NEW b \in LineKeys, TypeQuote(b) PROVE Mirrored'
  <2>1. b \in Quotes /\ b \in Glyphs /\ Shown(b) = b
    BY <1>1 DEF TypeQuote, Glyphs, Quotes, Shown, US
  <2>2. intact /\ Len(shadow) < CliBufLen
    BY <1>1 DEF TypeQuote, Remember
  <2>3. /\ shadow' = Append(shadow, b) /\ screen' = Append(screen, b)
        /\ menuBuf' = menuBuf
    BY <1>1, <2>2 DEF TypeQuote, Remember, Push
  <2>. QED
    BY <2>1, <2>2, <2>3, MirrorAppend, GivenAppend DEF Mirrored
<1>2. ASSUME NEW b \in LineKeys, TypeLiteral(b) PROVE Mirrored'
  <2>1. b \in Glyphs /\ Sent(b) \in Glyphs
    BY <1>2, LiteralIsGlyph, SentIsGlyph DEF TypeLiteral
  <2>2. Shown(Sent(b)) = b
    BY <1>2, LineAssumption DEF TypeLiteral, IsLiteral, Sent, Shown, Quotes, US
  <2>3. intact /\ Len(shadow) < CliBufLen
    BY <1>2 DEF TypeLiteral, Remember
  <2>4. shadow' = Append(shadow, Sent(b)) /\ screen' = Append(screen, b)
    BY <1>2, <2>3 DEF TypeLiteral, Remember, Push
  <2>5. menuBuf' = Append(menuBuf, Sent(b))
    BY <1>2, CapIsPositive DEF TypeLiteral, MayForward, MenuAppend, ForwardedMirrorsUsed
  <2>6. screen' = Mirror(shadow')
    BY <2>1, <2>2, <2>3, <2>4, MirrorAppend DEF Mirrored
  <2>7. Cardinality(Given(shadow')) <= Len(menuBuf')
    BY <2>1, <2>3, <2>4, <2>5, GivenAppend DEF Mirrored
  <2>. QED
    BY <2>6, <2>7 DEF Mirrored
<1>3. ASSUME NEW b \in LineKeys, Dropped(b) PROVE Mirrored'
  BY <1>3 DEF Dropped, Mirrored
<1>4. ASSUME Backspace PROVE Mirrored'
  <2>. DEFINE f == Front(shadow)
              l == Last(shadow)
  <2>1. intact /\ shadow # <<>> /\ shadow' = f
    BY <1>4 DEF Backspace
  <2>2. shadow = Append(f, l) /\ f \in Seq(Glyphs) /\ l \in Glyphs
    BY <2>1, AppendFrontLast
  <2>3. screen = Append(Mirror(f), Shown(l)) /\ screen # <<>>
    <3>1. screen = Append(Mirror(f), Shown(l))
      BY <2>1, <2>2, MirrorAppend DEF Mirrored
    <3>. QED
      BY <3>1, <2>2, MirrorIsLine
  <2>4. Front(screen) = Mirror(f)
    BY <2>2, <2>3, MirrorIsLine, FrontAppend DEF Shown, Glyphs
  <2>5. /\ Cardinality(Given(f)) \in Nat
        /\ Cardinality(Given(f)) + (IF l \in Quotes THEN 0 ELSE 1) <= Len(menuBuf)
    BY <2>1, <2>2, GivenAppend DEF Mirrored
  <2>6. CASE l \in Quotes
    <3>1. screen' = Front(screen) /\ menuBuf' = menuBuf
      BY <1>4, <2>3, <2>6 DEF Backspace, EraseGlyph
    <3>. QED
      BY <3>1, <2>1, <2>4, <2>5, <2>6 DEF Mirrored
  <2>7. CASE l \notin Quotes
    <3>1. menuBuf # <<>>
      BY <2>5, <2>7
    <3>2. screen' = Front(screen) /\ menuBuf' = Front(menuBuf)
      BY <1>4, <2>3, <2>7, <3>1 DEF Backspace, MenuBackspace, EraseGlyph
    <3>3. Len(menuBuf') = Len(menuBuf) - 1
      BY <3>1, <3>2, FrontOfLine
    <3>. QED
      BY <3>2, <3>3, <2>1, <2>4, <2>5, <2>7 DEF Mirrored
  <2>. QED
    BY <2>6, <2>7
<1>5. ASSUME CarriageReturn PROVE Mirrored'
  BY <1>5, GivenEmpty DEF CarriageReturn, Mirrored
<1>6. ASSUME LineFeed PROVE Mirrored'
  BY <1>6 DEF LineFeed, Mirrored
<1>7. CASE UNCHANGED vars
  BY <1>7 DEF vars, Mirrored
<1>. QED
  BY <1>1, <1>2, <1>3, <1>4, <1>5, <1>6, <1>7 DEF Next, Input

-----------------------------------------------------------------------------
(***************************************************************************)
(* The walk that recompute_quote_state does.                               *)
(***************************************************************************)
LEMMA WalkIsFold == \A line : RecomputeQuote(line) = Walk!Folded(line)
BY DEF RecomputeQuote, Walk!Folded, FoldLeft, Walk!FoldLeft, MapThenFoldSet,
       Walk!MapThenFoldSet, Max, Walk!Max

LEMMA QuoteOfEmpty == RecomputeQuote(<<>>) = None
BY WalkIsFold, Walk!FoldEmpty

LEMMA QuoteOfAppend ==
  ASSUME NEW s \in Seq(Glyphs), NEW g \in Glyphs
  PROVE  RecomputeQuote(Append(s, g)) = QuoteStep(RecomputeQuote(s), g)
BY WalkIsFold, Walk!FoldAppend

LEMMA QuoteType ==
  ASSUME NEW s \in Seq(Glyphs)
  PROVE  RecomputeQuote(s) \in Quotes \cup {None}
<1>1. \A q \in Quotes \cup {None}, g \in Glyphs : QuoteStep(q, g) \in Quotes \cup {None}
  BY DEF QuoteStep
<1>. QED
  BY <1>1, WalkIsFold, Walk!FoldType

(* The terminal's line and the shadow open the same quote.                 *)
LEMMA QuoteOfMirror ==
  \A s \in Seq(Glyphs) : RecomputeQuote(Mirror(s)) = RecomputeQuote(s)
<1>. DEFINE T == {s \in Seq(Glyphs) : RecomputeQuote(Mirror(s)) = RecomputeQuote(s)}
<1>1. <<>> \in T
  BY GivenEmpty
<1>2. ASSUME NEW s \in Seq(Glyphs), NEW g \in Glyphs, s \in T PROVE Append(s, g) \in T
  <2>1. Mirror(s) \in Seq(Glyphs) /\ Shown(g) \in Glyphs
    BY MirrorIsLine DEF Shown, Glyphs
  <2>2. RecomputeQuote(Append(Mirror(s), Shown(g)))
          = QuoteStep(RecomputeQuote(Mirror(s)), Shown(g))
    BY <2>1, QuoteOfAppend
  <2>3. QuoteStep(RecomputeQuote(s), Shown(g)) = QuoteStep(RecomputeQuote(s), g)
    BY QuoteType DEF QuoteStep, Shown, Quotes, US, None
  <2>4. RecomputeQuote(Append(s, g)) = QuoteStep(RecomputeQuote(s), g)
    BY QuoteOfAppend
  <2>5. Mirror(Append(s, g)) = Append(Mirror(s), Shown(g)) /\ Append(s, g) \in Seq(Glyphs)
    BY MirrorAppend
  <2>. QED
    BY <1>2, <2>2, <2>3, <2>4, <2>5
<1>. HIDE DEF T
<1>3. \A s \in Seq(Glyphs) : s \in T
  BY <1>1, <1>2, Walk!SeqSetInduction
<1>. QED
  BY <1>3 DEF T

-----------------------------------------------------------------------------
(***************************************************************************)
(* The types, the shadow's length and the open quote among them.           *)
(***************************************************************************)
LEMMA PushFits ==
  ASSUME NEW s \in Seq(Glyphs), NEW g \in Glyphs, Len(s) <= CliBufLen
  PROVE  Push(s, g) \in Seq(Glyphs) /\ Len(Push(s, g)) <= CliBufLen
BY CapIsPositive DEF Push

LEMMA TypeInit == Init => TypeOK
<1>1. <<>> \in Seq(Glyphs) /\ Len(<<>>) <= CliBufLen /\ 0 \in 0..CliBufLen
  BY CapIsPositive
<1>. QED
  BY <1>1 DEF Init, TypeOK

LEMMA TypeStep == TypeOK /\ Inv /\ Inv' /\ [Next]_vars => TypeOK'
<1>. SUFFICES ASSUME TypeOK, Inv, Inv', [Next]_vars PROVE TypeOK'
  OBVIOUS
<1>cap. CliBufLen \in Nat \ {0}
  BY CapIsPositive
<1>1. forwarded' \in 0..CliBufLen /\ menuBuf' \in Seq(Glyphs) /\ overflowed' = FALSE
  BY <1>cap DEF Inv, LineTypes, ForwardedMirrorsUsed
<1>2. ASSUME NEW b \in LineKeys, TypeQuote(b) PROVE TypeOK'
  <2>1. b \in Quotes /\ b \in Glyphs
    BY <1>2 DEF TypeQuote, Glyphs
  <2>. QED
    BY <1>1, <1>2, <2>1, PushFits DEF TypeOK, TypeQuote, Remember
<1>3. ASSUME NEW b \in LineKeys, TypeLiteral(b) PROVE TypeOK'
  <2>1. b \in Glyphs /\ Sent(b) \in Glyphs
    BY <1>3, LiteralIsGlyph, SentIsGlyph DEF TypeLiteral
  <2>2. shadow' \in Seq(Glyphs) /\ Len(shadow') <= CliBufLen
    BY <1>3, <2>1, PushFits DEF TypeOK, TypeLiteral, Remember
  <2>3. screen' \in Seq(Glyphs) /\ quoteChar' = quoteChar /\ atCapacity' = atCapacity
    BY <1>3, <2>1 DEF TypeOK, TypeLiteral
  <2>4. intact' \in BOOLEAN
    BY <1>3 DEF TypeLiteral, Remember
  <2>. QED
    BY <1>1, <2>2, <2>3, <2>4 DEF TypeOK
<1>4. ASSUME NEW b \in LineKeys, Dropped(b) PROVE TypeOK'
  BY <1>1, <1>4 DEF TypeOK, Dropped
<1>5. ASSUME Backspace PROVE TypeOK'
  <2>1. shadow' \in Seq(Glyphs) /\ Len(shadow') <= CliBufLen
    <3>1. shadow # <<>> /\ shadow' = Front(shadow)
      BY <1>5 DEF Backspace
    <3>. QED
      BY <1>cap, <3>1, FrontOfLine DEF TypeOK
  <2>2. quoteChar' \in Quotes \cup {None}
    BY <1>5, <2>1, QuoteType DEF Backspace, RestoreQuote
  <2>3. screen' \in Seq(Glyphs)
    <3>1. EraseGlyph \/ screen' = screen
      BY <1>5 DEF Backspace, MenuBackspace
    <3>2. CASE screen # <<>>
      BY <3>1, <3>2, FrontOfLine DEF EraseGlyph, TypeOK
    <3>3. CASE screen = <<>>
      BY <3>1, <3>3 DEF EraseGlyph, TypeOK
    <3>. QED
      BY <3>2, <3>3
  <2>4. atCapacity' = FALSE /\ intact' \in BOOLEAN
    BY <1>5 DEF Backspace, ReArm
  <2>. QED
    BY <1>1, <2>1, <2>2, <2>3, <2>4 DEF TypeOK
<1>6. ASSUME CarriageReturn \/ LineFeed PROVE TypeOK'
  <2>1. shadow' = <<>> /\ quoteChar' = None /\ screen' \in {screen, <<>>}
    BY <1>6 DEF CarriageReturn, LineFeed
  <2>2. atCapacity' \in {FALSE, atCapacity} /\ intact' \in BOOLEAN
    BY <1>6 DEF CarriageReturn, LineFeed, ReArm
  <2>3. <<>> \in Seq(Glyphs) /\ Len(<<>>) <= CliBufLen
    BY <1>cap
  <2>. QED
    BY <1>1, <2>1, <2>2, <2>3 DEF TypeOK
<1>7. CASE UNCHANGED vars
  BY <1>7 DEF TypeOK, vars
<1>. QED
  BY <1>2, <1>3, <1>4, <1>5, <1>6, <1>7 DEF Next, Input

(* Only a full shadow can have lost a quote.                               *)
LEMMA WalkStep == TypeOK /\ QuoteMatchesShadow /\ [Next]_vars => QuoteMatchesShadow'
<1>. SUFFICES ASSUME TypeOK, QuoteMatchesShadow, [Next]_vars PROVE QuoteMatchesShadow'
  OBVIOUS
<1>. USE DEF TypeOK
<1>1. ASSUME NEW g \in Glyphs, shadow' = Push(shadow, g),
             Len(shadow) < CliBufLen /\ quoteChar = RecomputeQuote(shadow)
               => quoteChar' = QuoteStep(quoteChar, g)
      PROVE  QuoteMatchesShadow'
  <2>1. CASE Len(shadow) < CliBufLen
    BY <1>1, <2>1, QuoteOfAppend, CapIsPositive DEF QuoteMatchesShadow, Push
  <2>2. CASE ~(Len(shadow) < CliBufLen)
    <3>1. shadow' = shadow
      BY <1>1, <2>2 DEF Push
    <3>. QED
      BY <1>1, <2>2, <3>1, CapIsPositive DEF QuoteMatchesShadow
  <2>. QED
    BY <2>1, <2>2
<1>2. ASSUME NEW b \in LineKeys, TypeQuote(b) PROVE QuoteMatchesShadow'
  <2>1. b \in Glyphs /\ quoteChar' = QuoteStep(quoteChar, b)
    BY <1>2 DEF TypeQuote, QuoteStep, Glyphs, Quotes, None
  <2>. QED
    BY <1>1, <1>2, <2>1 DEF TypeQuote, Remember
<1>3. ASSUME NEW b \in LineKeys, TypeLiteral(b) PROVE QuoteMatchesShadow'
  <2>1. Sent(b) \in Glyphs /\ quoteChar' = quoteChar /\ IsLiteral(b)
    BY <1>3, LiteralIsGlyph, SentIsGlyph DEF TypeLiteral
  <2>2. QuoteStep(quoteChar, Sent(b)) = quoteChar
    <3>1. Sent(b) \notin Quotes \/ quoteChar \notin {None, Sent(b)}
      BY <2>1, LineAssumption DEF Sent, IsLiteral, Quotes, US, None
    <3>. QED
      BY <3>1 DEF QuoteStep
  <2>. QED
    BY <1>1, <1>3, <2>1, <2>2 DEF TypeLiteral, Remember
<1>4. ASSUME NEW b \in LineKeys, Dropped(b) PROVE QuoteMatchesShadow'
  BY <1>4 DEF Dropped, QuoteMatchesShadow
<1>5. ASSUME Backspace PROVE QuoteMatchesShadow'
  BY <1>5 DEF Backspace, RestoreQuote, QuoteMatchesShadow
<1>6. ASSUME CarriageReturn \/ LineFeed PROVE QuoteMatchesShadow'
  BY <1>6, QuoteOfEmpty DEF CarriageReturn, LineFeed, QuoteMatchesShadow
<1>7. CASE UNCHANGED vars
  BY <1>7 DEF vars, QuoteMatchesShadow
<1>. QED
  BY <1>2, <1>3, <1>4, <1>5, <1>6, <1>7 DEF Next, Input

-----------------------------------------------------------------------------
(***************************************************************************)
(* The command.                                                            *)
(***************************************************************************)
CodeOf(line) == FoldLeft(EncodeStep, NothingCoded, line)
Codes == [quote : Quotes \cup {None}, out : Seq(Glyphs)]

LEMMA CodeIsFold == \A line : CodeOf(line) = Coded!Folded(line)
BY DEF CodeOf, Coded!Folded, FoldLeft, Coded!FoldLeft, MapThenFoldSet,
       Coded!MapThenFoldSet, Max, Coded!Max

LEMMA CodeOfEmpty == CodeOf(<<>>) = NothingCoded
BY CodeIsFold, Coded!FoldEmpty

LEMMA CodeOfAppend ==
  ASSUME NEW s \in Seq(Glyphs), NEW g \in Glyphs
  PROVE  CodeOf(Append(s, g)) = EncodeStep(CodeOf(s), g)
BY CodeIsFold, Coded!FoldAppend

(* One byte: a delimiter changes the quote, any other is added.            *)
LEMMA CodeStep ==
  ASSUME NEW c \in Codes, NEW g \in Glyphs
  PROVE  /\ EncodeStep(c, g).quote = QuoteStep(c.quote, g)
         /\ EncodeStep(c, g).out =
              IF QuoteStep(c.quote, g) # c.quote THEN c.out
              ELSE Append(c.out, IF g = " " /\ c.quote # None THEN US ELSE g)
         /\ EncodeStep(c, g) \in Codes
<1>. DEFINE quote == QuoteStep(c.quote, g)
            joined == IF g = " " /\ quote # None THEN US ELSE g
            out == IF quote # c.quote THEN c.out ELSE Append(c.out, joined)
<1>1. EncodeStep(c, g) = [quote |-> quote, out |-> out]
  BY DEF EncodeStep
<1>2. quote \in Quotes \cup {None}
  BY DEF QuoteStep, Codes
<1>3. joined \in Glyphs /\ c.out \in Seq(Glyphs)
  BY DEF Codes, Glyphs
<1>4. out \in Seq(Glyphs)
  <2>. HIDE DEF joined, quote
  <2>. QED
    BY <1>3
<1>5. quote = c.quote => joined = IF g = " " /\ c.quote # None THEN US ELSE g
  OBVIOUS
<1>. HIDE DEF joined, out
<1>6. EncodeStep(c, g) \in Codes
  BY <1>1, <1>2, <1>4 DEF Codes
<1>7. out = IF quote # c.quote THEN c.out
            ELSE Append(c.out, IF g = " " /\ c.quote # None THEN US ELSE g)
  BY <1>5 DEF out
<1>8. EncodeStep(c, g).quote = quote /\ EncodeStep(c, g).out = out
  BY <1>1
<1>. QED
  BY <1>6, <1>7, <1>8

LEMMA CodeType ==
  ASSUME NEW s \in Seq(Glyphs)
  PROVE  CodeOf(s) \in Codes
<1>1. NothingCoded \in Codes
  BY DEF NothingCoded, Codes
<1>. QED
  BY <1>1, CodeStep, CodeIsFold, Coded!FoldType

(* The coding walks the quotes as the editor does.                         *)
LEMMA CodeWalks == \A s \in Seq(Glyphs) : CodeOf(s).quote = RecomputeQuote(s)
<1>. DEFINE T == {s \in Seq(Glyphs) : CodeOf(s).quote = RecomputeQuote(s)}
<1>1. <<>> \in T
  BY CodeOfEmpty, QuoteOfEmpty DEF NothingCoded
<1>2. ASSUME NEW s \in Seq(Glyphs), NEW g \in Glyphs, s \in T PROVE Append(s, g) \in T
  <2>1. CodeOf(Append(s, g)).quote = QuoteStep(CodeOf(s).quote, g)
    BY CodeOfAppend, CodeType, CodeStep
  <2>. QED
    BY <1>2, <2>1, QuoteOfAppend
<1>. HIDE DEF T
<1>3. \A s \in Seq(Glyphs) : s \in T
  BY <1>1, <1>2, Coded!SeqSetInduction
<1>. QED
  BY <1>3 DEF T

(* A delimiter adds nothing to the command, any other byte itself.         *)
LEMMA EncodeAppend ==
  ASSUME NEW s \in Seq(Glyphs), NEW g \in Glyphs, NEW q, q = RecomputeQuote(s)
  PROVE  /\ QuoteStep(q, g) # q => Encode(Append(s, g)) = Encode(s)
         /\ QuoteStep(q, g) = q =>
              Encode(Append(s, g))
                = Append(Encode(s), IF g = " " /\ q # None THEN US ELSE g)
<1>1. Encode(s) = CodeOf(s).out /\ Encode(Append(s, g)) = CodeOf(Append(s, g)).out
  BY DEF Encode, CodeOf, NothingCoded
<1>2. CodeOf(s).quote = q
  BY CodeWalks
<1>. QED
  BY <1>1, <1>2, CodeOfAppend, CodeType, CodeStep

LEMMA EncodeEmpty == Encode(<<>>) = <<>>
BY CodeOfEmpty DEF Encode, CodeOf, NothingCoded

LEMMA EncodeType == ASSUME NEW s \in Seq(Glyphs) PROVE Encode(s) \in Seq(Glyphs)
BY CodeType DEF Encode, CodeOf, NothingCoded, Codes

(* On an intact line the open quote is the shadow's, full or not, and      *)
(* menu's buffer is the command.                                           *)
Coherent ==
  intact => quoteChar = RecomputeQuote(shadow) /\ menuBuf = Encode(screen)
CommandInv == TypeOK /\ MirrorInv /\ QuoteMatchesShadow /\ Coherent

LEMMA CommandStep == CommandInv /\ [Next]_vars => Coherent'
<1>. SUFFICES ASSUME CommandInv, [Next]_vars, intact' PROVE Coherent'
  BY DEF Coherent
<1>types. /\ shadow \in Seq(Glyphs) /\ screen \in Seq(Glyphs)
          /\ quoteChar \in Quotes \cup {None}
          /\ CliBufLen \in Nat \ {0}
  BY CapIsPositive DEF CommandInv, TypeOK
<1>seen. intact => /\ screen = Mirror(shadow)
                   /\ quoteChar = RecomputeQuote(shadow)
                   /\ quoteChar = RecomputeQuote(screen)
                   /\ menuBuf = Encode(screen)
  BY <1>types, QuoteOfMirror DEF CommandInv, MirrorInv, Mirrored, Coherent
<1>1. ASSUME NEW b \in LineKeys, TypeQuote(b) PROVE Coherent'
  <2>1. b \in Glyphs /\ quoteChar' = QuoteStep(quoteChar, b) /\ quoteChar' # quoteChar
    BY <1>1 DEF TypeQuote, QuoteStep, Glyphs, Quotes, None
  <2>2. intact /\ shadow' = Append(shadow, b)
    BY <1>1 DEF TypeQuote, Remember, Push
  <2>3. screen' = Append(screen, b) /\ menuBuf' = menuBuf
    BY <1>1 DEF TypeQuote
  <2>4. Encode(screen') = Encode(screen)
    BY <1>types, <1>seen, <2>1, <2>2, <2>3, EncodeAppend
  <2>5. RecomputeQuote(shadow') = quoteChar'
    BY <1>types, <1>seen, <2>1, <2>2, QuoteOfAppend
  <2>. QED
    BY <1>seen, <2>2, <2>3, <2>4, <2>5 DEF Coherent
<1>2. ASSUME NEW b \in LineKeys, TypeLiteral(b) PROVE Coherent'
  <2>1. b \in Glyphs /\ Sent(b) \in Glyphs /\ IsLiteral(b)
    BY <1>2, LiteralIsGlyph, SentIsGlyph DEF TypeLiteral
  <2>2. intact /\ shadow' = Append(shadow, Sent(b))
    BY <1>2 DEF TypeLiteral, Remember, Push
  <2>3. screen' = Append(screen, b) /\ quoteChar' = quoteChar
    BY <1>2 DEF TypeLiteral
  <2>4. menuBuf' = Append(menuBuf, Sent(b))
    BY <1>2, <1>types DEF TypeLiteral, MayForward, MenuAppend, CommandInv, MirrorInv,
                          Inv, LineTypes, ForwardedMirrorsUsed
  <2>5. QuoteStep(quoteChar, b) = quoteChar /\ QuoteStep(quoteChar, Sent(b)) = quoteChar
    <3>1. \A g \in {b, Sent(b)} : g \notin Quotes \/ quoteChar \notin {None, g}
      BY <2>1, LineAssumption DEF Sent, IsLiteral, Quotes, US, None
    <3>. QED
      BY <1>types, <3>1 DEF QuoteStep
  <2>6. Encode(screen') = Append(Encode(screen), Sent(b))
    BY <1>types, <1>seen, <2>1, <2>2, <2>3, <2>5, EncodeAppend DEF Sent
  <2>7. RecomputeQuote(shadow') = quoteChar'
    BY <1>types, <1>seen, <2>1, <2>2, <2>3, <2>5, QuoteOfAppend
  <2>. QED
    BY <1>seen, <2>2, <2>4, <2>6, <2>7 DEF Coherent
<1>3. ASSUME NEW b \in LineKeys, Dropped(b) PROVE Coherent'
  BY <1>3 DEF Dropped, CommandInv, Coherent
<1>4. ASSUME Backspace PROVE Coherent'
  <2>. DEFINE f == Front(shadow)
              l == Last(shadow)
              q == RecomputeQuote(f)
              m == Mirror(f)
  <2>1. intact /\ ~ErasesLiteralQuote /\ shadow # <<>> /\ shadow' = f /\ quoteChar' = q
    BY <1>4 DEF Backspace, RestoreQuote
  <2>2. shadow = Append(f, l) /\ f \in Seq(Glyphs) /\ l \in Glyphs
    BY <1>types, <2>1, AppendFrontLast
  <2>3. Shown(l) \in Glyphs /\ m \in Seq(Glyphs) /\ RecomputeQuote(m) = q
    BY <2>2, MirrorIsLine, QuoteOfMirror DEF Shown, Glyphs
  <2>4. screen = Append(m, Shown(l)) /\ screen # <<>> /\ Front(screen) = m
    <3>1. screen = Append(m, Shown(l))
      BY <1>seen, <2>1, <2>2, MirrorAppend
    <3>. QED
      BY <2>3, <3>1, FrontAppend
  <2>. HIDE DEF f, l, q, m
  <2>5. CASE l \in Quotes
    <3>1. screen' = m /\ menuBuf' = menuBuf
      BY <1>4, <2>4, <2>5 DEF Backspace, EraseGlyph, l
    <3>2. Shown(l) = l
      BY <2>5 DEF Shown, Quotes, US
    <3>3. q = None \/ l = q
      BY <2>1, <2>5 DEF ErasesLiteralQuote, q, f, l
    <3>4. QuoteStep(q, l) # q
      BY <2>5, <3>3 DEF QuoteStep, Quotes, None
    <3>5. Encode(screen) = Encode(m)
      <4>1. QuoteStep(RecomputeQuote(m), Shown(l)) # RecomputeQuote(m)
        BY <2>3, <3>2, <3>4
      <4>. QED
        BY <2>3, <2>4, <4>1, EncodeAppend
    <3>. QED
      BY <1>seen, <2>1, <3>1, <3>5 DEF Coherent, q
  <2>6. CASE l \notin Quotes
    <3>1. QuoteStep(q, Shown(l)) = q
      <4>1. Shown(l) \notin Quotes
        BY <2>6 DEF Shown, Quotes
      <4>2. q \in Quotes \cup {None}
        BY <2>2, QuoteType DEF q
      <4>. QED
        BY <4>1, <4>2 DEF QuoteStep
    <3>2. PICK g \in Glyphs : menuBuf = Append(Encode(m), g)
      <4>1. US \in Glyphs
        BY DEF Glyphs
      <4>. QED
        BY <1>seen, <2>1, <2>3, <2>4, <3>1, <4>1, EncodeAppend
    <3>3. menuBuf # <<>> /\ Front(menuBuf) = Encode(m)
      BY <2>3, <3>2, EncodeType, FrontAppend
    <3>4. screen' = m /\ menuBuf' = Encode(m)
      BY <1>4, <2>4, <2>6, <3>3 DEF Backspace, MenuBackspace, EraseGlyph, l
    <3>. QED
      BY <2>1, <3>4 DEF Coherent, q
  <2>. QED
    BY <2>5, <2>6
<1>5. ASSUME CarriageReturn PROVE Coherent'
  BY <1>5, QuoteOfEmpty, EncodeEmpty DEF CarriageReturn, Coherent
<1>6. ASSUME LineFeed PROVE Coherent'
  BY <1>6, <1>seen, QuoteOfEmpty DEF LineFeed, Coherent
<1>7. CASE UNCHANGED vars
  BY <1>7 DEF vars, CommandInv, Coherent
<1>. QED
  BY <1>1, <1>2, <1>3, <1>4, <1>5, <1>6, <1>7 DEF Next, Input

LEMMA CommandInitially == Init => CommandInv
BY InvInit, TypeInit, GivenEmpty, QuoteOfEmpty, EncodeEmpty
   DEF Init, CommandInv, MirrorInv, Mirrored, QuoteMatchesShadow, Coherent

LEMMA CommandPreserved == CommandInv /\ [Next]_vars => CommandInv'
<1>1. CommandInv => Inv
  BY DEF CommandInv, MirrorInv
<1>. QED
  BY <1>1, InvStep, MirrorStep, TypeStep, WalkStep, CommandStep DEF CommandInv, MirrorInv

-----------------------------------------------------------------------------
(* For every buffer length the count mirrors menu's `used`, so menu never  *)
(* overflows and the bell is latched only on a full line (main.rs:628-636).*)
THEOREM CountIsExact == Spec => []ForwardedMirrorsUsed
<1>1. Spec => []Inv
  BY InvInit, InvStep, PTL DEF Spec
<1>2. Inv => ForwardedMirrorsUsed
  BY DEF Inv
<1>. QED
  BY <1>1, <1>2, PTL

(* For every buffer length and alphabet the shadow is the terminal's line, *)
(* byte for byte, until the line is no longer intact (main.rs:615).        *)
THEOREM ShadowIsTheLine == Spec => []ShadowMirrorsLine
<1>1. Init => MirrorInv
  BY InvInit, GivenEmpty DEF Init, MirrorInv, Mirrored
<1>2. MirrorInv /\ [Next]_vars => MirrorInv'
  BY InvStep, MirrorStep DEF MirrorInv
<1>3. MirrorInv => ShadowMirrorsLine
  BY DEF MirrorInv, Mirrored, Mirror, ShadowMirrorsLine
<1>. QED
  BY <1>1, <1>2, <1>3, PTL DEF Spec

(* The types of the editor, the shadow's capacity included: a full shadow  *)
(* loses bytes, it never grows (main.rs:753, 812).                         *)
THEOREM EditorTypeCorrect == Spec => []TypeOK
<1>1. CommandInv => TypeOK
  BY DEF CommandInv
<1>. QED
  BY <1>1, CommandInitially, CommandPreserved, PTL DEF Spec

(* On every line, of any length and with any mix of the two quote styles,  *)
(* the open quote is the one a walk over the shadow finds, unless the      *)
(* shadow is full (main.rs:610-625).                                       *)
THEOREM OpenQuoteIsTheShadows == Spec => []QuoteMatchesShadow
<1>1. CommandInv => QuoteMatchesShadow
  BY DEF CommandInv
<1>. QED
  BY <1>1, CommandInitially, CommandPreserved, PTL DEF Spec

(* The command menu runs is the visible line, delimiters dropped and       *)
(* quoted spaces joined, for as long as the line is intact                 *)
(* (main.rs:778-782).                                                      *)
THEOREM CommandIsTheLine == Spec => []IntactLineIsCommand
<1>1. CommandInv => IntactLineIsCommand
  BY DEF CommandInv, Coherent, IntactLineIsCommand, CommandIsVisibleLine
<1>. QED
  BY <1>1, CommandInitially, CommandPreserved, PTL DEF Spec

-----------------------------------------------------------------------------
(***************************************************************************)
(* The editor implements CommandLine: the line is the terminal's, the      *)
(* command is what menu holds, and it is sure while the line is intact.    *)
(***************************************************************************)
Shell == INSTANCE CommandLine
           WITH Capacity <- CliBufLen, Glyph <- Glyphs, Delimiters <- Quotes,
                Spelled <- Encode, line <- screen, command <- menuBuf, sure <- intact

ShellStep == [Shell!Next]_(Shell!vars)

LEMMA ShellSequences == \A s : Shell!Front(s) = Front(s) /\ Shell!Last(s) = Last(s)
BY DEF Shell!Front, Front, Shell!Last, Last

(* What one arm does to the shell.                                         *)
LEMMA TypingIsTyping ==
  ASSUME CommandInv, CommandInv', NEW g \in Glyphs, screen' = Append(screen, g),
         NEW h \in Glyphs, Remember(h), menuBuf' \in {menuBuf, Append(menuBuf, h)}
  PROVE  Shell!Next
<1>fits. Shell!Fits
  BY DEF Shell!Fits, CommandInv, MirrorInv, Inv, ForwardedMirrorsUsed
<1>nudge. Shell!Nudge
  BY <1>fits DEF Shell!Nudge
<1>1. CASE intact /\ Len(shadow) < CliBufLen
  <2>1. intact' /\ menuBuf' = Encode(screen')
    BY <1>1 DEF Remember, CommandInv, Coherent
  <2>2. Len(screen) = Len(shadow)
    BY <1>1 DEF CommandInv, MirrorInv, Mirrored, Mirror, TypeOK
  <2>. QED
    BY <1>1, <1>fits, <2>1, <2>2 DEF Shell!Next, Shell!Type
<1>2. CASE intact /\ ~(Len(shadow) < CliBufLen)
  <2>1. intact' = FALSE
    BY <1>2 DEF Remember
  <2>2. Len(screen) = Len(shadow) /\ Len(shadow) \in Nat
    BY <1>2 DEF CommandInv, MirrorInv, Mirrored, Mirror, TypeOK
  <2>. QED
    BY <1>2, <1>nudge, <2>1, <2>2, CapIsPositive DEF Shell!Next, Shell!Overrun
<1>3. CASE ~intact
  <2>1. intact' = FALSE /\ intact = FALSE
    BY <1>3 DEF Remember, CommandInv, TypeOK
  <2>. QED
    BY <1>nudge, <2>1 DEF Shell!Next, Shell!Unsure
<1>. QED
  BY <1>1, <1>2, <1>3

LEMMA LiteralQuoteIsErased ==
  ASSUME CommandInv, intact, shadow # <<>>
  PROVE  /\ screen # <<>> /\ Front(screen) = Mirror(Front(shadow))
         /\ ErasesLiteralQuote <=> Shell!EndsInLiteral
<1>. DEFINE f == Front(shadow)
            l == Last(shadow)
            q == RecomputeQuote(f)
            m == Mirror(f)
<1>1. shadow = Append(f, l) /\ f \in Seq(Glyphs) /\ l \in Glyphs
  BY AppendFrontLast DEF CommandInv, TypeOK
<1>2. Shown(l) \in Glyphs /\ m \in Seq(Glyphs) /\ RecomputeQuote(m) = q
  BY <1>1, MirrorIsLine, QuoteOfMirror DEF Shown, Glyphs
<1>3. screen = Append(m, Shown(l))
  BY <1>1, MirrorAppend DEF CommandInv, MirrorInv, Mirrored
<1>4. screen # <<>> /\ Front(screen) = m /\ Last(screen) = Shown(l)
  BY <1>2, <1>3, FrontAppend DEF Last
<1>5. q \in Quotes \cup {None}
  BY <1>1, QuoteType
<1>6. Encode(m) \in Seq(Glyphs) /\ US \in Glyphs
  BY <1>2, EncodeType DEF Glyphs
<1>. HIDE DEF f, l, q, m
<1>7. Encode(screen) # Encode(m) <=> QuoteStep(q, Shown(l)) = q
  <2>1. CASE QuoteStep(q, Shown(l)) # q
    BY <1>2, <1>3, <2>1, EncodeAppend
  <2>2. CASE QuoteStep(q, Shown(l)) = q
    <3>1. PICK g \in Glyphs : Encode(screen) = Append(Encode(m), g)
      BY <1>2, <1>3, <1>6, <2>2, EncodeAppend
    <3>2. Append(Encode(m), g) # Encode(m)
      BY <1>6
    <3>. QED
      BY <2>2, <3>1, <3>2
  <2>. QED
    BY <2>1, <2>2
<1>8. Shown(l) \in Quotes <=> l \in Quotes
  BY DEF Shown, Quotes, US
<1>9. l \in Quotes => Shown(l) = l /\ (QuoteStep(q, l) = q <=> q # None /\ l # q)
  BY <1>5 DEF Shown, Quotes, US, QuoteStep, None
<1>10. Shell!EndsInLiteral <=> l \in Quotes /\ q # None /\ l # q
  <2>1. Shell!EndsInLiteral <=> Shown(l) \in Quotes /\ Encode(screen) # Encode(m)
    BY <1>4, ShellSequences DEF Shell!EndsInLiteral
  <2>2. CASE l \in Quotes
    BY <1>7, <1>9, <2>1, <2>2
  <2>3. CASE l \notin Quotes
    BY <1>8, <2>1, <2>3
  <2>. QED
    BY <2>2, <2>3
<1>11. ErasesLiteralQuote <=> l \in Quotes /\ q # None /\ l # q
  BY DEF ErasesLiteralQuote, f, l, q
<1>. QED
  BY <1>4, <1>10, <1>11 DEF f, m

LEMMA EditorIsShell == CommandInv /\ [Next]_vars => ShellStep
<1>. SUFFICES ASSUME CommandInv, [Next]_vars PROVE ShellStep
  OBVIOUS
<1>after. CommandInv'
  BY CommandPreserved
<1>fits. Shell!Fits
  BY <1>after DEF Shell!Fits, CommandInv, MirrorInv, Inv, ForwardedMirrorsUsed
<1>1. ASSUME NEW b \in LineKeys, TypeQuote(b) PROVE ShellStep
  <2>1. b \in Glyphs /\ screen' = Append(screen, b) /\ Remember(b) /\ menuBuf' = menuBuf
    BY <1>1 DEF TypeQuote, Glyphs
  <2>. QED
    BY <1>after, <2>1, TypingIsTyping DEF ShellStep
<1>2. ASSUME NEW b \in LineKeys, TypeLiteral(b) PROVE ShellStep
  <2>1. b \in Glyphs /\ Sent(b) \in Glyphs
    BY <1>2, LiteralIsGlyph, SentIsGlyph DEF TypeLiteral
  <2>2. screen' = Append(screen, b) /\ Remember(Sent(b))
    BY <1>2 DEF TypeLiteral
  <2>3. menuBuf' \in {menuBuf, Append(menuBuf, Sent(b))}
    BY <1>2 DEF TypeLiteral, MenuAppend
  <2>. QED
    BY <1>after, <2>1, <2>2, <2>3, TypingIsTyping DEF ShellStep
<1>3. ASSUME NEW b \in LineKeys, Dropped(b) PROVE ShellStep
  BY <1>3 DEF Dropped, ShellStep, Shell!vars
<1>4. ASSUME Backspace PROVE ShellStep
  <2>1. shadow # <<>> /\ shadow' = Front(shadow)
        /\ intact' = (intact /\ ~ErasesLiteralQuote)
    BY <1>4 DEF Backspace
  <2>2. CASE intact /\ ~ErasesLiteralQuote
    <3>1. screen # <<>> /\ ~Shell!EndsInLiteral /\ Front(screen) = Mirror(Front(shadow))
      BY <2>1, <2>2, LiteralQuoteIsErased
    <3>2. intact' = TRUE /\ intact = TRUE
      BY <2>1, <2>2 DEF CommandInv, TypeOK
    <3>3. screen' = Front(screen) /\ menuBuf' = Encode(screen')
      BY <1>after, <2>1, <3>1, <3>2 DEF CommandInv, MirrorInv, Mirrored, Coherent
    <3>. QED
      <4>1. Shell!Erase
        BY <1>fits, <2>2, <3>1, <3>2, <3>3, ShellSequences DEF Shell!Erase
      <4>. QED
        BY <4>1 DEF ShellStep, Shell!Next
  <2>3. CASE intact /\ ErasesLiteralQuote
    <3>1. screen # <<>> /\ Shell!EndsInLiteral
      BY <2>1, <2>3, LiteralQuoteIsErased
    <3>2. Last(shadow) \in Quotes
      BY <2>3 DEF ErasesLiteralQuote
    <3>3. screen' = Front(screen) /\ menuBuf' = menuBuf
      BY <1>4, <3>1, <3>2 DEF Backspace, EraseGlyph
    <3>4. intact' = FALSE
      BY <2>1, <2>3
    <3>. QED
      <4>1. Shell!EraseLiteral
        BY <2>3, <3>1, <3>3, <3>4, ShellSequences DEF Shell!EraseLiteral
      <4>. QED
        BY <4>1 DEF ShellStep, Shell!Next
  <2>4. CASE ~intact
    <3>1. intact' = FALSE /\ intact = FALSE
      BY <2>1, <2>4 DEF CommandInv, TypeOK
    <3>2. screen' = screen \/ (screen # <<>> /\ screen' = Front(screen))
      BY <1>4 DEF Backspace, MenuBackspace, EraseGlyph
    <3>3. menuBuf' = menuBuf \/ (menuBuf # <<>> /\ menuBuf' = Front(menuBuf))
      BY <1>4 DEF Backspace, MenuBackspace
    <3>. QED
      <4>1. Shell!Nudge
        BY <1>fits, <3>3, ShellSequences DEF Shell!Nudge
      <4>2. Shell!Unsure
        BY <3>1, <3>2, <4>1, ShellSequences DEF Shell!Unsure
      <4>. QED
        BY <4>2 DEF ShellStep, Shell!Next
  <2>. QED
    BY <2>2, <2>3, <2>4
<1>5. ASSUME CarriageReturn PROVE ShellStep
  BY <1>5 DEF CarriageReturn, ShellStep, Shell!Next, Shell!Enter
<1>6. ASSUME LineFeed PROVE ShellStep
  <2>1. screen' = screen /\ menuBuf' = menuBuf /\ intact' = (intact /\ shadow = <<>>)
    BY <1>6 DEF LineFeed
  <2>2. CASE intact' = intact
    BY <2>1, <2>2 DEF ShellStep, Shell!vars
  <2>3. CASE intact /\ shadow # <<>>
    <3>1. screen # <<>>
      BY <2>3, LiteralQuoteIsErased
    <3>. QED
      BY <2>1, <2>3, <3>1 DEF ShellStep, Shell!Next, Shell!Break
  <2>. QED
    BY <2>1, <2>2, <2>3 DEF CommandInv, TypeOK
<1>7. CASE UNCHANGED vars
  BY <1>7 DEF vars, ShellStep, Shell!vars
<1>. QED
  BY <1>1, <1>2, <1>3, <1>4, <1>5, <1>6, <1>7 DEF Next, Input

(* Whatever is typed, in any order, the line the user sees is the command  *)
(* that will run, until one of CommandLine's three events (main.rs:610,    *)
(* 739-839); and then a key still changes the command by one byte at most, *)
(* within menu's buffer.                                                   *)
THEOREM EditorImplementsCommandLine == Spec => Shell!Spec
<1>1. Init => Shell!Init
  BY DEF Init, Shell!Init
<1>2. Spec => []CommandInv
  BY CommandInitially, CommandPreserved, PTL DEF Spec
<1>. QED
  BY <1>1, <1>2, EditorIsShell, PTL DEF Spec, Shell!Spec, ShellStep
=============================================================================
