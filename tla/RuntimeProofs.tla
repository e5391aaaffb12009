---------------------------- MODULE RuntimeProofs ----------------------------
(***************************************************************************)
(* The run-time library, what a call meets on its way back (Calls) and the *)
(* strings of a program (Text).                                            *)
(*                                                                         *)
(* Calls, for any threads, deferred blocks and depths: a deferred block    *)
(* runs exactly once and in the opposite order, and a caller goes on with  *)
(* the outcome of its call.                                                *)
(*                                                                         *)
(* Text, for any runes, bytes, units and indexes and for texts of any      *)
(* length: bytes, runes and UTF-16 units say the same but for the losses   *)
(* that the model lists, and the comparisons of strings agree.             *)
(***************************************************************************)
EXTENDS Calls, Text, SequenceTheorems, FiniteSetTheorems, WellFoundedInduction, TLAPS

\* Sets of natural numbers have a least element: the intervals 0 .. k are
\* finite, and inclusion of finite sets is well founded.
LEMMA LeastNat ==
  ASSUME NEW S \in SUBSET Nat, S # {}
  PROVE  \E m \in S : \A k \in S : m <= k
  <1> DEFINE T == {0 .. k : k \in S}
             R == StrictSubsetOrdering(Nat)
  <1>1. IsWellFoundedOn(R, FiniteSubsetsOf(Nat))
    BY FS_StrictSubsetOrderingWellFounded
  <1>2. T \subseteq FiniteSubsetsOf(Nat) /\ T # {}
    <2>1. \A k \in S : 0 .. k \subseteq Nat /\ IsFiniteSet(0 .. k)
      BY FS_Interval
    <2>2. QED  BY <2>1 DEF FiniteSubsetsOf
  <1>3. PICK x \in T : \A y \in T : <<y, x>> \notin R
    <2> HIDE DEF T, R
    <2>1. QED  BY <1>1, <1>2, WFMin
  <1>4. PICK m \in S : x = 0 .. m
    BY <1>3
  <1>5. ASSUME NEW k \in S, k < m PROVE FALSE
    <2>1. 0 .. k \subseteq 0 .. m /\ m \in 0 .. m /\ m \notin 0 .. k /\ 0 .. m \subseteq Nat
      BY <1>5
    <2>2. <<0 .. k, 0 .. m>> \in R
      BY <2>1 DEF StrictSubsetOrdering
    <2>3. QED  BY <1>3, <1>4, <2>2
  <1>6. QED  BY <1>5

-----------------------------------------------------------------------------
(* Calls: the inductive invariant.                                         *)

Hows == {"running", "end", "return", "error", "nil"}
Results == {"old", "given", "new"}

Frames ==
    [kind : {"function", "block", "deferred"}, exc : BOOLEAN, handler : BOOLEAN,
     defers : Seq(Blocks), how : Hows, res : Results,
     out : Results \union {"nothing", "variable"}, want : Results \union {"nothing"}]

\* What a function that is left will give: what its named result was, or the
\* result itself, which deferred blocks may have set since.
FrameOK(f) ==
    f.kind = "function" =>
        /\ f.how # "end"
        /\ f.how = "nil" => f.out = "nothing"
        /\ f.how = "return" => /\ f.want \in Results
                               /\ f.res \in {f.want, "new"}
                               /\ f.out = f.want \/ (~f.exc /\ f.out = "variable")

\* The bottom frame is a function whose call nothing follows.
Sound(w) ==
    /\ w \in Seq(Frames)
    /\ \A i \in DOMAIN w : FrameOK(w[i])
    /\ w # << >> => w[1].kind = "function" /\ ~w[1].handler

\* Block b is the one at p of those that frame i of w has deferred.
Waits(w, i, p, b) == i \in DOMAIN w /\ p \in DOMAIN w[i].defers /\ w[i].defers[p] = b

Met(b, t, n) == n \in DOMAIN met /\ met[n].block = b /\ met[n].thread = t

\* Only deferred blocks go beyond MaxDepth.
StackOK ==
    /\ stack \in [Threads -> Seq(Frames)]
    /\ \A t \in Threads : Sound(stack[t]) /\ Len(stack[t]) <= MaxDepth[t] + Len(ran)

MetOK ==
    /\ met \in Seq([block : Blocks, thread : Threads])
    /\ \A m, n \in DOMAIN met : met[m].block = met[n].block => m = n

RanOK ==
    /\ ran \in Seq(Blocks)
    /\ IsInjective(ran)
    /\ \A b \in Range(ran) : \E t \in Threads, n \in Nat : Met(b, t, n)

\* What waits has been met by the thread and has not run; deeper in the stack
\* is later.
WaitOK ==
    \A t \in Threads : \A i, p \in Nat : \A b \in Blocks : Waits(stack[t], i, p, b) =>
        /\ b \notin Range(ran)
        /\ \E n \in Nat : Met(b, t, n)
        /\ \A j, q, m, n \in Nat : \A c \in Blocks :
              (Waits(stack[t], j, q, c) /\ (j < i \/ (j = i /\ q < p)) /\ Met(b, t, n) /\ Met(c, t, m))
                 => m < n

\* Nothing that has been met is lost.
KeptOK ==
    \A t \in Threads : \A n \in Nat : \A b \in Blocks : Met(b, t, n) =>
        b \in Range(ran) \/ \E i, p \in Nat : Waits(stack[t], i, p, b)

SeenOK ==
    /\ seen.got \in {"unset", "old", "given", "new"} \/ seen = Nothing
    /\ ResultTaken /\ NoSilentFailure

IInv ==
    /\ StackOK /\ MetOK /\ RanOK /\ WaitOK /\ KeptOK /\ SeenOK
    /\ ended \in {"no", "exit", "panic", "trap"}

-----------------------------------------------------------------------------
(* Frames and stacks.                                                      *)

LEMMA NewFrame ==
  ASSUME NEW kind \in {"function", "block", "deferred"}, NEW exc \in BOOLEAN, NEW handler \in BOOLEAN
  PROVE  LET f == Frame(kind, exc, handler)
         IN  /\ f \in Frames /\ FrameOK(f)
             /\ f.kind = kind /\ f.handler = handler /\ f.defers = << >>
  <1>1. << >> \in Seq(Blocks)
    BY EmptySeq
  <1>2. QED  BY <1>1 DEF Frame, Frames, FrameOK, Hows, Results

\* A stack, frame by frame.
LEMMA StackFacts ==
  ASSUME NEW w, Sound(w)
  PROVE  /\ Len(w) \in Nat /\ DOMAIN w = 1 .. Len(w)
         /\ w # << >> <=> Len(w) >= 1
         /\ \A i \in 1 .. Len(w) : /\ w[i] \in Frames /\ FrameOK(w[i])
                                   /\ w[i].defers \in Seq(Blocks)
                                   /\ Len(w[i].defers) \in Nat
                                   /\ DOMAIN w[i].defers = 1 .. Len(w[i].defers)
  <1>1. w \in Seq(Frames)
    BY DEF Sound
  <1>2. Len(w) \in Nat /\ DOMAIN w = 1 .. Len(w) /\ \A i \in 1 .. Len(w) : w[i] \in Frames
    BY <1>1, LenProperties, ElementOfSeq
  <1>3. w # << >> <=> Len(w) >= 1
    BY <1>1, <1>2, EmptySeq
  <1>4. ASSUME NEW f \in Frames PROVE f.defers \in Seq(Blocks)
    BY <1>4 DEF Frames
  <1>5. ASSUME NEW i \in 1 .. Len(w)
        PROVE  /\ w[i].defers \in Seq(Blocks) /\ Len(w[i].defers) \in Nat
               /\ DOMAIN w[i].defers = 1 .. Len(w[i].defers)
    BY <1>2, <1>4, <1>5, LenProperties
  <1>6. QED  BY <1>2, <1>3, <1>5 DEF Sound

\* The stack without its innermost frame.
LEMMA FrontFacts ==
  ASSUME NEW S, NEW s \in Seq(S), s # << >>
  PROVE  /\ Front(s) \in Seq(S) /\ Len(Front(s)) = Len(s) - 1 /\ Len(s) >= 1
         /\ \A i \in 1 .. Len(s) - 1 : Front(s)[i] = s[i]
         /\ Last(s) = s[Len(s)] /\ Last(s) \in S
  <1>1. Len(s) \in Nat \ {0} /\ \A i \in 1 .. Len(s) : s[i] \in S
    BY EmptySeq, LenProperties, ElementOfSeq
  <1>2. \A i \in 1 .. Len(s) - 1 : s[i] \in S
    BY <1>1
  <1>3. /\ Front(s) \in Seq(S)
        /\ Len(Front(s)) = IF 1 <= Len(s) - 1 THEN Len(s) - 1 - 1 + 1 ELSE 0
        /\ \A i \in 1 .. Len(s) - 1 - 1 + 1 : Front(s)[i] = s[1 + i - 1]
    BY <1>1, <1>2, SubSeqProperties DEF Front
  <1>4. \A i \in 1 .. Len(s) - 1 : Front(s)[i] = s[i]
    <2>1. \A i \in 1 .. Len(s) - 1 : i \in 1 .. Len(s) - 1 - 1 + 1 /\ 1 + i - 1 = i
      BY <1>1
    <2>2. QED  BY <1>3, <2>1
  <1>5. Len(Front(s)) = Len(s) - 1
    <2>1. \A n \in Nat \ {0} : n - 1 - 1 + 1 = n - 1 /\ (1 <= n - 1 \/ n - 1 = 0)
      OBVIOUS
    <2>2. Len(s) - 1 - 1 + 1 = Len(s) - 1 /\ (1 <= Len(s) - 1 \/ Len(s) - 1 = 0)
      BY <1>1, <2>1, Zenon
    <2>3. QED  BY <1>3, <2>2, Zenon
  <1>6. QED  BY <1>1, <1>3, <1>4, <1>5 DEF Last

\* Two stacks hold the same deferred blocks.
SameWaits(w, s) == \A i, p \in Nat : \A b \in Blocks : Waits(w, i, p, b) <=> Waits(s, i, p, b)

\* A frame without deferred blocks is entered.
LEMMA Appended ==
  ASSUME NEW s, Sound(s), NEW f \in Frames, FrameOK(f), f.defers = << >>,
         s = << >> => f.kind = "function" /\ ~f.handler
  PROVE  /\ Sound(Append(s, f)) /\ Len(Append(s, f)) = Len(s) + 1
         /\ SameWaits(Append(s, f), s)
  <1> DEFINE w == Append(s, f)
  <1>1. s \in Seq(Frames)
    BY DEF Sound
  <1>2. /\ w \in Seq(Frames) /\ Len(w) = Len(s) + 1
        /\ \A i \in 1 .. Len(s) : w[i] = s[i]
        /\ w[Len(s) + 1] = f
    BY <1>1, AppendProperties
  <1>3. Len(s) \in Nat /\ DOMAIN s = 1 .. Len(s) /\ DOMAIN w = 1 .. Len(s) + 1
    BY <1>1, <1>2, LenProperties
  <1> HIDE DEF w
  <1>4. Sound(w)
    <2>1. \A i \in DOMAIN w : FrameOK(w[i])
      BY <1>2, <1>3 DEF Sound
    <2>2. w[1].kind = "function" /\ ~w[1].handler
      <3>1. CASE s = << >>
        BY <1>2, <1>3, <3>1, EmptySeq
      <3>2. CASE s # << >>
        <4>1. 1 \in 1 .. Len(s)
          BY <3>2, StackFacts
        <4>2. QED  BY <1>2, <3>2, <4>1 DEF Sound
      <3>3. QED  BY <3>1, <3>2
    <2>3. QED  BY <1>2, <2>1, <2>2 DEF Sound
  <1>5. SameWaits(w, s)
    <2>1. \A p : p \notin DOMAIN f.defers
      BY EmptySeq
    <2>2. QED  BY <1>2, <1>3, <2>1 DEF SameWaits, Waits
  <1>6. QED  BY <1>2, <1>4, <1>5 DEF w

\* The innermost frame is left; it has no deferred block any more.
LEMMA Popped ==
  ASSUME NEW s, Sound(s), s # << >>, Last(s).defers = << >>
  PROVE  /\ Sound(Front(s)) /\ Len(Front(s)) = Len(s) - 1
         /\ SameWaits(Front(s), s)
  <1> DEFINE w == Front(s)
  <1>1. s \in Seq(Frames)
    BY DEF Sound
  <1>2. /\ w \in Seq(Frames) /\ Len(w) = Len(s) - 1 /\ Len(s) >= 1
        /\ \A i \in 1 .. Len(s) - 1 : w[i] = s[i]
        /\ Last(s) = s[Len(s)]
    BY <1>1, FrontFacts
  <1>3. Len(s) \in Nat /\ DOMAIN s = 1 .. Len(s) /\ DOMAIN w = 1 .. Len(s) - 1
    BY <1>1, <1>2, LenProperties
  <1> HIDE DEF w
  <1>4. Sound(w)
    <2>1. \A i \in DOMAIN w : FrameOK(w[i])
      BY <1>2, <1>3 DEF Sound
    <2>2. w # << >> => w[1].kind = "function" /\ ~w[1].handler
      BY <1>2, <1>3, EmptySeq DEF Sound
    <2>3. QED  BY <1>2, <2>1, <2>2 DEF Sound
  <1>5. SameWaits(w, s)
    <2>1. \A p : p \notin DOMAIN s[Len(s)].defers
      BY <1>2, EmptySeq
    <2>2. QED  BY <1>2, <1>3, <2>1 DEF SameWaits, Waits
  <1>6. QED  BY <1>2, <1>4, <1>5 DEF w

\* The innermost frame is changed, but not in its deferred blocks.
LEMMA Retopped ==
  ASSUME NEW s, Sound(s), s # << >>, NEW f \in Frames, FrameOK(f),
         f.kind = Last(s).kind, f.handler = Last(s).handler
  PROVE  /\ Sound(Append(Front(s), f)) /\ Len(Append(Front(s), f)) = Len(s)
         /\ \A i \in 1 .. Len(s) - 1 : Append(Front(s), f)[i] = s[i]
         /\ Append(Front(s), f)[Len(s)] = f
  <1> DEFINE w == Append(Front(s), f)
  <1>1. s \in Seq(Frames)
    BY DEF Sound
  <1>2. /\ Front(s) \in Seq(Frames) /\ Len(Front(s)) = Len(s) - 1 /\ Len(s) >= 1
        /\ \A i \in 1 .. Len(s) - 1 : Front(s)[i] = s[i]
        /\ Last(s) = s[Len(s)]
    BY <1>1, FrontFacts
  <1>3. Len(s) \in Nat /\ DOMAIN s = 1 .. Len(s)
    BY <1>1, LenProperties
  <1>4. /\ w \in Seq(Frames) /\ Len(w) = Len(s)
        /\ \A i \in 1 .. Len(s) - 1 : w[i] = s[i]
        /\ w[Len(s)] = f
    <2>1. /\ w \in Seq(Frames) /\ Len(w) = Len(Front(s)) + 1
          /\ \A i \in 1 .. Len(Front(s)) : w[i] = Front(s)[i]
          /\ w[Len(Front(s)) + 1] = f
      BY <1>2, AppendProperties
    <2>2. QED  BY <1>2, <1>3, <2>1
  <1>5. DOMAIN w = 1 .. Len(s)
    BY <1>4, LenProperties
  <1> HIDE DEF w
  <1>6. \A i \in DOMAIN w : FrameOK(w[i])
    BY <1>3, <1>4, <1>5 DEF Sound
  <1>7. w[1].kind = "function" /\ ~w[1].handler
    <2>1. CASE Len(s) = 1
      BY <1>2, <1>4, <2>1 DEF Sound
    <2>2. CASE Len(s) # 1
      BY <1>2, <1>3, <1>4, <2>2 DEF Sound
    <2>3. QED  BY <2>1, <2>2
  <1>8. QED  BY <1>4, <1>6, <1>7 DEF Sound, w

-----------------------------------------------------------------------------
(* The function that a frame belongs to.                                   *)

\* There is one: the bottom frame is a function.
LEMMA OwnerFacts ==
  ASSUME NEW t, Sound(stack[t]), stack[t] # << >>
  PROVE  /\ Here(t) \in Nat /\ 1 <= Here(t) /\ Here(t) <= Len(stack[t])
         /\ stack[t][Here(t)].kind = "function"
         /\ \A j \in 1 .. Len(stack[t]) : Here(t) < j => stack[t][j].kind # "function"
  <1> DEFINE w == stack[t]
             L == Len(w)
             S == {n \in 0 .. L - 1 : w[L - n].kind = "function"}
  <1>1. L \in Nat /\ L >= 1 /\ w[1].kind = "function"
    BY StackFacts DEF Sound
  <1> HIDE DEF w, L
  <1>2. L - 1 \in S /\ S \in SUBSET Nat
    BY <1>1
  <1>3. PICK m \in S : \A n \in S : m <= n
    BY <1>2, LeastNat
  <1>4. L - m \in 1 .. L /\ w[L - m].kind = "function"
    BY <1>1, <1>3
  <1>5. \A j \in (L - m) + 1 .. L : w[j].kind # "function"
    <2>1. SUFFICES ASSUME NEW j \in (L - m) + 1 .. L, w[j].kind = "function" PROVE FALSE
      OBVIOUS
    <2>2. L - j \in 0 .. L - 1 /\ L - (L - j) = j /\ L - j < m
      BY <1>1, <1>3, <2>1
    <2>3. QED  BY <1>3, <2>1, <2>2
  <1>6. \E k \in 1 .. L : /\ w[k].kind = "function"
                          /\ \A j \in k + 1 .. L : w[j].kind # "function"
    BY <1>4, <1>5
  <1>7. /\ Here(t) \in 1 .. L /\ w[Here(t)].kind = "function"
        /\ \A j \in Here(t) + 1 .. L : w[j].kind # "function"
    BY <1>6 DEF Here, Owner, w, L
  <1>8. QED  BY <1>1, <1>7 DEF w, L

-----------------------------------------------------------------------------
(* Steps that leave the deferred blocks where they are.                    *)

LEMMA Settled ==
  ASSUME IInv, met' = met, ran' = ran,
         NEW t \in Threads, NEW w, stack' = [stack EXCEPT ![t] = w],
         Sound(w), Len(w) <= MaxDepth[t] + Len(ran), SameWaits(w, stack[t])
  PROVE  StackOK' /\ MetOK' /\ RanOK' /\ WaitOK' /\ KeptOK'
  <1>1. StackOK /\ MetOK /\ RanOK /\ WaitOK /\ KeptOK
    BY DEF IInv
  <1>2. stack'[t] = w /\ \A u \in Threads : u # t => stack'[u] = stack[u]
    BY <1>1 DEF StackOK
  <1>3. StackOK'
    BY <1>1, <1>2 DEF StackOK, Sound
  <1>4. \A u \in Threads : SameWaits(stack'[u], stack[u])
    BY <1>2 DEF SameWaits
  <1>5. \A b, u, n : Met(b, u, n)' <=> Met(b, u, n)
    BY DEF Met
  <1>6. MetOK' /\ RanOK'
    BY <1>1, <1>5 DEF MetOK, RanOK
  <1>7. WaitOK'
    BY <1>1, <1>4, <1>5 DEF WaitOK, SameWaits
  <1>8. KeptOK'
    BY <1>1, <1>4, <1>5 DEF KeptOK, SameWaits
  <1>9. QED  BY <1>3, <1>6, <1>7, <1>8

LEMMA NothingSeen == ASSUME seen' = Nothing PROVE SeenOK'
  BY DEF SeenOK, Nothing, ResultTaken, NoSilentFailure

LEMMA InitIInv == Init => IInv
  <1> SUFFICES ASSUME Init PROVE IInv
    OBVIOUS
  <1> DEFINE f == Frame("function", FALSE, FALSE)
  <1>1. f \in Frames /\ FrameOK(f) /\ f.kind = "function" /\ f.handler = FALSE /\ f.defers = << >>
    BY NewFrame
  <1> HIDE DEF f
  <1>2. stack = [t \in Threads |-> IF t = Main THEN <<f>> ELSE << >>] /\ met = << >> /\ ran = << >>
    BY DEF Init, f
  <1>3. /\ <<f>> \in Seq(Frames) /\ Len(<<f>>) = 1 /\ DOMAIN <<f>> = 1 .. 1 /\ <<f>>[1] = f
        /\ << >> \in Seq(Frames) /\ Len(<< >>) = 0 /\ \A i : i \notin DOMAIN << >>
    BY <1>1, EmptySeq
  <1>4. Sound(<<f>>) /\ Sound(<< >>)
    BY <1>1, <1>3 DEF Sound
  <1>5. StackOK
    BY <1>2, <1>3, <1>4, ConstantAssumption DEF StackOK
  <1>6. \A t \in Threads : \A i, p, b : ~Waits(stack[t], i, p, b)
    BY <1>1, <1>2, <1>3 DEF Waits
  <1>7. \A b, t, n : ~Met(b, t, n)
    BY <1>2, <1>3 DEF Met
  <1>8. MetOK /\ RanOK
    BY <1>2, <1>3, EmptySeq DEF MetOK, RanOK, IsInjective, Range
  <1>9. WaitOK /\ KeptOK
    BY <1>6, <1>7 DEF WaitOK, KeptOK
  <1>10. SeenOK
    BY DEF Init, SeenOK, Nothing, ResultTaken, NoSilentFailure
  <1>11. QED  BY <1>5, <1>8, <1>9, <1>10 DEF IInv, Init

LEMMA StopIInv ==
  ASSUME NEW why \in {"panic", "trap"}, Stop(why) PROVE IInv'
  <1>1. /\ stack' = [t \in Threads |-> << >>] /\ met' = << >> /\ ran' = << >>
        /\ seen' = Nothing /\ ended' = why
    BY DEF Stop
  <1>2. << >> \in Seq(Frames) /\ Len(<< >>) = 0 /\ \A i : i \notin DOMAIN << >>
    BY EmptySeq
  <1>3. Sound(<< >>)
    BY <1>2 DEF Sound
  <1>4. StackOK'
    BY <1>1, <1>2, <1>3, ConstantAssumption DEF StackOK
  <1>5. \A t \in Threads : \A i, p, b : ~Waits(stack'[t], i, p, b)
    BY <1>1, <1>2 DEF Waits
  <1>6. \A b, t, n : ~Met(b, t, n)'
    BY <1>1, <1>2 DEF Met
  <1>7. MetOK' /\ RanOK'
    BY <1>1, <1>2, EmptySeq DEF MetOK, RanOK, IsInjective, Range
  <1>8. WaitOK' /\ KeptOK'
    BY <1>5, <1>6 DEF WaitOK, KeptOK
  <1>9. QED  BY <1>1, <1>4, <1>7, <1>8, NothingSeen DEF IInv

\* Enter, Call, Co.
LEMMA PushIInv ==
  ASSUME IInv, NEW t \in Threads, NEW kind \in {"function", "block"},
         NEW exc \in BOOLEAN, NEW handler \in BOOLEAN,
         Push(t, Frame(kind, exc, handler)), seen' = Nothing, UNCHANGED <<met, ran, ended>>,
         Len(stack[t]) < MaxDepth[t],
         stack[t] = << >> => kind = "function" /\ ~handler
  PROVE  IInv'
  <1> DEFINE f == Frame(kind, exc, handler)
             w == Append(stack[t], f)
  <1>1. f \in Frames /\ FrameOK(f) /\ f.kind = kind /\ f.handler = handler /\ f.defers = << >>
    BY NewFrame
  <1>2. Sound(stack[t]) /\ Len(stack[t]) \in Nat
    BY StackFacts DEF IInv, StackOK
  <1>3. stack' = [stack EXCEPT ![t] = w]
    BY DEF Push
  <1> HIDE DEF f
  <1>4. Sound(w) /\ Len(w) = Len(stack[t]) + 1 /\ SameWaits(w, stack[t])
    BY <1>1, <1>2, Appended
  <1>5. Len(ran) \in Nat /\ MaxDepth[t] \in Nat
    BY ConstantAssumption, LenProperties DEF IInv, RanOK
  <1>6. Len(w) <= MaxDepth[t] + Len(ran)
    BY <1>2, <1>4, <1>5
  <1> HIDE DEF w
  <1>7. QED  BY <1>3, <1>4, <1>6, Settled, NothingSeen DEF IInv

\* A frame is changed, field by field.
LEMMA FieldTypes ==
  ASSUME NEW f \in Frames
  PROVE  /\ f.kind \in {"function", "block", "deferred"} /\ f.exc \in BOOLEAN /\ f.handler \in BOOLEAN
         /\ f.defers \in Seq(Blocks) /\ f.how \in Hows /\ f.res \in Results
         /\ f.out \in Results \union {"nothing", "variable"} /\ f.want \in Results \union {"nothing"}
  BY DEF Frames

SameCall(f, g) == g.kind = f.kind /\ g.exc = f.exc /\ g.handler = f.handler

LEMMA WithDefers ==
  ASSUME NEW f \in Frames, NEW x \in Seq(Blocks)
  PROVE  LET g == [f EXCEPT !.defers = x]
         IN  g \in Frames /\ SameCall(f, g) /\ g.defers = x /\ g.how = f.how /\ g.res = f.res /\ g.out = f.out /\ g.want = f.want
  <1>1. [f EXCEPT !.defers = x] = [kind |-> f.kind, exc |-> f.exc, handler |-> f.handler,
           defers |-> x, how |-> f.how, res |-> f.res, out |-> f.out, want |-> f.want]
    BY DEF Frames
  <1>2. QED  BY <1>1, FieldTypes DEF Frames, SameCall

LEMMA WithHow ==
  ASSUME NEW f \in Frames, NEW x \in Hows
  PROVE  LET g == [f EXCEPT !.how = x]
         IN  g \in Frames /\ SameCall(f, g) /\ g.how = x /\ g.defers = f.defers /\ g.res = f.res /\ g.out = f.out /\ g.want = f.want
  <1>1. [f EXCEPT !.how = x] = [kind |-> f.kind, exc |-> f.exc, handler |-> f.handler,
           defers |-> f.defers, how |-> x, res |-> f.res, out |-> f.out, want |-> f.want]
    BY DEF Frames
  <1>2. QED  BY <1>1, FieldTypes DEF Frames, SameCall

LEMMA WithRes ==
  ASSUME NEW f \in Frames, NEW x \in Results
  PROVE  LET g == [f EXCEPT !.res = x]
         IN  g \in Frames /\ SameCall(f, g) /\ g.res = x /\ g.defers = f.defers /\ g.how = f.how /\ g.out = f.out /\ g.want = f.want
  <1>1. [f EXCEPT !.res = x] = [kind |-> f.kind, exc |-> f.exc, handler |-> f.handler,
           defers |-> f.defers, how |-> f.how, res |-> x, out |-> f.out, want |-> f.want]
    BY DEF Frames
  <1>2. QED  BY <1>1, FieldTypes DEF Frames, SameCall

LEMMA WithOut ==
  ASSUME NEW f \in Frames, NEW x \in Results \union {"nothing", "variable"}
  PROVE  LET g == [f EXCEPT !.out = x]
         IN  g \in Frames /\ SameCall(f, g) /\ g.out = x /\ g.defers = f.defers /\ g.how = f.how /\ g.res = f.res /\ g.want = f.want
  <1>1. [f EXCEPT !.out = x] = [kind |-> f.kind, exc |-> f.exc, handler |-> f.handler,
           defers |-> f.defers, how |-> f.how, res |-> f.res, out |-> x, want |-> f.want]
    BY DEF Frames
  <1>2. QED  BY <1>1, FieldTypes DEF Frames, SameCall

LEMMA WithWant ==
  ASSUME NEW f \in Frames, NEW x \in Results \union {"nothing"}
  PROVE  LET g == [f EXCEPT !.want = x]
         IN  g \in Frames /\ SameCall(f, g) /\ g.want = x /\ g.defers = f.defers /\ g.how = f.how /\ g.res = f.res /\ g.out = f.out
  <1>1. [f EXCEPT !.want = x] = [kind |-> f.kind, exc |-> f.exc, handler |-> f.handler,
           defers |-> f.defers, how |-> f.how, res |-> f.res, out |-> f.out, want |-> x]
    BY DEF Frames
  <1>2. QED  BY <1>1, FieldTypes DEF Frames, SameCall

Outcome(f, how, res, out) == [f EXCEPT !.how = how, !.res = res, !.out = out, !.want = res]

LEMMA WithOutcome ==
  ASSUME NEW f \in Frames, NEW how \in Hows, NEW res \in Results,
         NEW out \in Results \union {"nothing", "variable"}
  PROVE  LET g == Outcome(f, how, res, out)
         IN  /\ g \in Frames /\ SameCall(f, g) /\ g.defers = f.defers /\ g.how = how
             /\ g.res = res /\ g.out = out /\ g.want = res
  <1> DEFINE e == [f EXCEPT !.how = how]
             g == [e EXCEPT !.res = res]
             h == [g EXCEPT !.out = out]
             l == [h EXCEPT !.want = res]
  <1>1. Outcome(f, how, res, out) = l
    BY DEF Outcome
  <1>2. e \in Frames /\ SameCall(f, e) /\ e.defers = f.defers /\ e.how = how
    BY WithHow
  <1> HIDE DEF e
  <1>3. g \in Frames /\ SameCall(f, g) /\ g.defers = f.defers /\ g.how = how /\ g.res = res
    BY <1>2, WithRes DEF SameCall
  <1> HIDE DEF g
  <1>4. /\ h \in Frames /\ SameCall(g, h) /\ h.defers = g.defers /\ h.how = g.how
        /\ h.res = g.res /\ h.out = out
    BY <1>3, WithOut
  <1> HIDE DEF h
  <1>5. /\ l \in Frames /\ SameCall(h, l) /\ l.defers = h.defers /\ l.how = h.how
        /\ l.res = h.res /\ l.out = h.out /\ l.want = res
    BY <1>4, WithWant
  <1> HIDE DEF l
  <1>6. QED  BY <1>1, <1>3, <1>4, <1>5 DEF SameCall

Rest(f, d, r) == [f EXCEPT !.defers = d, !.res = r]

LEMMA WithResult ==
  ASSUME NEW f \in Frames, NEW d \in Seq(Blocks), NEW r \in Results
  PROVE  LET g == Rest(f, d, r)
         IN  /\ g \in Frames /\ SameCall(f, g) /\ g.defers = d /\ g.how = f.how
             /\ g.res = r /\ g.out = f.out /\ g.want = f.want
  <1> DEFINE g == [f EXCEPT !.defers = d]
             h == [g EXCEPT !.res = r]
  <1>1. Rest(f, d, r) = h
    BY DEF Rest
  <1>2. /\ g \in Frames /\ SameCall(f, g) /\ g.defers = d /\ g.how = f.how
        /\ g.out = f.out /\ g.want = f.want
    BY WithDefers
  <1> HIDE DEF g
  <1>3. /\ h \in Frames /\ SameCall(g, h) /\ h.defers = g.defers /\ h.how = g.how
        /\ h.res = r /\ h.out = g.out /\ h.want = g.want
    BY <1>2, WithRes
  <1> HIDE DEF h
  <1>4. QED  BY <1>1, <1>2, <1>3 DEF SameCall

-----------------------------------------------------------------------------
(* The actions.                                                            *)

\* What every action of a thread that runs or leaves starts from.
LEMMA Running ==
  ASSUME IInv, NEW t \in Threads, stack[t] # << >>
  PROVE  /\ stack[t] \in Seq(Frames) /\ Sound(stack[t])
         /\ Len(stack[t]) \in Nat /\ Len(stack[t]) >= 1 /\ DOMAIN stack[t] = 1 .. Len(stack[t])
         /\ Len(stack[t]) <= MaxDepth[t] + Len(ran)
         /\ Len(ran) \in Nat /\ MaxDepth[t] \in Nat
         /\ Top(t) = stack[t][Len(stack[t])] /\ Top(t) \in Frames /\ FrameOK(Top(t))
  <1>1. Sound(stack[t]) /\ Len(stack[t]) <= MaxDepth[t] + Len(ran) /\ stack[t] \in Seq(Frames)
    BY DEF IInv, StackOK
  <1>2. Len(ran) \in Nat /\ MaxDepth[t] \in Nat
    BY ConstantAssumption, LenProperties DEF IInv, RanOK
  <1>3. Len(stack[t]) \in Nat /\ Len(stack[t]) >= 1 /\ DOMAIN stack[t] = 1 .. Len(stack[t])
    BY <1>1, StackFacts
  <1>4. Top(t) = stack[t][Len(stack[t])]
    BY DEF Top, Last
  <1>5. Top(t) \in Frames /\ FrameOK(Top(t))
    BY <1>1, <1>3, <1>4, StackFacts
  <1>6. QED  BY <1>1, <1>2, <1>3, <1>4, <1>5

LEMMA EndIInv == ASSUME IInv, NEW t \in Threads, End(t) PROVE IInv'
  <1> DEFINE s == stack[t]
             f == [Top(t) EXCEPT !.how = "end"]
             w == Append(Front(s), f)
  <1>1. s # << >> /\ Top(t).kind # "function"
    BY DEF End, Runs
  <1>2. stack' = [stack EXCEPT ![t] = w]
    BY DEF End, SetTop
  <1>3. f \in Frames /\ SameCall(Top(t), f) /\ f.defers = Top(t).defers
    BY <1>1, Running, WithHow DEF Hows
  <1> HIDE DEF f
  <1>4. FrameOK(f) /\ f.kind = Last(s).kind /\ f.handler = Last(s).handler
    BY <1>1, <1>3 DEF FrameOK, SameCall, Top
  <1>5. /\ Sound(w) /\ Len(w) = Len(s)
        /\ \A i \in 1 .. Len(s) - 1 : w[i] = s[i]
        /\ w[Len(s)] = f
    BY <1>1, <1>3, <1>4, Running, Retopped
  <1>6. DOMAIN s = 1 .. Len(s) /\ DOMAIN w = 1 .. Len(s) /\ Len(s) \in Nat
    BY <1>1, <1>5, Running, StackFacts
  <1>7. s[Len(s)] = Top(t)
    BY DEF Top, Last
  <1> HIDE DEF w, s
  <1>8. SameWaits(w, s)
    BY <1>3, <1>5, <1>6, <1>7 DEF SameWaits, Waits
  <1>9. Len(w) <= MaxDepth[t] + Len(ran)
    BY <1>1, <1>5, Running DEF s
  <1>10. QED  BY <1>2, <1>5, <1>8, <1>9, Settled, NothingSeen DEF End, IInv, s

\* What Leave makes of a stack s of which k is the last function.
LEMMA UnwoundFacts ==
  ASSUME NEW s, Sound(s), s # << >>,
         NEW k \in Nat, 1 <= k, k <= Len(s),
         \A j \in 1 .. Len(s) : k < j => s[j].kind # "function",
         NEW how \in {"return", "nil", "error"}, NEW res \in Results,
         NEW out \in Results \union {"nothing", "variable"},
         how = "return" => out \in Out(s[k], res),
         how = "nil" => out = "nothing"
  PROVE  LET w == Unwound(s, k, how, res, out)
         IN  Sound(w) /\ Len(w) = Len(s) /\ SameWaits(w, s)
  <1> DEFINE w == Unwound(s, k, how, res, out)
             L == Len(s)
  <1>1. L \in Nat /\ L >= 1 /\ k \in Nat /\ k >= 1 /\ k <= L
    BY StackFacts
  <1>2. /\ DOMAIN s = 1 .. L
        /\ \A i \in 1 .. L : /\ s[i] \in Frames /\ FrameOK(s[i])
                             /\ k < i => s[i].kind # "function"
    BY StackFacts
  <1>3. w = [i \in 1 .. L |->
               IF i < k THEN s[i]
               ELSE IF i > k THEN [s[i] EXCEPT !.how = how]
               ELSE [s[i] EXCEPT !.how = how, !.res = res, !.out = out, !.want = res]]
    BY <1>2 DEF Unwound
  <1> HIDE DEF w, L
  <1>4. ASSUME NEW i \in 1 .. L
        PROVE  /\ w[i] \in Frames /\ FrameOK(w[i])
               /\ w[i].kind = s[i].kind /\ w[i].handler = s[i].handler /\ w[i].defers = s[i].defers
    <2>1. s[i] \in Frames /\ FrameOK(s[i]) /\ how \in Hows
      BY <1>2, <1>4 DEF Hows
    <2>2. w[i] = IF i < k THEN s[i]
                 ELSE IF i > k THEN [s[i] EXCEPT !.how = how]
                 ELSE [s[i] EXCEPT !.how = how, !.res = res, !.out = out, !.want = res]
      BY <1>3, <1>4, Zenon
    <2>3. i \in Nat /\ k \in Nat /\ i <= L
      BY <1>1, <1>4
    <2>4. CASE i < k
      <3>1. w[i] = s[i]
        BY <2>2, <2>4, Zenon
      <3>2. QED  BY <2>1, <3>1
    <2>5. CASE i > k
      <3>1. ~(i < k) /\ k < i
        BY <2>3, <2>5
      <3>2. w[i] = [s[i] EXCEPT !.how = how]
        BY <2>2, <2>5, <3>1, Zenon
      <3>3. /\ w[i] \in Frames /\ SameCall(s[i], w[i]) /\ w[i].defers = s[i].defers
        BY <2>1, <3>2, WithHow
      <3>4. s[i].kind # "function"
        BY <1>2, <1>4, <3>1
      <3>5. QED  BY <3>3, <3>4 DEF SameCall, FrameOK
    <2>6. CASE i = k
      <3>1. ~(i < k) /\ ~(i > k)
        BY <2>3, <2>6
      <3>2. w[i] = Outcome(s[i], how, res, out)
        BY <2>2, <3>1, Zenon DEF Outcome
      <3>3. /\ w[i] \in Frames /\ SameCall(s[i], w[i]) /\ w[i].defers = s[i].defers
            /\ w[i].how = how /\ w[i].res = res /\ w[i].out = out /\ w[i].want = res
        BY <2>1, <3>2, WithOutcome
      <3>4. how = "return" => out \in Out(s[i], res)
        BY <2>6
      <3>5. FrameOK(w[i])
        BY <3>3, <3>4 DEF FrameOK, SameCall, Out
      <3>6. QED  BY <3>3, <3>5 DEF SameCall
    <2>7. QED  BY <2>3, <2>4, <2>5, <2>6
  <1>5. w \in Seq(Frames) /\ Len(w) = L /\ DOMAIN w = 1 .. L
    <2>1. w = [i \in 1 .. L |-> w[i]] /\ DOMAIN w = 1 .. L
      BY <1>3, Zenon
    <2>2. w \in [1 .. L -> Frames]
      BY <1>4, <2>1
    <2>3. QED  BY <1>1, <2>1, <2>2
  <1>6. Sound(w)
    <2>1. 1 \in 1 .. L
      BY <1>1
    <2>2. s[1].kind = "function" /\ ~s[1].handler
      BY DEF Sound
    <2>3. w[1].kind = "function" /\ ~w[1].handler
      BY <1>4, <2>1, <2>2
    <2>4. QED  BY <1>4, <1>5, <2>3 DEF Sound
  <1>7. SameWaits(w, s)
    BY <1>2, <1>4, <1>5 DEF SameWaits, Waits
  <1>8. QED  BY <1>5, <1>6, <1>7 DEF w, L

\* Return, Raise.
LEMMA LeaveIInv ==
  ASSUME IInv, NEW t \in Threads, NEW how \in {"return", "nil", "error"},
         NEW res \in Results, NEW out \in Results \union {"nothing", "variable"},
         how = "return" => out \in Out(stack[t][Here(t)], res),
         how = "nil" => out = "nothing",
         Leave(t, how, res, out)
  PROVE  IInv'
  <1> DEFINE w == Unwound(stack[t], Here(t), how, res, out)
  <1>1. stack[t] # << >>
    BY DEF Leave, Runs
  <1>2. stack' = [stack EXCEPT ![t] = w]
    BY DEF Leave
  <1>3. Sound(stack[t]) /\ Len(stack[t]) <= MaxDepth[t] + Len(ran)
    BY <1>1, Running
  <1>4. /\ Here(t) \in Nat /\ 1 <= Here(t) /\ Here(t) <= Len(stack[t])
        /\ \A j \in 1 .. Len(stack[t]) : Here(t) < j => stack[t][j].kind # "function"
    BY <1>1, <1>3, OwnerFacts
  <1>5. Sound(w) /\ Len(w) = Len(stack[t]) /\ SameWaits(w, stack[t])
    BY <1>1, <1>3, <1>4, UnwoundFacts
  <1> HIDE DEF w
  <1>6. QED  BY <1>2, <1>3, <1>5, Settled, NothingSeen DEF Leave, IInv

\* The result of the function that a running thread is in.
LEMMA HereResult ==
  ASSUME IInv, NEW t \in Threads, stack[t] # << >>
  PROVE  stack[t][Here(t)].res \in Results
  <1>1. stack[t][Here(t)] \in Frames
    BY Running, OwnerFacts, StackFacts
  <1>2. QED  BY <1>1, FieldTypes

LEMMA ReturnIInv ==
  ASSUME IInv, NEW t \in Threads, NEW expr \in BOOLEAN, Return(t, expr) PROVE IInv'
  <1> DEFINE f == stack[t][Here(t)]
             res == setResult(f, expr)
  <1>1. PICK out \in Out(f, res) : Leave(t, "return", res, out)
    BY DEF Return
  <1>2. stack[t] # << >>
    BY DEF Return, Runs
  <1>3. res \in Results
    BY <1>2, HereResult DEF setResult, Results
  <1> HIDE DEF res
  <1>4. out \in Results \union {"nothing", "variable"}
    BY <1>3 DEF Out
  <1>5. QED  BY <1>1, <1>3, <1>4, LeaveIInv

LEMMA RaiseIInv == ASSUME IInv, NEW t \in Threads, NEW nil \in BOOLEAN, Raise(t, nil) PROVE IInv'
  <1> DEFINE res == stack[t][Here(t)].res
  <1>1. Leave(t, IF nil THEN "nil" ELSE "error", res, "nothing")
    BY DEF Raise
  <1>2. res \in Results
    BY HereResult DEF Raise, Runs
  <1> HIDE DEF res
  <1>3. CASE nil
    BY <1>1, <1>2, <1>3, LeaveIInv
  <1>4. CASE ~nil
    BY <1>1, <1>2, <1>4, LeaveIInv
  <1>5. QED  BY <1>3, <1>4

\* PopBlock, and PopFunction back in a caller.
LEMMA PopIInv ==
  ASSUME IInv, NEW t \in Threads, stack[t] # << >>, Top(t).defers = << >>,
         stack' = [stack EXCEPT ![t] = Front(@)], UNCHANGED <<met, ran>>
  PROVE  StackOK' /\ MetOK' /\ RanOK' /\ WaitOK' /\ KeptOK'
  <1> DEFINE w == Front(stack[t])
  <1>1. stack' = [stack EXCEPT ![t] = w]
    OBVIOUS
  <1>2. Sound(stack[t]) /\ Len(stack[t]) \in Nat /\ Len(stack[t]) <= MaxDepth[t] + Len(ran)
        /\ Len(ran) \in Nat /\ MaxDepth[t] \in Nat
    BY Running
  <1>3. Sound(w) /\ Len(w) = Len(stack[t]) - 1 /\ SameWaits(w, stack[t])
    BY <1>2, Popped DEF Top
  <1> HIDE DEF w
  <1>4. Len(w) <= MaxDepth[t] + Len(ran)
    BY <1>2, <1>3
  <1>5. QED  BY <1>1, <1>3, <1>4, Settled

LEMMA PopFunctionIInv == ASSUME IInv, NEW t \in Threads, PopFunction(t) PROVE IInv'
  <1> DEFINE f == Top(t)
             s == stack[t]
  <1>1. /\ s # << >> /\ f.how # "running" /\ f.defers = << >> /\ f.kind = "function"
        /\ ended = "no"
    BY DEF PopFunction, Leaves
  <1>2. f \in Frames /\ FrameOK(f)
    BY <1>1, Running
  <1>3. CASE Stop("panic")
    BY <1>3, StopIInv
  <1>4. CASE /\ ~Ok(f) /\ f.handler
             /\ stack' = [stack EXCEPT ![t] = Append(Front(s), Frame("block", FALSE, FALSE))]
             /\ seen' = Nothing /\ UNCHANGED <<met, ran, ended>>
    <2> DEFINE g == Frame("block", FALSE, FALSE)
               w == Append(Front(s), g)
    <2>1. g \in Frames /\ FrameOK(g) /\ g.defers = << >>
      BY NewFrame
    <2>2. /\ Sound(s) /\ Len(s) \in Nat /\ Len(s) >= 1 /\ Len(s) <= MaxDepth[t] + Len(ran)
          /\ f = s[Len(s)]
      BY <1>1, Running
    <2>3. Len(s) # 1
      BY <1>1, <1>4, <2>2 DEF Sound
    <2>4. Sound(Front(s)) /\ Len(Front(s)) = Len(s) - 1 /\ SameWaits(Front(s), s)
      BY <1>1, <2>2, Popped DEF Top
    <2>5. Front(s) # << >>
      <3>1. \A n \in Nat : n >= 1 /\ n # 1 => n - 1 >= 1
        OBVIOUS
      <3>2. Len(s) - 1 >= 1
        BY <2>2, <2>3, <3>1
      <3>3. QED  BY <2>4, <3>2, StackFacts
    <2> HIDE DEF g
    <2>6. Sound(w) /\ Len(w) = Len(Front(s)) + 1 /\ SameWaits(w, Front(s))
      BY <2>1, <2>4, <2>5, Appended
    <2>7. stack' = [stack EXCEPT ![t] = w]
      BY <1>4 DEF g
    <2> HIDE DEF w
    <2>8. SameWaits(w, s) /\ Len(w) <= MaxDepth[t] + Len(ran)
      BY <2>2, <2>4, <2>6 DEF SameWaits
    <2>9. QED  BY <1>4, <2>6, <2>7, <2>8, Settled, NothingSeen DEF IInv
  <1>5. CASE /\ Ok(f)
             /\ stack' = [stack EXCEPT ![t] = Front(s)]
             /\ seen' = [exc |-> f.exc, how |-> f.how, want |-> f.want, got |-> Got(f)]
             /\ ended' = IF t = Main /\ Front(s) = << >> THEN "exit" ELSE ended
             /\ UNCHANGED <<met, ran>>
    <2>1. StackOK' /\ MetOK' /\ RanOK' /\ WaitOK' /\ KeptOK'
      BY <1>1, <1>5, PopIInv
    <2>2. f.how \in {"return", "nil"}
      <3>1. f.how \in Hows
        BY <1>2, FieldTypes
      <3>2. QED  BY <1>1, <1>2, <1>5, <3>1 DEF Hows, Ok, FrameOK
    <2>3. /\ f.how = "nil" => Got(f) = "unset"
          /\ f.how = "return" => /\ Got(f) \in Results /\ Got(f) \in {f.want, "new"}
                                 /\ f.exc => Got(f) = f.want
      BY <1>1, <1>2 DEF FrameOK, Got, Results
    <2>4. SeenOK'
      BY <1>5, <2>2, <2>3 DEF SeenOK, ResultTaken, NoSilentFailure, Results
    <2>5. QED  BY <1>1, <1>5, <2>1, <2>4 DEF IInv
  <1>6. QED  BY <1>3, <1>4, <1>5 DEF PopFunction

\* A block waits in one place only.
LEMMA OnePlace ==
  ASSUME IInv, NEW t \in Threads, NEW b \in Blocks,
         NEW i \in Nat, NEW p \in Nat, NEW j \in Nat, NEW q \in Nat,
         Waits(stack[t], i, p, b), Waits(stack[t], j, q, b)
  PROVE  i = j /\ p = q
  <1>1. PICK n \in Nat : Met(b, t, n)
    BY DEF IInv, WaitOK
  <1>2. ~(j < i \/ (j = i /\ q < p))
    <2>1. SUFFICES ASSUME j < i \/ (j = i /\ q < p) PROVE n < n
      BY <1>1
    <2>2. QED  BY <1>1, <2>1 DEF IInv, WaitOK
  <1>3. ~(i < j \/ (i = j /\ p < q))
    <2>1. SUFFICES ASSUME i < j \/ (i = j /\ p < q) PROVE n < n
      BY <1>1
    <2>2. QED  BY <1>1, <2>1 DEF IInv, WaitOK
  <1>4. QED  BY <1>2, <1>3

\* Where blocks wait, and which were met, are positions of sequences.
LEMMA Positions ==
  ASSUME IInv, NEW t \in Threads
  PROVE  /\ \A i, p, b : Waits(stack[t], i, p, b) =>
               /\ i \in 1 .. Len(stack[t]) /\ p \in 1 .. Len(stack[t][i].defers)
               /\ b = stack[t][i].defers[p] /\ b \in Blocks
         /\ \A b, n : Met(b, t, n) => n \in 1 .. Len(met)
         /\ Len(met) \in Nat /\ DOMAIN met = 1 .. Len(met)
  <1>1. Len(met) \in Nat /\ DOMAIN met = 1 .. Len(met)
    BY LenProperties DEF IInv, MetOK
  <1>2. Sound(stack[t])
    BY DEF IInv, StackOK
  <1>3. ASSUME NEW i, NEW p, NEW b, Waits(stack[t], i, p, b)
        PROVE  /\ i \in 1 .. Len(stack[t]) /\ p \in 1 .. Len(stack[t][i].defers)
               /\ b = stack[t][i].defers[p] /\ b \in Blocks
    <2>1. i \in 1 .. Len(stack[t])
      BY <1>2, <1>3, StackFacts DEF Waits
    <2>2. stack[t][i].defers \in Seq(Blocks) /\ DOMAIN stack[t][i].defers = 1 .. Len(stack[t][i].defers)
      BY <1>2, <2>1, StackFacts
    <2>3. p \in 1 .. Len(stack[t][i].defers) /\ b = stack[t][i].defers[p]
      BY <1>3, <2>2 DEF Waits
    <2>4. QED  BY <2>1, <2>2, <2>3, ElementOfSeq
  <1>4. QED  BY <1>1, <1>3 DEF Met

\* Where the blocks wait after Defer: one more, at the end of the last frame.
LEMMA DeferStack ==
  ASSUME NEW s, Sound(s), s # << >>, NEW b \in Blocks
  PROVE  LET f == [Last(s) EXCEPT !.defers = Append(@, b)]
             w == Append(Front(s), f)
         IN  /\ Sound(w) /\ Len(w) = Len(s)
             /\ \A i, p \in Nat : \A c \in Blocks :
                   Waits(w, i, p, c) <=>
                      \/ Waits(s, i, p, c)
                      \/ i = Len(s) /\ p = Len(Last(s).defers) + 1 /\ c = b
  <1> DEFINE d == Append(Last(s).defers, b)
             f == [Last(s) EXCEPT !.defers = Append(@, b)]
             w == Append(Front(s), f)
             L == Len(s)
             D == Len(Last(s).defers)
  <1>1. L \in Nat /\ L >= 1 /\ DOMAIN s = 1 .. L /\ Last(s) = s[L]
    BY StackFacts DEF Last
  <1>2. /\ Last(s) \in Frames /\ FrameOK(Last(s)) /\ Last(s).defers \in Seq(Blocks)
        /\ D \in Nat /\ DOMAIN Last(s).defers = 1 .. D
    BY <1>1, StackFacts
  <1>3. /\ d \in Seq(Blocks) /\ DOMAIN d = 1 .. D + 1
        /\ \A p \in 1 .. D : d[p] = Last(s).defers[p]
        /\ d[D + 1] = b
    <2>1. /\ d \in Seq(Blocks) /\ Len(d) = D + 1
          /\ \A p \in 1 .. D : d[p] = Last(s).defers[p]
          /\ d[D + 1] = b
      BY <1>2, AppendProperties
    <2>2. QED  BY <2>1, LenProperties
  <1> HIDE DEF d, D
  <1>4. f = [Last(s) EXCEPT !.defers = d]
    BY DEF d
  <1> HIDE DEF f
  <1>5. /\ f \in Frames /\ SameCall(Last(s), f) /\ f.defers = d /\ f.how = Last(s).how
        /\ f.res = Last(s).res /\ f.out = Last(s).out /\ f.want = Last(s).want
    BY <1>2, <1>3, <1>4, WithDefers
  <1>6. FrameOK(f) /\ f.kind = Last(s).kind /\ f.handler = Last(s).handler
    BY <1>2, <1>5 DEF FrameOK, SameCall
  <1>7. /\ Sound(w) /\ Len(w) = L
        /\ \A i \in 1 .. L - 1 : w[i] = s[i]
        /\ w[L] = f
    BY <1>5, <1>6, Retopped
  <1> HIDE DEF w, L
  <1>8. DOMAIN w = 1 .. L
    BY <1>7, StackFacts
  <1>9. ASSUME NEW i \in Nat, NEW p \in Nat, NEW c \in Blocks
        PROVE  Waits(w, i, p, c) <=> Waits(s, i, p, c) \/ (i = L /\ p = D + 1 /\ c = b)
    <2>1. CASE i = L
      <3>1. w[i].defers = d /\ s[i] = Last(s) /\ i \in DOMAIN w /\ i \in DOMAIN s
        BY <1>1, <1>5, <1>7, <1>8, <2>1
      <3>2. QED  BY <1>2, <1>3, <2>1, <3>1 DEF Waits
    <2>2. CASE i # L
      BY <1>1, <1>7, <1>8, <2>2 DEF Waits
    <2>3. QED  BY <2>1, <2>2
  <1>10. QED  BY <1>7, <1>9 DEF w, f, L, D

LEMMA DeferIInv == ASSUME IInv, NEW t \in Threads, NEW b \in Blocks, Defer(t, b) PROVE IInv'
  <1> DEFINE f == [Last(stack[t]) EXCEPT !.defers = Append(@, b)]
             w == Append(Front(stack[t]), f)
             e == [block |-> b, thread |-> t]
             L == Len(stack[t])
             D == Len(Last(stack[t]).defers)
             N == Len(met)
  <1>1. /\ stack[t] # << >> /\ \A i \in DOMAIN met : met[i].block # b
        /\ stack' = [stack EXCEPT ![t] = w] /\ met' = Append(met, e)
        /\ seen' = Nothing /\ ran' = ran /\ ended' = ended
    BY DEF Defer, Runs, SetTop, Top
  <1>2. StackOK /\ MetOK /\ RanOK /\ WaitOK /\ KeptOK
    BY DEF IInv
  <1>3. /\ Sound(stack[t]) /\ L \in Nat /\ L >= 1
        /\ L <= MaxDepth[t] + Len(ran) /\ Last(stack[t]) = stack[t][L]
    BY <1>1, Running DEF Top
  <1>4. /\ Sound(w) /\ Len(w) = L
        /\ \A i, p \in Nat : \A c \in Blocks :
              Waits(w, i, p, c) <=> Waits(stack[t], i, p, c) \/ (i = L /\ p = D + 1 /\ c = b)
    BY <1>1, <1>3, DeferStack
  <1> HIDE DEF w, f
  <1>5. stack'[t] = w /\ \A u \in Threads : u # t => stack'[u] = stack[u]
    BY <1>1, <1>2 DEF StackOK
  <1>6. StackOK'
    BY <1>1, <1>2, <1>3, <1>4, <1>5 DEF StackOK, Sound
  <1>7. /\ met' \in Seq([block : Blocks, thread : Threads]) /\ N \in Nat
        /\ DOMAIN met = 1 .. N /\ DOMAIN met' = 1 .. N + 1
        /\ \A n \in 1 .. N : met'[n] = met[n]
        /\ met'[N + 1] = e
    <2>1. e \in [block : Blocks, thread : Threads] /\ met \in Seq([block : Blocks, thread : Threads])
      BY <1>2 DEF MetOK
    <2> HIDE DEF e
    <2>2. /\ met' \in Seq([block : Blocks, thread : Threads]) /\ Len(met') = N + 1
          /\ \A n \in 1 .. N : met'[n] = met[n]
          /\ met'[N + 1] = e
      BY <1>1, <2>1, AppendProperties
    <2>3. QED  BY <2>1, <2>2, LenProperties
  <1>8. e.block = b /\ e.thread = t
    OBVIOUS
  <1> HIDE DEF e
  <1>9. \A c, u, n : Met(c, u, n)' <=> Met(c, u, n) \/ (n = N + 1 /\ c = b /\ u = t)
    BY <1>7, <1>8 DEF Met
  <1>10. MetOK'
    <2>1. \A m, n \in 1 .. N + 1 : met'[m].block = met'[n].block => m = n
      BY <1>1, <1>2, <1>7, <1>8 DEF MetOK
    <2>2. QED  BY <1>7, <2>1 DEF MetOK
  <1>11. RanOK'
    <2>1. N + 1 \in Nat
      BY <1>7
    <2>2. QED  BY <1>1, <1>2, <1>9, <2>1 DEF RanOK
  <1>12. \A u \in Threads, n \in Nat : ~Met(b, u, n)
    BY <1>1 DEF Met
  <1>13. b \notin Range(ran)
    BY <1>2, <1>12 DEF RanOK
  <1>14. \A u \in Threads, i, p \in Nat : ~Waits(stack[u], i, p, b)
    BY <1>2, <1>12 DEF WaitOK
  <1>15. WaitOK'
    <2>1. SUFFICES ASSUME NEW u \in Threads, NEW i \in Nat, NEW p \in Nat, NEW c \in Blocks,
                          Waits(stack'[u], i, p, c)
                   PROVE  /\ c \notin Range(ran)
                          /\ \E n \in Nat : Met(c, u, n)'
                          /\ \A j, q, m, n \in Nat : \A d \in Blocks :
                                (Waits(stack'[u], j, q, d) /\ (j < i \/ (j = i /\ q < p))
                                   /\ Met(c, u, n)' /\ Met(d, u, m)') => m < n
      BY <1>1 DEF WaitOK
    <2>2. CASE ~Waits(stack[u], i, p, c)
      <3>1. u = t /\ i = L /\ p = D + 1 /\ c = b
        BY <1>4, <1>5, <2>1, <2>2
      <3>2. \E l \in Nat : Met(c, u, l)'
        <4>1. PICK l \in Nat : l = N + 1
          BY <1>7
        <4>2. QED  BY <1>9, <3>1, <4>1
      <3>3. ASSUME NEW j \in Nat, NEW q \in Nat, NEW m \in Nat, NEW n \in Nat, NEW d \in Blocks,
                   Waits(stack'[u], j, q, d), j < i \/ (j = i /\ q < p), Met(c, u, n)', Met(d, u, m)'
            PROVE  m < n
        <4>1. n = N + 1
          BY <1>9, <1>12, <3>1, <3>3
        <4>2. ~(j = L /\ q = D + 1)
          BY <1>3, <3>1, <3>3
        <4>3. d # b
          BY <1>4, <1>5, <1>14, <3>1, <3>3, <4>2
        <4>4. m \in 1 .. N
          BY <1>7, <1>9, <3>3, <4>3 DEF Met
        <4>5. QED  BY <1>7, <4>1, <4>4
      <3>4. QED  BY <1>13, <3>1, <3>2, <3>3
    <2>3. CASE Waits(stack[u], i, p, c)
      <3>1. c # b /\ c \notin Range(ran) /\ \E n \in Nat : Met(c, u, n)
        BY <1>2, <1>14, <2>3 DEF WaitOK
      <3>2. ASSUME NEW j \in Nat, NEW q \in Nat, NEW m \in Nat, NEW n \in Nat, NEW d \in Blocks,
                   Waits(stack'[u], j, q, d), j < i \/ (j = i /\ q < p), Met(c, u, n)', Met(d, u, m)'
            PROVE  m < n
        <4>1. Waits(stack[u], j, q, d)
          <5>1. u = t => ~(j = L /\ q = D + 1)
            <6>1. SUFFICES ASSUME u = t PROVE ~(j = L /\ q = D + 1)
              OBVIOUS
            <6>2. i \in 1 .. L /\ p \in 1 .. Len(stack[t][i].defers)
              BY <2>3, <6>1, Positions
            <6>3. i = L => p \in 1 .. D
              BY <1>3, <6>2
            <6>4. QED  BY <1>3, <3>2, <6>2, <6>3
          <5>2. QED  BY <1>4, <1>5, <3>2, <5>1
        <4>2. d # b
          BY <1>14, <4>1
        <4>3. Met(c, u, n) /\ Met(d, u, m)
          BY <1>9, <3>1, <3>2, <4>2
        <4>4. QED  BY <1>2, <2>3, <3>2, <4>1, <4>3 DEF WaitOK
      <3>3. QED  BY <1>9, <3>1, <3>2
    <2>4. QED  BY <2>2, <2>3
  <1>16. KeptOK'
    <2>1. SUFFICES ASSUME NEW u \in Threads, NEW n \in Nat, NEW c \in Blocks, Met(c, u, n)'
                   PROVE  c \in Range(ran) \/ \E i, p \in Nat : Waits(stack'[u], i, p, c)
      BY <1>1 DEF KeptOK
    <2>2. CASE Met(c, u, n)
      BY <1>2, <1>4, <1>5, <2>2 DEF KeptOK
    <2>3. CASE c = b /\ u = t
      <3>1. L \in Nat /\ D + 1 \in Nat
        <4>1. Last(stack[t]).defers \in Seq(Blocks)
          BY <1>3, StackFacts
        <4>2. QED  BY <1>3, <4>1, LenProperties
      <3>2. QED  BY <1>4, <1>5, <2>3, <3>1
    <2>4. QED  BY <1>9, <2>1, <2>2, <2>3
  <1>17. QED  BY <1>1, <1>6, <1>10, <1>11, <1>15, <1>16, NothingSeen DEF IInv

\* Where the blocks wait after RunDeferred: one less, the last of the last frame.
LEMMA BegunFacts ==
  ASSUME NEW s, Sound(s), s # << >>, Last(s).defers # << >>, NEW k, NEW b
  PROVE  LET w == Begun(s, k, b, Front(Last(s).defers))
         IN  /\ Sound(w) /\ Len(w) = Len(s) + 1
             /\ \A i, p \in Nat : \A c \in Blocks :
                   Waits(w, i, p, c) <=>
                      Waits(s, i, p, c) /\ ~(i = Len(s) /\ p = Len(Last(s).defers))
  <1> DEFINE rest == Front(Last(s).defers)
             def(i) == IF i = Len(s) THEN rest ELSE s[i].defers
             res(i) == IF i = k /\ b \in Setters THEN "new" ELSE s[i].res
             v == [i \in DOMAIN s |-> Rest(s[i], def(i), res(i))]
             L == Len(s)
             D == Len(Last(s).defers)
  <1>1. L \in Nat /\ L >= 1 /\ DOMAIN s = 1 .. L /\ Last(s) = s[L]
    BY StackFacts DEF Last
  <1>2. \A i \in 1 .. L : s[i] \in Frames /\ FrameOK(s[i]) /\ s[i].defers \in Seq(Blocks)
    BY StackFacts
  <1>3. /\ rest \in Seq(Blocks) /\ D \in Nat /\ D >= 1
        /\ DOMAIN Last(s).defers = 1 .. D /\ DOMAIN rest = 1 .. D - 1
        /\ \A p \in 1 .. D - 1 : rest[p] = Last(s).defers[p]
    <2>1. Last(s).defers \in Seq(Blocks)
      BY <1>1, <1>2
    <2>2. /\ rest \in Seq(Blocks) /\ Len(rest) = D - 1 /\ D >= 1
          /\ \A p \in 1 .. D - 1 : rest[p] = Last(s).defers[p]
      BY <2>1, FrontFacts
    <2>3. QED  BY <2>1, <2>2, LenProperties
  <1>4. Begun(s, k, b, rest) = Append(v, Frame("deferred", FALSE, FALSE))
    BY DEF Begun, Rest
  <1>5. ASSUME NEW i \in 1 .. L
        PROVE  /\ v[i] \in Frames /\ FrameOK(v[i])
               /\ v[i].kind = s[i].kind /\ v[i].handler = s[i].handler /\ v[i].defers = def(i)
    <2>1. v[i] = Rest(s[i], def(i), res(i))
      BY <1>1
    <2>2. def(i) \in Seq(Blocks)
      BY <1>2, <1>3
    <2>3. res(i) \in Results /\ res(i) \in {s[i].res, "new"}
      <3>1. s[i].res \in Results
        BY <1>2, FieldTypes
      <3>2. QED  BY <3>1 DEF Results
    <2> HIDE DEF def, res, v
    <2>4. /\ v[i] \in Frames /\ SameCall(s[i], v[i]) /\ v[i].defers = def(i) /\ v[i].how = s[i].how
          /\ v[i].res = res(i) /\ v[i].out = s[i].out /\ v[i].want = s[i].want
      BY <1>2, <2>1, <2>2, <2>3, WithResult
    <2>5. FrameOK(v[i])
      BY <1>2, <2>3, <2>4 DEF FrameOK, SameCall
    <2>6. QED  BY <2>4, <2>5 DEF SameCall
  <1>6. v \in Seq(Frames) /\ Len(v) = L /\ DOMAIN v = 1 .. L
    <2>1. v = [i \in 1 .. L |-> v[i]] /\ DOMAIN v = 1 .. L
      BY <1>1
    <2> HIDE DEF v, L
    <2>2. v \in [1 .. L -> Frames]
      BY <1>5, <2>1
    <2>3. QED  BY <1>1, <2>1, <2>2
  <1> HIDE DEF v, L, D, rest
  <1>7. Sound(v) /\ v # << >>
    <2>1. 1 \in 1 .. L
      BY <1>1
    <2>2. s[1].kind = "function" /\ ~s[1].handler
      BY DEF Sound
    <2>3. v[1].kind = "function" /\ ~v[1].handler
      BY <1>5, <2>1, <2>2
    <2>4. v # << >>
      BY <1>6, <2>1, EmptySeq
    <2>5. QED  BY <1>5, <1>6, <2>3, <2>4 DEF Sound
  <1> DEFINE w == Append(v, Frame("deferred", FALSE, FALSE))
             g == Frame("deferred", FALSE, FALSE)
  <1>8. g \in Frames /\ FrameOK(g) /\ g.defers = << >>
    BY NewFrame
  <1> HIDE DEF g
  <1>9. Sound(w) /\ Len(w) = L + 1 /\ SameWaits(w, v)
    <2>1. w = Append(v, g)
      BY DEF g
    <2> HIDE DEF w
    <2>2. QED  BY <1>6, <1>7, <1>8, <2>1, Appended
  <1> HIDE DEF w
  <1>10. ASSUME NEW i \in Nat, NEW p \in Nat, NEW c \in Blocks
         PROVE  Waits(v, i, p, c) <=> Waits(s, i, p, c) /\ ~(i = L /\ p = D)
    <2>1. CASE i = L
      <3>1. v[i].defers = rest /\ s[i] = Last(s) /\ i \in DOMAIN v /\ i \in DOMAIN s
        <4>1. i \in 1 .. L
          BY <1>1, <2>1
        <4>2. v[i].defers = def(i)
          BY <1>5, <4>1
        <4>3. QED  BY <1>1, <1>6, <2>1, <4>1, <4>2 DEF L
      <3>2. QED  BY <1>3, <2>1, <3>1 DEF Waits
    <2>2. CASE i # L
      <3>1. i \in 1 .. L => v[i].defers = s[i].defers
        BY <1>5, <2>2 DEF L
      <3>2. QED  BY <1>1, <1>6, <2>2, <3>1 DEF Waits
    <2>3. QED  BY <2>1, <2>2
  <1>11. QED  BY <1>4, <1>9, <1>10 DEF w, L, D, rest, SameWaits

\* The block that runs next is the last of the innermost frame.
LEMMA NextBlock ==
  ASSUME IInv, NEW t \in Threads, stack[t] # << >>, Top(t).defers # << >>
  PROVE  LET b == Last(Top(t).defers)
             i == Len(stack[t])
             p == Len(Top(t).defers)
         IN  /\ b \in Blocks /\ i \in Nat /\ p \in Nat /\ Waits(stack[t], i, p, b)
             /\ b \notin Range(ran)
             /\ \A j, q, c : Waits(stack[t], j, q, c) => j < i \/ (j = i /\ q <= p)
  <1> DEFINE d == Top(t).defers
  <1>1. /\ Sound(stack[t]) /\ Top(t) = stack[t][Len(stack[t])] /\ Top(t) \in Frames
        /\ Len(stack[t]) \in Nat /\ Len(stack[t]) >= 1 /\ DOMAIN stack[t] = 1 .. Len(stack[t])
    BY Running
  <1>2. d \in Seq(Blocks)
    BY <1>1, FieldTypes
  <1>3. Len(d) \in Nat /\ Len(d) >= 1 /\ DOMAIN d = 1 .. Len(d) /\ Last(d) = d[Len(d)] /\ Last(d) \in Blocks
    BY <1>2, FrontFacts, LenProperties
  <1>4. Waits(stack[t], Len(stack[t]), Len(d), Last(d))
    BY <1>1, <1>3 DEF Waits
  <1>5. Last(d) \notin Range(ran)
    BY <1>1, <1>3, <1>4 DEF IInv, WaitOK
  <1>6. ASSUME NEW j, NEW q, NEW c, Waits(stack[t], j, q, c)
        PROVE  j < Len(stack[t]) \/ (j = Len(stack[t]) /\ q <= Len(d))
    <2>1. j \in 1 .. Len(stack[t]) /\ q \in 1 .. Len(stack[t][j].defers)
      BY <1>6, Positions
    <2>2. QED  BY <1>1, <1>3, <2>1
  <1>7. QED  BY <1>1, <1>3, <1>4, <1>5, <1>6

LEMMA RangeAppended ==
  ASSUME NEW S, NEW s \in Seq(S), NEW e \in S
  PROVE  Range(Append(s, e)) = Range(s) \union {e}
  <1> DEFINE w == Append(s, e)
             N == Len(s)
  <1>1. /\ N \in Nat /\ DOMAIN s = 1 .. N /\ DOMAIN w = 1 .. N + 1
        /\ \A i \in 1 .. N : w[i] = s[i]
        /\ w[N + 1] = e
    BY AppendProperties, LenProperties
  <1> HIDE DEF w, N
  <1>2. Range(w) = {w[i] : i \in 1 .. N + 1} /\ Range(s) = {s[i] : i \in 1 .. N}
    BY <1>1 DEF Range
  <1>3. N + 1 \in 1 .. N + 1 /\ 1 .. N + 1 = 1 .. N \union {N + 1}
    BY <1>1
  <1>4. Range(w) = Range(s) \union {e}
    BY <1>1, <1>2, <1>3
  <1>5. QED  BY <1>4 DEF w

LEMMA RunDeferredIInv == ASSUME IInv, NEW t \in Threads, RunDeferred(t) PROVE IInv'
  <1> DEFINE b == Last(Top(t).defers)
             w == Begun(stack[t], Here(t), b, Front(Last(stack[t]).defers))
             L == Len(stack[t])
             D == Len(Top(t).defers)
             R == Len(ran)
  <1>1. /\ stack[t] # << >> /\ Top(t).defers # << >>
        /\ stack' = [stack EXCEPT ![t] = w] /\ ran' = Append(ran, b)
        /\ seen' = Nothing /\ met' = met /\ ended' = ended
    BY DEF RunDeferred, Leaves, Top
  <1>2. StackOK /\ MetOK /\ RanOK /\ WaitOK /\ KeptOK
    BY DEF IInv
  <1>3. /\ Sound(stack[t]) /\ L \in Nat /\ L <= MaxDepth[t] + R /\ R \in Nat
        /\ \A u \in Threads : MaxDepth[u] \in Nat
    BY <1>1, Running, ConstantAssumption
  <1>4. /\ b \in Blocks /\ L \in Nat /\ D \in Nat /\ Waits(stack[t], L, D, b)
        /\ b \notin Range(ran)
    BY <1>1, NextBlock
  <1>5. /\ Sound(w) /\ Len(w) = L + 1
        /\ \A i, p \in Nat : \A c \in Blocks :
              Waits(w, i, p, c) <=> Waits(stack[t], i, p, c) /\ ~(i = L /\ p = D)
    BY <1>1, <1>3, BegunFacts DEF Top
  <1> HIDE DEF w
  <1>6. stack'[t] = w /\ \A u \in Threads : u # t => stack'[u] = stack[u]
    BY <1>1, <1>2 DEF StackOK
  <1> HIDE DEF b
  <1>7. /\ ran' \in Seq(Blocks) /\ Len(ran') = R + 1
        /\ DOMAIN ran = 1 .. R /\ DOMAIN ran' = 1 .. R + 1
        /\ \A i \in 1 .. R : ran'[i] = ran[i]
        /\ ran'[R + 1] = b
    <2>1. ran \in Seq(Blocks)
      BY <1>2 DEF RanOK
    <2>2. /\ ran' \in Seq(Blocks) /\ Len(ran') = R + 1
          /\ \A i \in 1 .. R : ran'[i] = ran[i]
          /\ ran'[R + 1] = b
      BY <1>1, <1>4, <2>1, AppendProperties
    <2>3. QED  BY <2>1, <2>2, LenProperties
  <1>8. Range(ran') = Range(ran) \union {b}
    BY <1>1, <1>2, <1>4, RangeAppended DEF RanOK
  <1>9. StackOK'
    <2>1. stack' \in [Threads -> Seq(Frames)]
      BY <1>1, <1>2, <1>5 DEF StackOK, Sound
    <2>2. \A u \in Threads : Sound(stack'[u])
      BY <1>2, <1>5, <1>6 DEF StackOK
    <2>3. ASSUME NEW u \in Threads PROVE Len(stack'[u]) <= MaxDepth[u] + Len(ran')
      <3>1. Len(stack[u]) <= MaxDepth[u] + R /\ Len(stack[u]) \in Nat
        BY <1>2, StackFacts DEF StackOK
      <3>2. CASE u = t
        BY <1>3, <1>5, <1>6, <1>7, <3>2
      <3>3. CASE u # t
        BY <1>3, <1>6, <1>7, <3>1, <3>3
      <3>4. QED  BY <3>2, <3>3
    <2>4. QED  BY <2>1, <2>2, <2>3 DEF StackOK
  <1>10. \A c, u, n : Met(c, u, n)' <=> Met(c, u, n)
    BY <1>1 DEF Met
  <1>11. MetOK'
    BY <1>1, <1>2 DEF MetOK
  <1>12. RanOK'
    <2>1. IsInjective(ran')
      <3>1. \A i \in 1 .. R : ran[i] # b
        BY <1>4, <1>7 DEF Range
      <3>2. \A i, j \in 1 .. R : ran[i] = ran[j] => i = j
        BY <1>2, <1>7 DEF RanOK, IsInjective
      <3>3. \A i, j \in 1 .. R + 1 : ran'[i] = ran'[j] => i = j
        BY <1>3, <1>7, <3>1, <3>2
      <3>4. QED  BY <1>7, <3>3 DEF IsInjective
    <2>2. \E n \in Nat : Met(b, t, n)
      BY <1>2, <1>4 DEF WaitOK
    <2>3. QED  BY <1>2, <1>7, <1>8, <1>10, <2>1, <2>2 DEF RanOK
  <1>13. \A u \in Threads : \A i, p \in Nat : \A c \in Blocks :
            Waits(stack'[u], i, p, c) <=> Waits(stack[u], i, p, c) /\ c # b
    <2>1. SUFFICES ASSUME NEW u \in Threads, NEW i \in Nat, NEW p \in Nat, NEW c \in Blocks
                   PROVE  Waits(stack'[u], i, p, c) <=> Waits(stack[u], i, p, c) /\ c # b
      OBVIOUS
    <2>2. CASE u = t
      <3>1. c = b /\ Waits(stack[t], i, p, c) => i = L /\ p = D
        BY <1>4, OnePlace
      <3>2. i = L /\ p = D /\ Waits(stack[t], i, p, c) => c = b
        BY <1>4 DEF Waits
      <3>3. QED  BY <1>5, <1>6, <2>2, <3>1, <3>2
    <2>3. CASE u # t
      <3>1. ~Waits(stack[u], i, p, b)
        <4>1. SUFFICES ASSUME Waits(stack[u], i, p, b) PROVE FALSE
          OBVIOUS
        <4>2. PICK m \in Nat : Met(b, u, m)
          BY <1>2, <1>4, <4>1 DEF WaitOK
        <4>3. PICK n \in Nat : Met(b, t, n)
          BY <1>2, <1>4 DEF WaitOK
        <4>4. m = n
          BY <1>2, <4>2, <4>3 DEF MetOK, Met
        <4>5. QED  BY <2>3, <4>2, <4>3, <4>4 DEF Met
      <3>2. QED  BY <1>6, <2>3, <3>1
    <2>4. QED  BY <2>2, <2>3
  <1>14. WaitOK'
    <2>1. SUFFICES ASSUME NEW u \in Threads, NEW i \in Nat, NEW p \in Nat, NEW c \in Blocks,
                          Waits(stack'[u], i, p, c)
                   PROVE  /\ c \notin Range(ran')
                          /\ \E n \in Nat : Met(c, u, n)'
                          /\ \A j, q, m, n \in Nat : \A d \in Blocks :
                                (Waits(stack'[u], j, q, d) /\ (j < i \/ (j = i /\ q < p))
                                   /\ Met(c, u, n)' /\ Met(d, u, m)') => m < n
      BY DEF WaitOK
    <2>2. Waits(stack[u], i, p, c) /\ c # b
      BY <1>13, <2>1
    <2>3. c \notin Range(ran')
      BY <1>2, <1>8, <2>2 DEF WaitOK
    <2>4. \E n \in Nat : Met(c, u, n)'
      BY <1>2, <1>10, <2>2 DEF WaitOK
    <2>5. ASSUME NEW j \in Nat, NEW q \in Nat, NEW m \in Nat, NEW n \in Nat, NEW d \in Blocks,
                 Waits(stack'[u], j, q, d), j < i \/ (j = i /\ q < p), Met(c, u, n)', Met(d, u, m)'
          PROVE  m < n
      <3>1. Waits(stack[u], j, q, d) /\ Met(c, u, n) /\ Met(d, u, m)
        BY <1>10, <1>13, <2>5
      <3>2. QED  BY <1>2, <2>2, <2>5, <3>1 DEF WaitOK
    <2>6. QED  BY <2>3, <2>4, <2>5
  <1>15. KeptOK'
    <2>1. SUFFICES ASSUME NEW u \in Threads, NEW n \in Nat, NEW c \in Blocks, Met(c, u, n)
                   PROVE  c \in Range(ran') \/ \E i, p \in Nat : Waits(stack'[u], i, p, c)
      BY <1>10 DEF KeptOK
    <2>2. c \in Range(ran) \/ \E i, p \in Nat : Waits(stack[u], i, p, c)
      BY <1>2, <2>1 DEF KeptOK
    <2>3. QED  BY <1>8, <1>13, <2>2
  <1>16. QED  BY <1>1, <1>9, <1>11, <1>12, <1>14, <1>15, NothingSeen DEF IInv

LEMMA NextIInv == ASSUME IInv, [Next]_vars PROVE IInv'
  <1>1. CASE UNCHANGED vars
    BY <1>1 DEF vars, IInv, StackOK, MetOK, RanOK, WaitOK, KeptOK, SeenOK, Met, ResultTaken,
                NoSilentFailure
  <1>2. ASSUME NEW t \in Threads, Enter(t) PROVE IInv'
    <2>1. /\ Push(t, Frame("block", FALSE, FALSE)) /\ seen' = Nothing /\ UNCHANGED <<met, ran, ended>>
          /\ Len(stack[t]) < MaxDepth[t] /\ stack[t] # << >>
      BY <1>2 DEF Enter, Runs
    <2>2. QED  BY <2>1, PushIInv
  <1>3. ASSUME NEW t \in Threads, NEW exc \in BOOLEAN, NEW handler \in BOOLEAN, Call(t, exc, handler)
        PROVE  IInv'
    <2>1. /\ Push(t, Frame("function", exc, handler)) /\ seen' = Nothing /\ UNCHANGED <<met, ran, ended>>
          /\ Len(stack[t]) < MaxDepth[t] /\ stack[t] # << >>
      BY <1>3 DEF Call, Runs
    <2>2. QED  BY <2>1, PushIInv
  <1>4. ASSUME NEW t \in Threads, NEW u \in Threads, Co(t, u) PROVE IInv'
    <2>1. /\ Push(u, Frame("function", FALSE, FALSE)) /\ seen' = Nothing /\ UNCHANGED <<met, ran, ended>>
          /\ stack[u] = << >>
      BY <1>4 DEF Co
    <2>2. Len(stack[u]) < MaxDepth[u]
      BY <2>1, EmptySeq, ConstantAssumption
    <2>3. QED  BY <2>1, <2>2, PushIInv
  <1>5. ASSUME NEW t \in Threads, CallNil(t) PROVE IInv'
    BY <1>5, StopIInv DEF CallNil
  <1>6. ASSUME NEW t \in Threads, NEW x, NEW d, Divide(t, x, d) PROVE IInv'
    BY <1>6, StopIInv DEF Divide
  <1>7. ASSUME NEW t \in Threads, PopBlock(t) PROVE IInv'
    <2>1. /\ stack[t] # << >> /\ Top(t).defers = << >> /\ stack' = [stack EXCEPT ![t] = Front(@)]
          /\ seen' = Nothing /\ UNCHANGED <<met, ran>> /\ ended' = ended
      BY <1>7 DEF PopBlock, Leaves
    <2>2. QED  BY <2>1, PopIInv, NothingSeen DEF IInv
  <1>8. CASE Next
    BY <1>2, <1>3, <1>4, <1>5, <1>6, <1>7, <1>8, EndIInv, ReturnIInv, RaiseIInv, RunDeferredIInv,
       PopFunctionIInv, DeferIInv DEF Next
  <1>9. QED  BY <1>1, <1>8

-----------------------------------------------------------------------------
(* The theorems.                                                           *)

\* A block that has been met waits in one place, in the stack of the thread that
\* met it and in the order of meeting, or has run once.
THEOREM Invariance == Spec => []IInv
  <1>1. IInv /\ [Next]_vars => IInv'
    BY NextIInv
  <1>2. QED  BY <1>1, InitIInv, PTL DEF Spec

LEMMA Records ==
  ASSUME IInv, NEW n \in DOMAIN met
  PROVE  n \in Nat /\ met[n].block \in Blocks /\ met[n].thread \in Threads
  <1>1. met \in Seq([block : Blocks, thread : Threads])
    BY DEF IInv, MetOK
  <1>2. n \in 1 .. Len(met) /\ Len(met) \in Nat
    BY <1>1, LenProperties
  <1>3. met[n] \in [block : Blocks, thread : Threads]
    BY <1>1, <1>2, ElementOfSeq
  <1>4. QED  BY <1>2, <1>3

\* Pending blocks, as the properties see them.
LEMMA PendingIs ==
  ASSUME IInv, NEW t \in Threads
  PROVE  \A b : b \in Pending(t) <=> \E i, p \in Nat : Waits(stack[t], i, p, b)
  <1>1. Sound(stack[t])
    BY DEF IInv, StackOK
  <1>2. \A i \in DOMAIN stack[t] : i \in Nat /\ \A p \in DOMAIN stack[t][i].defers : p \in Nat
    BY <1>1, StackFacts
  <1>3. SUFFICES ASSUME NEW b
                 PROVE  b \in Pending(t) <=> \E i, p \in Nat : Waits(stack[t], i, p, b)
    OBVIOUS
  <1>4. b \in Pending(t) <=>
          \E i \in DOMAIN stack[t] : \E p \in DOMAIN stack[t][i].defers : stack[t][i].defers[p] = b
    BY DEF Pending, Range
  <1>5. QED  BY <1>2, <1>4 DEF Waits

\* For all threads, blocks and depths, and however scopes are left: no deferred
\* block runs twice, and one that has been met waits in its thread until it runs.
THEOREM DeferredOnceHolds == Spec => []DeferredOnce
  <1>1. IInv => DeferredOnce
    <2>1. SUFFICES ASSUME IInv PROVE DeferredOnce
      OBVIOUS
    <2>2. IsInjective(ran)
      BY <2>1 DEF IInv, RanOK
    <2>3. ASSUME NEW t \in Threads
          PROVE  /\ Pending(t) \intersect Range(ran) = {}
                 /\ MetBy(t) = Pending(t) \union (MetBy(t) \intersect Range(ran))
      <3>1. \A b \in Pending(t) : b \in Blocks /\ b \notin Range(ran) /\ \E n \in Nat : Met(b, t, n)
        <4>1. \A b \in Pending(t) : b \in Blocks /\ \E i, p \in Nat : Waits(stack[t], i, p, b)
          BY <2>1, PendingIs, Positions
        <4>2. QED  BY <2>1, <4>1 DEF IInv, WaitOK
      <3>2. \A b : b \in MetBy(t) <=> \E n \in Nat : Met(b, t, n)
        BY <2>1, Positions DEF MetBy, Met
      <3>3. \A b \in MetBy(t) : b \in Blocks
        BY <2>1, Records DEF MetBy
      <3>4. \A b \in MetBy(t) : b \in Range(ran) \/ b \in Pending(t)
        BY <2>1, <3>2, <3>3, PendingIs DEF IInv, KeptOK
      <3>5. QED  BY <3>1, <3>2, <3>4
    <2>4. QED  BY <2>2, <2>3 DEF DeferredOnce
  <1>2. QED  BY <1>1, Invariance, PTL

\* For all threads, blocks and depths: when a block runs, all that its thread
\* met after it have run.
THEOREM RunsInReverseHolds == Spec => RunsInReverse
  <1> DEFINE Backwards == \A b \in Range(ran') \ Range(ran) : \A i, j \in DOMAIN met :
                            (met[i].block = b /\ met[j].thread = met[i].thread /\ j > i)
                                => met[j].block \in Range(ran)
  <1>1. IInv /\ [Next]_vars => Backwards
    <2>1. SUFFICES ASSUME IInv, [Next]_vars,
                          NEW b \in Range(ran') \ Range(ran), NEW m \in DOMAIN met, NEW n \in DOMAIN met,
                          met[m].block = b, met[n].thread = met[m].thread, n > m
                   PROVE  met[n].block \in Range(ran)
      OBVIOUS
    <2>2. PICK t \in Threads : RunDeferred(t)
      <3>1. ran' # ran
        BY <2>1
      <3>2. ran' # << >>
        BY <2>1, EmptySeq DEF Range
      <3>3. QED
        BY <2>1, <3>1, <3>2 DEF Next, vars, Enter, Call, CallNil, Divide, Stop, Co, Defer, End, Return,
           Raise, Leave, PopBlock, PopFunction
    <2> DEFINE L == Len(stack[t])
               D == Len(Top(t).defers)
               c == met[n].block
    <2>3. /\ stack[t] # << >> /\ Top(t).defers # << >>
          /\ ran' = Append(ran, Last(Top(t).defers))
      BY <2>2 DEF RunDeferred, Leaves
    <2>4. /\ Last(Top(t).defers) \in Blocks /\ L \in Nat /\ D \in Nat
          /\ Waits(stack[t], L, D, Last(Top(t).defers))
          /\ \A j, q, d : Waits(stack[t], j, q, d) => j < L \/ (j = L /\ q <= D)
      BY <2>1, <2>3, NextBlock
    <2>5. b = Last(Top(t).defers)
      BY <2>1, <2>3, <2>4, RangeAppended DEF IInv, RanOK
    <2>6. m \in Nat /\ n \in Nat /\ c \in Blocks
      BY <2>1, Records
    <2>7. Met(b, t, m)
      <3>1. PICK l \in Nat : Met(b, t, l)
        BY <2>1, <2>4, <2>5 DEF IInv, WaitOK
      <3>2. l = m
        BY <2>1, <3>1 DEF IInv, MetOK, Met
      <3>3. QED  BY <3>1, <3>2
    <2>8. Met(c, t, n)
      BY <2>1, <2>7 DEF Met
    <2>9. ASSUME NEW j \in Nat, NEW q \in Nat, Waits(stack[t], j, q, c) PROVE FALSE
      <3>1. CASE j = L /\ q = D
        <4>1. c = b
          BY <2>4, <2>5, <2>9, <3>1 DEF Waits
        <4>2. m = n
          BY <2>1, <4>1 DEF IInv, MetOK
        <4>3. QED  BY <2>1, <2>6, <4>2
      <3>2. CASE ~(j = L /\ q = D)
        <4>1. j < L \/ (j = L /\ q < D)
          BY <2>4, <2>9, <3>2
        <4>2. n < m
          <5>1. WaitOK /\ Waits(stack[t], L, D, b) /\ b \in Blocks
            BY <2>1, <2>4, <2>5 DEF IInv
          <5>2. \A i, p \in Nat : Waits(stack[t], i, p, b) =>
                   \A k, l, x, y \in Nat : \A d \in Blocks :
                      (Waits(stack[t], k, l, d) /\ (k < i \/ (k = i /\ l < p)) /\ Met(b, t, y) /\ Met(d, t, x))
                         => x < y
            BY <5>1 DEF WaitOK
          <5> HIDE DEF L, D, c
          <5>3. QED  BY <2>4, <2>6, <2>7, <2>8, <2>9, <4>1, <5>1, <5>2
        <4>3. QED  BY <2>1, <2>6, <4>2
      <3>3. QED  BY <3>1, <3>2
    <2>10. QED  BY <2>1, <2>6, <2>8, <2>9 DEF IInv, KeptOK
  <1>2. QED  BY <1>1, Invariance, PTL DEF Spec, RunsInReverse

\* Every block runs once at most, so that the run is no longer than the blocks.
LEMMA RanBound == ASSUME IInv PROVE Len(ran) <= Cardinality(Blocks)
  <1>1. ran \in Seq(Blocks) /\ IsInjective(ran)
    BY DEF IInv, RanOK
  <1>2. Len(ran) \in Nat /\ DOMAIN ran = 1 .. Len(ran) /\ ran \in [1 .. Len(ran) -> Blocks]
    BY <1>1, LenProperties
  <1>3. ran \in Injection(1 .. Len(ran), Blocks)
    BY <1>1, <1>2 DEF Injection, IsInjective
  <1>4. Cardinality(1 .. Len(ran)) <= Cardinality(Blocks)
    BY <1>3, ConstantAssumption, FS_Injection
  <1>5. Cardinality(1 .. Len(ran)) = Len(ran)
    BY <1>2, FS_Interval
  <1>6. QED  BY <1>4, <1>5

\* For all threads, blocks and depths: a caller goes on with the result that was
\* returned, and never as if a call that failed had succeeded.
THEOREM OutcomeTakenHolds == Spec => []OutcomeTaken
  <1>1. IInv => OutcomeTaken
    <2>1. SUFFICES ASSUME IInv PROVE OutcomeTaken
      OBVIOUS
    <2>2. ASSUME NEW t \in Threads
          PROVE  /\ Len(stack[t]) <= MaxDepth[t] + Cardinality(Blocks)
                 /\ stack[t] # << >> => Head(stack[t]).kind = "function"
      <3>1. Sound(stack[t]) /\ Len(stack[t]) <= MaxDepth[t] + Len(ran) /\ ran \in Seq(Blocks)
        BY <2>1 DEF IInv, StackOK, RanOK
      <3>2. /\ Len(stack[t]) \in Nat /\ Len(ran) \in Nat /\ MaxDepth[t] \in Nat
            /\ Cardinality(Blocks) \in Nat
        BY <3>1, StackFacts, LenProperties, ConstantAssumption, FS_CardinalityType
      <3>3. Len(ran) <= Cardinality(Blocks)
        BY <2>1, RanBound
      <3>4. stack[t] # << >> => Head(stack[t]) = stack[t][1]
        BY <3>1 DEF Sound
      <3>5. QED  BY <3>1, <3>2, <3>3, <3>4 DEF Sound
    <2>3. Range(ran) \subseteq Blocks
      <3>1. ran \in Seq(Blocks)
        BY <2>1 DEF IInv, RanOK
      <3>2. QED  BY <3>1, LenProperties, ElementOfSeq DEF Range
    <2>4. QED  BY <2>1, <2>2, <2>3 DEF IInv, SeenOK, OutcomeTaken, TypeOK
  <1>2. QED  BY <1>1, Invariance, PTL

-----------------------------------------------------------------------------
(* Text: induction and recursive functions.                                *)

\* A set that holds 0 and the successor of each of its numbers below M.
LEMMA UpTo ==
  ASSUME NEW M \in Nat, NEW S, 0 \in S, \A m \in 0 .. M - 1 : m \in S => m + 1 \in S
  PROVE  0 .. M \subseteq S
  <1> DEFINE T == {m \in 0 .. M : m \notin S}
  <1>1. SUFFICES ASSUME T # {} PROVE FALSE
    OBVIOUS
  <1>2. T \in SUBSET Nat
    OBVIOUS
  <1>3. PICK m \in T : \A k \in T : m <= k
    <2> HIDE DEF T
    <2>1. QED  BY <1>1, <1>2, LeastNat
  <1>4. m # 0 /\ m \in 0 .. M
    BY <1>3
  <1>5. m - 1 \in 0 .. M - 1 /\ m - 1 \in S
    BY <1>3, <1>4
  <1>6. QED  BY <1>3, <1>5

\* A set that holds every number up to M of which it holds all smaller ones.
LEMMA Strongly ==
  ASSUME NEW M \in Nat, NEW S, \A m \in 0 .. M : (\A k \in 0 .. m - 1 : k \in S) => m \in S
  PROVE  0 .. M \subseteq S
  <1> DEFINE T == {m \in 0 .. M : m \notin S}
  <1>1. SUFFICES ASSUME T # {} PROVE FALSE
    OBVIOUS
  <1>2. T \in SUBSET Nat
    OBVIOUS
  <1>3. PICK m \in T : \A k \in T : m <= k
    <2> HIDE DEF T
    <2>1. QED  BY <1>1, <1>2, LeastNat
  <1>4. ASSUME NEW k \in 0 .. m - 1 PROVE k \in S
    <2>1. k \in 0 .. M /\ ~(m <= k)
      BY <1>3, <1>4
    <2>2. QED  BY <1>3, <2>1
  <1>5. QED  BY <1>3, <1>4

\* The same from L + 1 down to 1.
LEMMA Backwards ==
  ASSUME NEW L \in Nat, NEW S, \A i \in 1 .. L + 1 : (\A j \in i + 1 .. L + 1 : j \in S) => i \in S
  PROVE  1 .. L + 1 \subseteq S
  <1> DEFINE T == {m \in 0 .. L : (L + 1) - m \in S}
  <1>1. ASSUME NEW m \in 0 .. L, \A k \in 0 .. m - 1 : k \in T PROVE m \in T
    <2>1. (L + 1) - m \in 1 .. L + 1
      OBVIOUS
    <2>2. ASSUME NEW j \in ((L + 1) - m) + 1 .. L + 1 PROVE j \in S
      <3>1. (L + 1) - j \in 0 .. m - 1 /\ (L + 1) - ((L + 1) - j) = j
        BY <2>2
      <3>2. QED  BY <1>1, <3>1
    <2>3. QED  BY <2>1, <2>2
  <1>2. 0 .. L \subseteq T
    <2> HIDE DEF T
    <2>1. QED  BY <1>1, Strongly
  <1>3. ASSUME NEW i \in 1 .. L + 1 PROVE i \in S
    <2>1. (L + 1) - i \in 0 .. L /\ (L + 1) - ((L + 1) - i) = i
      BY <1>3
    <2>2. QED  BY <1>2, <2>1
  <1>4. QED  BY <1>3

\* A function on D defined by recursion: by base where it ends, and from its
\* value at before[d] otherwise, which is smaller in rank.
ByRecursion(D, M, rank, V, base, Ends0, before, next) ==
  /\ M \in Nat /\ rank \in [D -> 0 .. M] /\ base \in [D -> V]
  /\ Ends0 \in SUBSET D /\ next \in [D -> [V -> V]]
  /\ \A d \in D \ Ends0 : before[d] \in D /\ rank[before[d]] < rank[d]

LEMMA RecursionExists ==
  ASSUME NEW D, NEW M, NEW rank, NEW V, NEW base, NEW Ends0, NEW before, NEW next,
         ByRecursion(D, M, rank, V, base, Ends0, before, next)
  PROVE  \E f \in [D -> V] : \A d \in D :
            f[d] = IF d \in Ends0 THEN base[d] ELSE next[d][f[before[d]]]
  <1>0. /\ M \in Nat /\ rank \in [D -> 0 .. M] /\ base \in [D -> V]
        /\ Ends0 \in SUBSET D /\ next \in [D -> [V -> V]]
        /\ \A d \in D \ Ends0 : before[d] \in D /\ rank[before[d]] < rank[d]
    BY DEF ByRecursion
  <1> DEFINE Good0(f, m) == \A d \in D : rank[d] < m =>
                  f[d] = IF d \in Ends0 THEN base[d] ELSE next[d][f[before[d]]]
             S == {m \in Nat : \E f \in [D -> V] : Good0(f, m)}
  <1>1. 0 \in S
    <2>1. Good0(base, 0)
      BY <1>0
    <2>2. QED  BY <1>0, <2>1
  <1>2. ASSUME NEW m \in 0 .. M, m \in S PROVE m + 1 \in S
    <2>1. PICK f \in [D -> V] : Good0(f, m)
      BY <1>2
    <2> DEFINE new(d) == IF d \in Ends0 THEN base[d] ELSE next[d][f[before[d]]]
               g == [d \in D |-> IF rank[d] < m THEN f[d] ELSE new(d)]
    <2>2. \A d \in D : new(d) \in V
      BY <1>0, <2>1
    <2>3. g \in [D -> V] /\ \A d \in D : g[d] = IF rank[d] < m THEN f[d] ELSE new(d)
      <3> HIDE DEF new
      <3>1. QED  BY <2>1, <2>2
    <2> HIDE DEF g
    <2>4. ASSUME NEW d \in D, rank[d] < m + 1
          PROVE  g[d] = IF d \in Ends0 THEN base[d] ELSE next[d][g[before[d]]]
      <3>1. CASE d \in Ends0
        BY <2>1, <2>3, <3>1
      <3>2. CASE d \notin Ends0
        <4>1. before[d] \in D /\ rank[before[d]] < m
          BY <1>0, <2>4, <3>2
        <4>2. g[before[d]] = f[before[d]]
          BY <2>3, <4>1
        <4>3. g[d] = next[d][f[before[d]]]
          BY <2>1, <2>3, <3>2
        <4>4. QED  BY <3>2, <4>2, <4>3
      <3>3. QED  BY <3>1, <3>2
    <2>5. QED  BY <1>0, <1>2, <2>3, <2>4
  <1>3. M + 1 \in S
    <2> HIDE DEF S
    <2>1. \A m \in 0 .. (M + 1) - 1 : m \in S => m + 1 \in S
      BY <1>0, <1>2
    <2> DEFINE k == M + 1
    <2>2. k \in Nat /\ k \in 0 .. k
      BY <1>0
    <2>3. \A m \in 0 .. k - 1 : m \in S => m + 1 \in S
      BY <2>1
    <2> HIDE DEF k
    <2>4. 0 .. k \subseteq S
      BY ONLY <1>1, <2>2, <2>3, UpTo
    <2>5. QED  BY <2>2, <2>4 DEF k
  <1>4. PICK f \in [D -> V] : Good0(f, M + 1)
    BY <1>3
  <1>5. \A d \in D : rank[d] < M + 1
    BY <1>0
  <1>6. QED  BY <1>4, <1>5

-----------------------------------------------------------------------------
(* UTF-8: one rune.                                                        *)

\* What a byte announces as the first.
LEMMA FirstIs ==
  ASSUME NEW b \in Byte
  PROVE  /\ b < 128 => utf8_first(b) = 240
         /\ b \in 128 .. 193 => utf8_first(b) = 241
         /\ b \in 194 .. 223 => utf8_first(b) = 2
         /\ b = 224 => utf8_first(b) = 19
         /\ b \in 225 .. 239 /\ b # 237 => utf8_first(b) = 3
         /\ b = 237 => utf8_first(b) = 35
         /\ b = 240 => utf8_first(b) = 52
         /\ b \in 241 .. 243 => utf8_first(b) = 4
         /\ b = 244 => utf8_first(b) = 68
         /\ b > 244 => utf8_first(b) = 241
  <1>1. b \in 0 .. 255
    BY DEF Byte
  <1>2. b < 128 => utf8_first(b) = 240
    BY <1>1 DEF utf8_first, AS
  <1>3. b \in 128 .. 193 \/ b > 244 => utf8_first(b) = 241
    BY <1>1 DEF utf8_first, AS, XX
  <1>4. b \in 194 .. 223 => utf8_first(b) = 2
    BY <1>1 DEF utf8_first
  <1>5. b \in 225 .. 239 /\ b # 237 => utf8_first(b) = 3
    BY <1>1 DEF utf8_first
  <1>6. b = 224 => utf8_first(b) = 19
    BY <1>1 DEF utf8_first
  <1>7. b = 237 => utf8_first(b) = 35
    BY <1>1 DEF utf8_first
  <1>8. b = 240 => utf8_first(b) = 52
    BY <1>1 DEF utf8_first
  <1>9. b \in 241 .. 243 => utf8_first(b) = 4
    BY <1>1 DEF utf8_first
  <1>10. b = 244 => utf8_first(b) = 68
    BY <1>1 DEF utf8_first
  <1>11. QED  BY <1>2, <1>3, <1>4, <1>5, <1>6, <1>7, <1>8, <1>9, <1>10

\* The bytes of a rune of two, three and four bytes.
Two(b, c) == b \in 194 .. 223 /\ c \in 128 .. 191
Three(b, c, d) == /\ b \in 224 .. 239 /\ c \in 128 .. 191 /\ d \in 128 .. 191
                  /\ b = 224 => c >= 160
                  /\ b = 237 => c <= 159
Four(b, c, d, e) == /\ b \in 240 .. 244 /\ c \in 128 .. 191 /\ d \in 128 .. 191 /\ e \in 128 .. 191
                    /\ b = 240 => c >= 144
                    /\ b = 244 => c <= 143

Of2(b, c) == (b - 192) * 64 + (c - 128)
Of3(b, c, d) == (b - 224) * 4096 + (c - 128) * 64 + (d - 128)
Of4(b, c, d, e) == (b - 240) * 262144 + (c - 128) * 4096 + (d - 128) * 64 + (e - 128)

\* A rune of one, two, three and four bytes at byte i of s.
Is1(s, i) == s[i] < 128
Is2(s, i) == i + 1 <= Len(s) /\ Two(s[i], s[i + 1])
Is3(s, i) == i + 2 <= Len(s) /\ Three(s[i], s[i + 1], s[i + 2])
Is4(s, i) == i + 3 <= Len(s) /\ Four(s[i], s[i + 1], s[i + 2], s[i + 3])
IsNone(s, i) == ~Is1(s, i) /\ ~Is2(s, i) /\ ~Is3(s, i) /\ ~Is4(s, i)

\* The bits of a byte that count.
LEMMA LowBits ==
  /\ \A b \in 128 .. 191 : b % 64 = b - 128
  /\ \A b \in 194 .. 223 : b % 32 = b - 192
  /\ \A b \in 224 .. 239 : b % 16 = b - 224
  /\ \A b \in 240 .. 244 : b % 8 = b - 240
  <1>1. \A b \in 128 .. 191 : b % 64 = b - 128
    OBVIOUS
  <1>2. \A b \in 194 .. 223 : b % 32 = b - 192
    OBVIOUS
  <1>3. \A b \in 224 .. 239 : b % 16 = b - 224
    OBVIOUS
  <1>4. \A b \in 240 .. 244 : b % 8 = b - 240
    OBVIOUS
  <1>5. QED  BY <1>1, <1>2, <1>3, <1>4

LEMMA Low2 ==
  ASSUME NEW b, NEW c, Two(b, c)
  PROVE  (b % 32) * 64 + (c % 64) = Of2(b, c)
  <1>1. b \in 194 .. 223 /\ c \in 128 .. 191
    BY DEF Two
  <1>2. b % 32 = b - 192 /\ c % 64 = c - 128
    BY <1>1, LowBits
  <1>3. QED  BY <1>1, <1>2 DEF Of2

LEMMA Low3 ==
  ASSUME NEW b, NEW c, NEW d, Three(b, c, d)
  PROVE  (b % 16) * 4096 + (c % 64) * 64 + (d % 64) = Of3(b, c, d)
  <1>1. b \in 224 .. 239 /\ c \in 128 .. 191 /\ d \in 128 .. 191
    BY DEF Three
  <1>2. b % 16 = b - 224 /\ c % 64 = c - 128 /\ d % 64 = d - 128
    BY <1>1, LowBits
  <1>3. QED  BY <1>1, <1>2 DEF Of3

LEMMA Low4 ==
  ASSUME NEW b, NEW c, NEW d, NEW e, Four(b, c, d, e)
  PROVE  (b % 8) * 262144 + (c % 64) * 4096 + (d % 64) * 64 + (e % 64) = Of4(b, c, d, e)
  <1>1. b \in 240 .. 244 /\ c \in 128 .. 191 /\ d \in 128 .. 191 /\ e \in 128 .. 191
    BY DEF Four
  <1>2. b % 8 = b - 240 /\ c % 64 = c - 128 /\ d % 64 = d - 128 /\ e % 64 = e - 128
    BY <1>1, LowBits
  <1>3. QED  BY <1>1, <1>2 DEF Of4

\* The bytes behind a first byte that announces x are there.
Complete(s, i, x) ==
  /\ i + (x % 8) - 1 <= Len(s)
  /\ s[i + 1] \in utf8_accept_ranges(x \div 16)
  /\ \A k \in 2 .. (x % 8) - 1 : s[i + k] \in 128 .. 191

\* The cases of the decoder.
LEMMA DecodeAlone ==
  ASSUME NEW s, NEW i, ~(i > Len(s)), utf8_first(s[i]) = 240
  PROVE  utf8_decode_rune_str(s, i) = <<s[i], 1>>
  BY SMT DEF utf8_decode_rune_str, Complete, AS, XX, LOCB, HICB

LEMMA DecodeNone ==
  ASSUME NEW s, NEW i, ~(i > Len(s)), utf8_first(s[i]) = 241
  PROVE  utf8_decode_rune_str(s, i) = <<RUNE_ERROR, 1>>
  BY SMT DEF utf8_decode_rune_str, Complete, AS, XX, LOCB, HICB

LEMMA DecodeCut ==
  ASSUME NEW s, NEW i, ~(i > Len(s)), utf8_first(s[i]) \notin {240, 241},
         ~Complete(s, i, utf8_first(s[i]))
  PROVE  utf8_decode_rune_str(s, i) = <<RUNE_ERROR, 1>>
  BY SMT DEF utf8_decode_rune_str, Complete, AS, XX, LOCB, HICB

LEMMA Decode2 ==
  ASSUME NEW s, NEW i, ~(i > Len(s)), utf8_first(s[i]) \notin {240, 241}, utf8_first(s[i]) % 8 = 2,
         Complete(s, i, utf8_first(s[i]))
  PROVE  utf8_decode_rune_str(s, i) = 
            <<(s[i] % 32) * 64 + (s[i + 1] % 64), 2>>
  BY SMT DEF utf8_decode_rune_str, Complete, AS, XX, LOCB, HICB

LEMMA Decode3 ==
  ASSUME NEW s, NEW i, ~(i > Len(s)), utf8_first(s[i]) \notin {240, 241}, utf8_first(s[i]) % 8 = 3,
         Complete(s, i, utf8_first(s[i]))
  PROVE  utf8_decode_rune_str(s, i) = 
            <<(s[i] % 16) * 4096 + (s[i + 1] % 64) * 64 + (s[i + 2] % 64), 3>>
  BY SMT DEF utf8_decode_rune_str, Complete, AS, XX, LOCB, HICB

LEMMA Decode4 ==
  ASSUME NEW s, NEW i, ~(i > Len(s)), utf8_first(s[i]) \notin {240, 241}, utf8_first(s[i]) % 8 = 4,
         Complete(s, i, utf8_first(s[i]))
  PROVE  utf8_decode_rune_str(s, i) = 
            <<(s[i] % 8) * 262144 + (s[i + 1] % 64) * 4096 + (s[i + 2] % 64) * 64 + (s[i + 3] % 64), 4>>
  BY SMT DEF utf8_decode_rune_str, Complete, AS, XX, LOCB, HICB

\* What is asked of the bytes behind the first.
LEMMA Completes ==
  ASSUME NEW s \in Seq(Byte), NEW i \in 1 .. Len(s)
  PROVE  /\ Complete(s, i, 2) <=> i + 1 <= Len(s) /\ s[i + 1] \in 128 .. 191
         /\ Complete(s, i, 3) <=> i + 2 <= Len(s) /\ s[i + 1] \in 128 .. 191 /\ s[i + 2] \in 128 .. 191
         /\ Complete(s, i, 19) <=> i + 2 <= Len(s) /\ s[i + 1] \in 160 .. 191 /\ s[i + 2] \in 128 .. 191
         /\ Complete(s, i, 35) <=> i + 2 <= Len(s) /\ s[i + 1] \in 128 .. 159 /\ s[i + 2] \in 128 .. 191
         /\ Complete(s, i, 4) <=> /\ i + 3 <= Len(s) /\ s[i + 1] \in 128 .. 191
                                  /\ s[i + 2] \in 128 .. 191 /\ s[i + 3] \in 128 .. 191
         /\ Complete(s, i, 52) <=> /\ i + 3 <= Len(s) /\ s[i + 1] \in 144 .. 191
                                   /\ s[i + 2] \in 128 .. 191 /\ s[i + 3] \in 128 .. 191
         /\ Complete(s, i, 68) <=> /\ i + 3 <= Len(s) /\ s[i + 1] \in 128 .. 143
                                   /\ s[i + 2] \in 128 .. 191 /\ s[i + 3] \in 128 .. 191
  <1>1. /\ utf8_accept_ranges(0) = 128 .. 191 /\ utf8_accept_ranges(1) = 160 .. 191
        /\ utf8_accept_ranges(2) = 128 .. 159 /\ utf8_accept_ranges(3) = 144 .. 191
        /\ utf8_accept_ranges(4) = 128 .. 143
    BY DEF utf8_accept_ranges, LOCB, HICB
  <1>2. /\ 2 % 8 = 2 /\ 2 \div 16 = 0 /\ 3 % 8 = 3 /\ 3 \div 16 = 0 /\ 19 % 8 = 3 /\ 19 \div 16 = 1
        /\ 35 % 8 = 3 /\ 35 \div 16 = 2 /\ 4 % 8 = 4 /\ 4 \div 16 = 0
        /\ 52 % 8 = 4 /\ 52 \div 16 = 3 /\ 68 % 8 = 4 /\ 68 \div 16 = 4
    OBVIOUS
  <1>3. /\ 2 .. 2 - 1 = {} /\ 2 .. 3 - 1 = {2} /\ 2 .. 4 - 1 = {2, 3}
        /\ i + 2 - 1 = i + 1 /\ i + 3 - 1 = i + 2 /\ i + 4 - 1 = i + 3
    OBVIOUS
  <1>4. Complete(s, i, 2) <=> i + 1 <= Len(s) /\ s[i + 1] \in 128 .. 191
    BY <1>1, <1>2, <1>3 DEF Complete
  <1>5. Complete(s, i, 3) <=> i + 2 <= Len(s) /\ s[i + 1] \in 128 .. 191 /\ s[i + 2] \in 128 .. 191
    BY <1>1, <1>2, <1>3 DEF Complete
  <1>6. Complete(s, i, 19) <=> i + 2 <= Len(s) /\ s[i + 1] \in 160 .. 191 /\ s[i + 2] \in 128 .. 191
    BY <1>1, <1>2, <1>3 DEF Complete
  <1>7. Complete(s, i, 35) <=> i + 2 <= Len(s) /\ s[i + 1] \in 128 .. 159 /\ s[i + 2] \in 128 .. 191
    BY <1>1, <1>2, <1>3 DEF Complete
  <1>8. Complete(s, i, 4) <=> /\ i + 3 <= Len(s) /\ s[i + 1] \in 128 .. 191
                             /\ s[i + 2] \in 128 .. 191 /\ s[i + 3] \in 128 .. 191
    BY <1>1, <1>2, <1>3 DEF Complete
  <1>9. Complete(s, i, 52) <=> /\ i + 3 <= Len(s) /\ s[i + 1] \in 144 .. 191
                              /\ s[i + 2] \in 128 .. 191 /\ s[i + 3] \in 128 .. 191
    BY <1>1, <1>2, <1>3 DEF Complete
  <1>10. Complete(s, i, 68) <=> /\ i + 3 <= Len(s) /\ s[i + 1] \in 128 .. 143
                               /\ s[i + 2] \in 128 .. 191 /\ s[i + 3] \in 128 .. 191
    BY <1>1, <1>2, <1>3 DEF Complete
  <1>11. QED  BY <1>4, <1>5, <1>6, <1>7, <1>8, <1>9, <1>10

LEMMA Three224 ==
  ASSUME NEW b \in 224 .. 239, b = 224, NEW c \in Int, NEW d
  PROVE  Three(b, c, d) <=> c \in 160 .. 191 /\ d \in 128 .. 191
  <1> DEFINE rest == d \in 128 .. 191
  <1>1. Three(b, c, d) <=> (b \in 224 .. 239 /\ c \in 128 .. 191 /\ rest
                 /\ (b = 224 => c >= 160) /\ (b = 237 => c <= 159))
    BY DEF Three
  <1> HIDE DEF rest
  <1>2. QED  BY <1>1 DEF rest

LEMMA Three237 ==
  ASSUME NEW b \in 224 .. 239, b = 237, NEW c \in Int, NEW d
  PROVE  Three(b, c, d) <=> c \in 128 .. 159 /\ d \in 128 .. 191
  <1> DEFINE rest == d \in 128 .. 191
  <1>1. Three(b, c, d) <=> (b \in 224 .. 239 /\ c \in 128 .. 191 /\ rest
                 /\ (b = 224 => c >= 160) /\ (b = 237 => c <= 159))
    BY DEF Three
  <1> HIDE DEF rest
  <1>2. QED  BY <1>1 DEF rest

LEMMA ThreeOther ==
  ASSUME NEW b \in 224 .. 239, b # 224, b # 237, NEW c \in Int, NEW d
  PROVE  Three(b, c, d) <=> c \in 128 .. 191 /\ d \in 128 .. 191
  <1> DEFINE rest == d \in 128 .. 191
  <1>1. Three(b, c, d) <=> (b \in 224 .. 239 /\ c \in 128 .. 191 /\ rest
                 /\ (b = 224 => c >= 160) /\ (b = 237 => c <= 159))
    BY DEF Three
  <1> HIDE DEF rest
  <1>2. QED  BY <1>1 DEF rest

\* The decoder asks of the bytes behind the first what makes them a rune of three.
LEMMA Complete3 ==
  ASSUME NEW s \in Seq(Byte), NEW i \in 1 .. Len(s), s[i] \in 224 .. 239, NEW x,
         s[i] = 224 => x = 19, s[i] = 237 => x = 35,
         s[i] # 224 /\ s[i] # 237 => x = 3
  PROVE  Complete(s, i, x) <=> Is3(s, i)
  <1> DEFINE b == s[i]
             c == s[i + 1]
             fits == i + 2 <= Len(s)
             rest == s[i + 2] \in 128 .. 191
  <1>1. Is3(s, i) <=> fits /\ Three(b, c, s[i + 2])
    BY DEF Is3
  <1>2. /\ Complete(s, i, 19) <=> fits /\ c \in 160 .. 191 /\ rest
        /\ Complete(s, i, 35) <=> fits /\ c \in 128 .. 159 /\ rest
        /\ Complete(s, i, 3) <=> fits /\ c \in 128 .. 191 /\ rest
    BY Completes
  <1>3. ASSUME fits PROVE c \in Int
    <2>1. i + 1 \in 1 .. Len(s)
      BY <1>3
    <2>2. c \in Byte
      BY <2>1
    <2> HIDE DEF c
    <2>3. QED  BY <2>2 DEF Byte
  <1>4. CASE b = 224
    <2>1. ASSUME fits PROVE Three(b, c, s[i + 2]) <=> c \in 160 .. 191 /\ rest
      <3> DEFINE e == s[i + 2]
      <3>1. b \in 224 .. 239 /\ c \in Int
        BY <1>3, <2>1
      <3> HIDE DEF b, c, e
      <3>2. Three(b, c, e) <=> c \in 160 .. 191 /\ e \in 128 .. 191
        BY <1>4, <3>1, Three224
      <3>3. QED  BY <3>2 DEF e
    <2>2. x = 19
      BY <1>4
    <2>3. Complete(s, i, x) <=> Complete(s, i, 19)
      BY <2>2
    <2> HIDE DEF b, c, fits, rest
    <2>4. QED  BY <1>1, <1>2, <2>1, <2>3
  <1>5. CASE b = 237
    <2>1. ASSUME fits PROVE Three(b, c, s[i + 2]) <=> c \in 128 .. 159 /\ rest
      <3> DEFINE e == s[i + 2]
      <3>1. b \in 224 .. 239 /\ c \in Int
        BY <1>3, <2>1
      <3> HIDE DEF b, c, e
      <3>2. Three(b, c, e) <=> c \in 128 .. 159 /\ e \in 128 .. 191
        BY <1>5, <3>1, Three237
      <3>3. QED  BY <3>2 DEF e
    <2>2. x = 35
      BY <1>5
    <2>3. Complete(s, i, x) <=> Complete(s, i, 35)
      BY <2>2
    <2> HIDE DEF b, c, fits, rest
    <2>4. QED  BY <1>1, <1>2, <2>1, <2>3
  <1>6. CASE b # 224 /\ b # 237
    <2>1. ASSUME fits PROVE Three(b, c, s[i + 2]) <=> c \in 128 .. 191 /\ rest
      <3> DEFINE e == s[i + 2]
      <3>1. b \in 224 .. 239 /\ c \in Int
        BY <1>3, <2>1
      <3> HIDE DEF b, c, e
      <3>2. Three(b, c, e) <=> c \in 128 .. 191 /\ e \in 128 .. 191
        BY <1>6, <3>1, ThreeOther
      <3>3. QED  BY <3>2 DEF e
    <2>2. x = 3
      BY <1>6
    <2>3. Complete(s, i, x) <=> Complete(s, i, 3)
      BY <2>2
    <2> HIDE DEF b, c, fits, rest
    <2>4. QED  BY <1>1, <1>2, <2>1, <2>3
  <1>7. QED  BY <1>4, <1>5, <1>6

LEMMA Four240 ==
  ASSUME NEW b \in 240 .. 244, b = 240, NEW c \in Int, NEW d, NEW e
  PROVE  Four(b, c, d, e) <=> c \in 144 .. 191 /\ d \in 128 .. 191 /\ e \in 128 .. 191
  <1> DEFINE rest == d \in 128 .. 191 /\ e \in 128 .. 191
  <1>1. Four(b, c, d, e) <=> (b \in 240 .. 244 /\ c \in 128 .. 191 /\ rest
                 /\ (b = 240 => c >= 144) /\ (b = 244 => c <= 143))
    BY DEF Four
  <1> HIDE DEF rest
  <1>2. QED  BY <1>1 DEF rest

LEMMA Four244 ==
  ASSUME NEW b \in 240 .. 244, b = 244, NEW c \in Int, NEW d, NEW e
  PROVE  Four(b, c, d, e) <=> c \in 128 .. 143 /\ d \in 128 .. 191 /\ e \in 128 .. 191
  <1> DEFINE rest == d \in 128 .. 191 /\ e \in 128 .. 191
  <1>1. Four(b, c, d, e) <=> (b \in 240 .. 244 /\ c \in 128 .. 191 /\ rest
                 /\ (b = 240 => c >= 144) /\ (b = 244 => c <= 143))
    BY DEF Four
  <1> HIDE DEF rest
  <1>2. QED  BY <1>1 DEF rest

LEMMA FourOther ==
  ASSUME NEW b \in 240 .. 244, b # 240, b # 244, NEW c \in Int, NEW d, NEW e
  PROVE  Four(b, c, d, e) <=> c \in 128 .. 191 /\ d \in 128 .. 191 /\ e \in 128 .. 191
  <1> DEFINE rest == d \in 128 .. 191 /\ e \in 128 .. 191
  <1>1. Four(b, c, d, e) <=> (b \in 240 .. 244 /\ c \in 128 .. 191 /\ rest
                 /\ (b = 240 => c >= 144) /\ (b = 244 => c <= 143))
    BY DEF Four
  <1> HIDE DEF rest
  <1>2. QED  BY <1>1 DEF rest

\* The decoder asks of the bytes behind the first what makes them a rune of four.
LEMMA Complete4 ==
  ASSUME NEW s \in Seq(Byte), NEW i \in 1 .. Len(s), s[i] \in 240 .. 244, NEW x,
         s[i] = 240 => x = 52, s[i] = 244 => x = 68,
         s[i] # 240 /\ s[i] # 244 => x = 4
  PROVE  Complete(s, i, x) <=> Is4(s, i)
  <1> DEFINE b == s[i]
             c == s[i + 1]
             fits == i + 3 <= Len(s)
             rest == s[i + 2] \in 128 .. 191 /\ s[i + 3] \in 128 .. 191
  <1>1. Is4(s, i) <=> fits /\ Four(b, c, s[i + 2], s[i + 3])
    BY DEF Is4
  <1>2. /\ Complete(s, i, 52) <=> fits /\ c \in 144 .. 191 /\ rest
        /\ Complete(s, i, 68) <=> fits /\ c \in 128 .. 143 /\ rest
        /\ Complete(s, i, 4) <=> fits /\ c \in 128 .. 191 /\ rest
    BY Completes
  <1>3. ASSUME fits PROVE c \in Int
    <2>1. i + 1 \in 1 .. Len(s)
      BY <1>3
    <2>2. c \in Byte
      BY <2>1
    <2> HIDE DEF c
    <2>3. QED  BY <2>2 DEF Byte
  <1>4. CASE b = 240
    <2>1. ASSUME fits PROVE Four(b, c, s[i + 2], s[i + 3]) <=> c \in 144 .. 191 /\ rest
      <3> DEFINE e == s[i + 2]
                 f == s[i + 3]
      <3>1. b \in 240 .. 244 /\ c \in Int
        BY <1>3, <2>1
      <3> HIDE DEF b, c, e, f
      <3>2. Four(b, c, e, f) <=> c \in 144 .. 191 /\ e \in 128 .. 191 /\ f \in 128 .. 191
        BY <1>4, <3>1, Four240
      <3>3. QED  BY <3>2 DEF e, f
    <2>2. x = 52
      BY <1>4
    <2>3. Complete(s, i, x) <=> Complete(s, i, 52)
      BY <2>2
    <2> HIDE DEF b, c, fits, rest
    <2>4. QED  BY <1>1, <1>2, <2>1, <2>3
  <1>5. CASE b = 244
    <2>1. ASSUME fits PROVE Four(b, c, s[i + 2], s[i + 3]) <=> c \in 128 .. 143 /\ rest
      <3> DEFINE e == s[i + 2]
                 f == s[i + 3]
      <3>1. b \in 240 .. 244 /\ c \in Int
        BY <1>3, <2>1
      <3> HIDE DEF b, c, e, f
      <3>2. Four(b, c, e, f) <=> c \in 128 .. 143 /\ e \in 128 .. 191 /\ f \in 128 .. 191
        BY <1>5, <3>1, Four244
      <3>3. QED  BY <3>2 DEF e, f
    <2>2. x = 68
      BY <1>5
    <2>3. Complete(s, i, x) <=> Complete(s, i, 68)
      BY <2>2
    <2> HIDE DEF b, c, fits, rest
    <2>4. QED  BY <1>1, <1>2, <2>1, <2>3
  <1>6. CASE b # 240 /\ b # 244
    <2>1. ASSUME fits PROVE Four(b, c, s[i + 2], s[i + 3]) <=> c \in 128 .. 191 /\ rest
      <3> DEFINE e == s[i + 2]
                 f == s[i + 3]
      <3>1. b \in 240 .. 244 /\ c \in Int
        BY <1>3, <2>1
      <3> HIDE DEF b, c, e, f
      <3>2. Four(b, c, e, f) <=> c \in 128 .. 191 /\ e \in 128 .. 191 /\ f \in 128 .. 191
        BY <1>6, <3>1, FourOther
      <3>3. QED  BY <3>2 DEF e, f
    <2>2. x = 4
      BY <1>6
    <2>3. Complete(s, i, x) <=> Complete(s, i, 4)
      BY <2>2
    <2> HIDE DEF b, c, fits, rest
    <2>4. QED  BY <1>1, <1>2, <2>1, <2>3
  <1>7. QED  BY <1>4, <1>5, <1>6

\* What the decoder finds at byte i.
Decoded(s, i) ==
  /\ Is1(s, i) => utf8_decode_rune_str(s, i) = <<s[i], 1>>
  /\ Is2(s, i) => utf8_decode_rune_str(s, i) = <<Of2(s[i], s[i + 1]), 2>>
  /\ Is3(s, i) => utf8_decode_rune_str(s, i) = <<Of3(s[i], s[i + 1], s[i + 2]), 3>>
  /\ Is4(s, i) => utf8_decode_rune_str(s, i) = <<Of4(s[i], s[i + 1], s[i + 2], s[i + 3]), 4>>
  /\ IsNone(s, i) => utf8_decode_rune_str(s, i) = <<RUNE_ERROR, 1>>

LEMMA DecodeIs ==
  ASSUME NEW s \in Seq(Byte), NEW i \in 1 .. Len(s)
  PROVE  Decoded(s, i)
  <1> DEFINE b == s[i]
             n == Len(s)
             x == utf8_first(b)
             d == utf8_decode_rune_str(s, i)
  <1>1. b \in Byte /\ ~(i > n)
    OBVIOUS
  <1>2. b \in 0 .. 255
    BY <1>1 DEF Byte
  <1>3. x = utf8_first(b) /\ b = s[i]
    OBVIOUS
  <1>4. CASE b < 128
    <2>1. x = 240
      BY <1>1, <1>4, FirstIs
    <2>2. d = <<s[i], 1>>
      BY <1>1, <2>1, DecodeAlone
    <2> HIDE DEF x, d, b
    <2>3. b < 128 /\ ~(b \in 194 .. 223) /\ ~(b \in 224 .. 239) /\ ~(b \in 240 .. 244)
      BY <1>2, <1>4
    <2>4. Is1(s, i) /\ ~Is2(s, i) /\ ~Is3(s, i) /\ ~Is4(s, i)
      BY <2>3, Zenon DEF Is1, Is2, Is3, Is4, Two, Three, Four, b
    <2>5. QED  BY <2>2, <2>4, SMT DEF Decoded, IsNone, d
  <1>5. CASE b \in 128 .. 193 \/ b > 244
    <2>1. x = 241
      BY <1>1, <1>5, FirstIs
    <2>2. d = <<RUNE_ERROR, 1>>
      BY <1>1, <2>1, DecodeNone
    <2> HIDE DEF x, d, b
    <2>3. ~(b < 128) /\ ~(b \in 194 .. 223) /\ ~(b \in 224 .. 239) /\ ~(b \in 240 .. 244)
      BY <1>2, <1>5
    <2>4. ~Is1(s, i) /\ ~Is2(s, i) /\ ~Is3(s, i) /\ ~Is4(s, i)
      BY <2>3, Zenon DEF Is1, Is2, Is3, Is4, Two, Three, Four, b
    <2>5. QED  BY <2>2, <2>4, SMT DEF Decoded, IsNone, d
  <1>6. CASE b \in 194 .. 223
    <2>1. x = 2
      BY <1>1, <1>6, FirstIs
    <2>2. x % 8 = 2 /\ x \notin {240, 241}
      BY <2>1
    <2>3. Complete(s, i, x) => d = <<(s[i] % 32) * 64 + (s[i + 1] % 64), 2>>
      BY <1>1, <2>2, Decode2
    <2>4. ~Complete(s, i, x) => d = <<RUNE_ERROR, 1>>
      BY <1>1, <2>2, DecodeCut
    <2> HIDE DEF x, d, b
    <2>5. ~(b < 128) /\ ~(b \in 224 .. 239) /\ ~(b \in 240 .. 244)
      BY <1>2, <1>6
    <2>6. ~Is1(s, i) /\ ~Is3(s, i) /\ ~Is4(s, i)
      BY <2>5, Zenon DEF Is1, Is3, Is4, Three, Four, b
    <2>7. Complete(s, i, x) <=> Is2(s, i)
      <3>1. Complete(s, i, 2) <=> Is2(s, i)
        BY <1>6, Completes DEF Is2, Two, b
      <3>2. QED  BY <2>1, <3>1, Zenon
    <2>8. Is2(s, i) => (s[i] % 32) * 64 + (s[i + 1] % 64) = Of2(s[i], s[i + 1])
      BY Low2 DEF Is2
    <2>9. QED  BY <2>3, <2>4, <2>6, <2>7, <2>8, SMT DEF Decoded, IsNone, d
  <1>7. CASE b \in 224 .. 239
    <2>1. x \in {3, 19, 35} /\ (b = 224 => x = 19) /\ (b = 237 => x = 35)
          /\ (b # 224 /\ b # 237 => x = 3)
      <3>1. CASE b = 224
        BY <1>1, <3>1, FirstIs
      <3>2. CASE b = 237
        BY <1>1, <3>2, FirstIs
      <3>3. CASE b # 224 /\ b # 237
        <4>1. b \in 225 .. 239
          BY <1>7, <3>3
        <4>2. x = 3
          BY <1>1, <3>3, <4>1, FirstIs
        <4>3. QED  BY <3>3, <4>2
      <3>4. QED  BY <3>1, <3>2, <3>3
    <2>2. x % 8 = 3 /\ x \notin {240, 241}
      BY <2>1
    <2>3. Complete(s, i, x) => d = <<(s[i] % 16) * 4096 + (s[i + 1] % 64) * 64 + (s[i + 2] % 64), 3>>
      BY <1>1, <2>2, Decode3
    <2>4. ~Complete(s, i, x) => d = <<RUNE_ERROR, 1>>
      BY <1>1, <2>2, DecodeCut
    <2> HIDE DEF x, d, b
    <2>5. ~(b < 128) /\ ~(b \in 194 .. 223) /\ ~(b \in 240 .. 244)
      BY <1>2, <1>7
    <2>6. ~Is1(s, i) /\ ~Is2(s, i) /\ ~Is4(s, i)
      BY <2>5, Zenon DEF Is1, Is2, Is4, Two, Four, b
    <2>7. Complete(s, i, x) <=> Is3(s, i)
      BY <1>7, <2>1, Complete3 DEF b
    <2>8. Is3(s, i) => (s[i] % 16) * 4096 + (s[i + 1] % 64) * 64 + (s[i + 2] % 64) = Of3(s[i], s[i + 1], s[i + 2])
      BY Low3 DEF Is3
    <2>9. QED  BY <2>3, <2>4, <2>6, <2>7, <2>8, SMT DEF Decoded, IsNone, d
  <1>8. CASE b \in 240 .. 244
    <2>1. x \in {4, 52, 68} /\ (b = 240 => x = 52) /\ (b = 244 => x = 68)
          /\ (b # 240 /\ b # 244 => x = 4)
      <3>1. CASE b = 240
        BY <1>1, <3>1, FirstIs
      <3>2. CASE b = 244
        BY <1>1, <3>2, FirstIs
      <3>3. CASE b # 240 /\ b # 244
        <4>1. b \in 241 .. 243
          BY <1>8, <3>3
        <4>2. x = 4
          BY <1>1, <3>3, <4>1, FirstIs
        <4>3. QED  BY <3>3, <4>2
      <3>4. QED  BY <3>1, <3>2, <3>3
    <2>2. x % 8 = 4 /\ x \notin {240, 241}
      BY <2>1
    <2>3. Complete(s, i, x) => d = <<(s[i] % 8) * 262144 + (s[i + 1] % 64) * 4096 + (s[i + 2] % 64) * 64 + (s[i + 3] % 64), 4>>
      BY <1>1, <2>2, Decode4
    <2>4. ~Complete(s, i, x) => d = <<RUNE_ERROR, 1>>
      BY <1>1, <2>2, DecodeCut
    <2> HIDE DEF x, d, b
    <2>5. ~(b < 128) /\ ~(b \in 194 .. 223) /\ ~(b \in 224 .. 239)
      BY <1>2, <1>8
    <2>6. ~Is1(s, i) /\ ~Is2(s, i) /\ ~Is3(s, i)
      BY <2>5, Zenon DEF Is1, Is2, Is3, Two, Three, b
    <2>7. Complete(s, i, x) <=> Is4(s, i)
      BY <1>8, <2>1, Complete4 DEF b
    <2>8. Is4(s, i) => (s[i] % 8) * 262144 + (s[i + 1] % 64) * 4096 + (s[i + 2] % 64) * 64 + (s[i + 3] % 64) = Of4(s[i], s[i + 1], s[i + 2], s[i + 3])
      BY Low4 DEF Is4
    <2>9. QED  BY <2>3, <2>4, <2>6, <2>7, <2>8, SMT DEF Decoded, IsNone, d
  <1>9. b < 128 \/ b \in 128 .. 193 \/ b > 244 \/ b \in 194 .. 223 \/ b \in 224 .. 239 \/ b \in 240 .. 244
    <2> HIDE DEF b
    <2>1. QED  BY <1>2
  <1>10. QED  BY <1>4, <1>5, <1>6, <1>7, <1>8, <1>9

\* What the decoder finds at byte i of s, and where the next rune begins.
RuneAt(s, i) == utf8_decode_rune_str(s, i)[1]
Width(s, i) == utf8_decode_rune_str(s, i)[2]

LEMMA StepIs ==
  ASSUME NEW s \in Seq(Byte), NEW i \in 1 .. Len(s)
  PROVE  /\ Is1(s, i) => RuneAt(s, i) = s[i] /\ Width(s, i) = 1
         /\ Is2(s, i) => RuneAt(s, i) = Of2(s[i], s[i + 1]) /\ Width(s, i) = 2
         /\ Is3(s, i) => RuneAt(s, i) = Of3(s[i], s[i + 1], s[i + 2]) /\ Width(s, i) = 3
         /\ Is4(s, i) => RuneAt(s, i) = Of4(s[i], s[i + 1], s[i + 2], s[i + 3]) /\ Width(s, i) = 4
         /\ IsNone(s, i) => RuneAt(s, i) = RUNE_ERROR /\ Width(s, i) = 1
  BY DecodeIs DEF Decoded, RuneAt, Width

\* The bounds of the code points, as numbers.
LEMMA Bounds ==
  /\ MAX_RUNE = 1114111 /\ RUNE_ERROR = 65533
  /\ SURR1 = 55296 /\ SURR2 = 56320 /\ SURR3 = 57344 /\ SURR_SELF = 65536
  BY SMT DEF MAX_RUNE, RUNE_ERROR, SURR1, SURR2, SURR3, SURR_SELF

\* The rune of a window is a code point.
LEMMA Of2Is ==
  ASSUME NEW b, NEW c, Two(b, c)
  PROVE  Of2(b, c) \in Int /\ 128 <= Of2(b, c) /\ Of2(b, c) <= 2047
  <1>1. b \in Int /\ c \in Int /\ b >= 194 /\ b <= 223 /\ c >= 128 /\ c <= 191
    BY DEF Two
  <1>2. Of2(b, c) \in Int /\ 128 <= Of2(b, c) /\ Of2(b, c) <= 2047
    BY <1>1 DEF Of2
  <1>3. QED  BY <1>2

LEMMA Of3Is ==
  ASSUME NEW b, NEW c, NEW d, Three(b, c, d)
  PROVE  /\ Of3(b, c, d) \in Int /\ 2048 <= Of3(b, c, d) /\ Of3(b, c, d) < SURR_SELF
         /\ Of3(b, c, d) < SURR1 \/ SURR3 <= Of3(b, c, d)
  <1>1. /\ b \in Int /\ c \in Int /\ d \in Int
        /\ b >= 224 /\ b <= 239 /\ c >= 128 /\ c <= 191 /\ d >= 128 /\ d <= 191
        /\ b > 224 \/ c >= 160
        /\ b # 237 \/ c <= 159
    BY DEF Three
  <1> DEFINE n == Of3(b, c, d)
  <1>2. n = (b - 224) * 4096 + (c - 128) * 64 + (d - 128)
    BY DEF Of3
  <1>3. n \in Int
    BY <1>1, <1>2
  <1> HIDE DEF n
  <1>4. 2048 <= n
    BY <1>1, <1>2, SMT
  <1>5. n < SURR_SELF
    BY <1>1, <1>2, Bounds, SMT
  <1>6. n < SURR1 \/ SURR3 <= n
    <2>1. CASE b <= 236
      BY <1>1, <1>2, <2>1, Bounds, SMT
    <2>2. CASE b = 237
      BY <1>1, <1>2, <2>2, Bounds, SMT
    <2>3. CASE b >= 238
      BY <1>1, <1>2, <2>3, Bounds, SMT
    <2>4. QED  BY <1>1, <2>1, <2>2, <2>3
  <1>7. QED  BY <1>3, <1>4, <1>5, <1>6 DEF n

LEMMA Of4Is ==
  ASSUME NEW b, NEW c, NEW d, NEW e, Four(b, c, d, e)
  PROVE  Of4(b, c, d, e) \in Int /\ SURR_SELF <= Of4(b, c, d, e) /\ Of4(b, c, d, e) <= MAX_RUNE
  <1>1. /\ b \in Int /\ c \in Int /\ d \in Int /\ e \in Int
        /\ b >= 240 /\ b <= 244 /\ c >= 128 /\ c <= 191 /\ d >= 128 /\ d <= 191 /\ e >= 128 /\ e <= 191
        /\ b > 240 \/ c >= 144
        /\ b < 244 \/ c <= 143
    BY DEF Four
  <1> DEFINE n == Of4(b, c, d, e)
  <1>2. n = (b - 240) * 262144 + (c - 128) * 4096 + (d - 128) * 64 + (e - 128)
    BY DEF Of4
  <1>3. n \in Int
    BY <1>1, <1>2
  <1> HIDE DEF n
  <1>4. SURR_SELF <= n
    BY <1>1, <1>2, Bounds, SMT
  <1>5. n <= MAX_RUNE
    BY <1>1, <1>2, Bounds, SMT
  <1>6. QED  BY <1>3, <1>4, <1>5 DEF n

LEMMA ValidIs ==
  ASSUME NEW r \in Int
  PROVE  IsValid(r) <=> 0 <= r /\ r <= MAX_RUNE /\ (r < SURR1 \/ SURR3 <= r)
  <1>1. MAX_RUNE \in Int /\ SURR1 \in Int /\ SURR3 \in Int
    BY Bounds, SMT
  <1>2. r \in 0 .. MAX_RUNE <=> 0 <= r /\ r <= MAX_RUNE
    BY <1>1
  <1>3. r \in SURR1 .. SURR3 - 1 <=> SURR1 <= r /\ r < SURR3
    BY <1>1
  <1>4. r < SURR1 \/ SURR3 <= r <=> ~(SURR1 <= r /\ r < SURR3)
    BY <1>1
  <1>5. QED  BY <1>2, <1>3, <1>4 DEF IsValid, Surrogates

LEMMA StepFits ==
  ASSUME NEW s \in Seq(Byte), NEW i \in 1 .. Len(s)
  PROVE  /\ Width(s, i) \in 1 .. 4 /\ i + Width(s, i) \in i + 1 .. Len(s) + 1
         /\ RuneAt(s, i) \in Int /\ IsValid(RuneAt(s, i))
  <1>1. Len(s) \in Nat /\ i \in Int /\ i >= 1 /\ i <= Len(s)
    OBVIOUS
  <1> DEFINE r == RuneAt(s, i)
             w == Width(s, i)
  <1>2. CASE Is1(s, i)
    <2>1. s[i] \in Byte
      OBVIOUS
    <2>2. r = s[i] /\ w = 1 /\ s[i] < 128
      BY <1>2, StepIs DEF Is1
    <2>3. r \in Byte /\ r < 128
      BY <2>1, <2>2
    <2> HIDE DEF r, w
    <2>4. r \in Int /\ IsValid(r)
      BY <2>3, ValidIs, Bounds, SMT DEF Byte
    <2>5. QED  BY <1>1, <2>2, <2>4 DEF r, w
  <1>3. CASE Is2(s, i)
    <2>1. r \in Int /\ 128 <= r /\ r <= 2047 /\ w = 2 /\ i + 1 <= Len(s)
      <3>1. Two(s[i], s[i + 1]) /\ i + 1 <= Len(s)
        BY <1>3 DEF Is2
      <3>2. Of2(s[i], s[i + 1]) \in Int /\ 128 <= Of2(s[i], s[i + 1]) /\ Of2(s[i], s[i + 1]) <= 2047
        BY <3>1, Of2Is
      <3>3. QED  BY <1>3, <3>1, <3>2, StepIs
    <2> HIDE DEF r, w
    <2>2. r \in Int /\ IsValid(r)
      BY <2>1, ValidIs, Bounds, SMT
    <2>3. QED  BY <1>1, <2>1, <2>2 DEF r, w
  <1>4. CASE Is3(s, i)
    <2>1. /\ r \in Int /\ 2048 <= r /\ r < SURR_SELF /\ (r < SURR1 \/ SURR3 <= r)
          /\ w = 3 /\ i + 2 <= Len(s)
      BY <1>4, StepIs, Of3Is DEF Is3
    <2> HIDE DEF r, w
    <2>2. r \in Int /\ IsValid(r)
      BY <2>1, ValidIs, Bounds, SMT
    <2>3. QED  BY <1>1, <2>1, <2>2 DEF r, w
  <1>5. CASE Is4(s, i)
    <2>1. r \in Int /\ SURR_SELF <= r /\ r <= MAX_RUNE /\ w = 4 /\ i + 3 <= Len(s)
      BY <1>5, StepIs, Of4Is DEF Is4
    <2> HIDE DEF r, w
    <2>2. r \in Int /\ IsValid(r)
      BY <2>1, ValidIs, Bounds, SMT
    <2>3. QED  BY <1>1, <2>1, <2>2 DEF r, w
  <1>6. CASE IsNone(s, i)
    <2>1. r = RUNE_ERROR /\ w = 1
      BY <1>6, StepIs
    <2> HIDE DEF r, w
    <2>2. r \in Int /\ IsValid(r)
      BY <2>1, ValidIs, Bounds, SMT
    <2>3. QED  BY <1>1, <2>1, <2>2 DEF r, w
  <1>7. Is1(s, i) \/ Is2(s, i) \/ Is3(s, i) \/ Is4(s, i) \/ IsNone(s, i)
    BY DEF IsNone
  <1>8. QED  BY <1>2, <1>3, <1>4, <1>5, <1>6, <1>7

-----------------------------------------------------------------------------
(* UTF-8: the runes of a string.                                           *)

RunesFrom(s) == CHOOSE from : from = [i \in 1 .. (Len(s) + 1) |->
  IF i > Len(s) THEN <<>>
  ELSE LET d == utf8_decode_rune_str(s, i)
       IN  <<d[1]>> \o from[i + d[2]]]

LEMMA RunesAre ==
  ASSUME NEW s \in Seq(Byte)
  PROVE  /\ RunesFrom(s) \in [1 .. Len(s) + 1 -> Seq(Int)]
         /\ RunesFrom(s)[Len(s) + 1] = <<>>
         /\ \A i \in 1 .. Len(s) : RunesFrom(s)[i] = <<RuneAt(s, i)>> \o RunesFrom(s)[i + Width(s, i)]
         /\ utf8_to_runes(s) = RunesFrom(s)[1]
  <1> DEFINE N == Len(s)
             D == 1 .. N + 1
             V == Seq(Int)
             rank == [i \in D |-> (N + 1) - i]
             base == [i \in D |-> <<>>]
             Ends0 == {N + 1}
             before == [i \in D |-> i + Width(s, i)]
             next == [i \in D |-> [v \in V |-> <<RuneAt(s, i)>> \o v]]
  <1>1. N \in Nat
    OBVIOUS
  <1> HIDE DEF N
  <1>2. \A i \in D \ Ends0 : i \in 1 .. Len(s) /\ i \in 1 .. N
    BY <1>1 DEF N
  <1>3. \A i \in D \ Ends0 : i + Width(s, i) \in i + 1 .. N + 1 /\ RuneAt(s, i) \in Int
    <2>1. ASSUME NEW i \in D \ Ends0 PROVE i + Width(s, i) \in i + 1 .. N + 1 /\ RuneAt(s, i) \in Int
      <3>1. i + Width(s, i) \in i + 1 .. Len(s) + 1 /\ RuneAt(s, i) \in Int
        BY <1>2, <2>1, StepFits
      <3>2. QED  BY <3>1 DEF N
    <2>2. QED  BY <2>1
  <1>4. rank \in [D -> 0 .. N] /\ base \in [D -> V]
    BY <1>1
  <1> DEFINE next1 == [i \in D |-> IF i \in Ends0 THEN [v \in V |-> v] ELSE next[i]]
  <1>5. next1 \in [D -> [V -> V]]
    BY <1>3
  <1>6. ASSUME NEW i \in D \ Ends0 PROVE before[i] \in D /\ rank[before[i]] < rank[i]
    <2>1. i \in D /\ before[i] = i + Width(s, i) /\ rank[i] = (N + 1) - i
      OBVIOUS
    <2>2. before[i] \in D /\ before[i] > i
      BY <1>1, <1>3, <2>1
    <2>3. rank[before[i]] = (N + 1) - before[i]
      BY <2>2
    <2> HIDE DEF before, rank
    <2>4. QED  BY <1>1, <2>1, <2>2, <2>3
  <1>7. \E f \in [D -> V] : \A i \in D : f[i] = IF i \in Ends0 THEN base[i] ELSE next1[i][f[before[i]]]
    <2> HIDE DEF D, V, rank, base, Ends0, before, next1
    <2>1. \A i \in D \ Ends0 : before[i] \in D /\ rank[before[i]] < rank[i]
      BY <1>6
    <2>2. Ends0 \in SUBSET D
      BY <1>1 DEF Ends0, D
    <2>3. ByRecursion(D, N, rank, V, base, Ends0, before, next1)
      BY <1>1, <1>4, <1>5, <2>1, <2>2 DEF ByRecursion
    <2>4. QED  BY <2>3, RecursionExists
  <1>8. PICK f \in [D -> V] : \A i \in D : f[i] = IF i \in Ends0 THEN base[i] ELSE next1[i][f[before[i]]]
    BY <1>7
  <1>9. f[N + 1] = <<>> /\ \A i \in 1 .. N : f[i] = <<RuneAt(s, i)>> \o f[i + Width(s, i)]
    <2>1. N + 1 \in D /\ base[N + 1] = <<>>
      BY <1>1
    <2>2. ASSUME NEW i \in 1 .. N PROVE f[i] = <<RuneAt(s, i)>> \o f[i + Width(s, i)]
      <3>0. i \in D \ Ends0
        BY <1>1
      <3>1. i \in D /\ i \notin Ends0 /\ before[i] = i + Width(s, i) /\ before[i] \in D
        <4>1. before[i] \in D
          BY <1>6, <3>0
        <4>2. QED  BY <3>0, <4>1
      <3>2. next1[i] = [v \in V |-> <<RuneAt(s, i)>> \o v]
        BY <3>1
      <3>3. f[before[i]] \in V
        BY <1>8, <3>1
      <3>4. next1[i][f[before[i]]] = <<RuneAt(s, i)>> \o f[before[i]]
        BY <3>2, <3>3
      <3> HIDE DEF before, next1, D, Ends0, base
      <3>5. f[i] = next1[i][f[before[i]]]
        BY <1>8, <3>1
      <3>6. QED  BY <3>1, <3>4, <3>5
    <2>3. QED  BY <1>8, <2>1, <2>2
  <1> DEFINE Rec(g) == g = [i \in 1 .. (Len(s) + 1) |->
               IF i > Len(s) THEN <<>>
               ELSE LET d == utf8_decode_rune_str(s, i)
                    IN  <<d[1]>> \o g[i + d[2]]]
  <1>10. Rec(f)
    <2>1. ASSUME NEW i \in D
          PROVE  f[i] = IF i > Len(s) THEN <<>>
                        ELSE <<RuneAt(s, i)>> \o f[i + Width(s, i)]
      BY <1>1, <1>9 DEF N
    <2>2. f = [i \in D |-> IF i > Len(s) THEN <<>> ELSE <<RuneAt(s, i)>> \o f[i + Width(s, i)]]
      BY <1>8, <2>1
    <2>3. QED  BY <2>2 DEF N, RuneAt, Width
  <1>11. Rec(RunesFrom(s))
    BY <1>10 DEF RunesFrom
  <1> DEFINE g == RunesFrom(s)
  <1>12. g = [i \in D |-> IF i > Len(s) THEN <<>> ELSE <<RuneAt(s, i)>> \o g[i + Width(s, i)]]
    BY <1>11 DEF N, RuneAt, Width
  <1>13. utf8_to_runes(s) = g[1]
    BY DEF utf8_to_runes, RunesFrom
  <1> HIDE DEF g, Rec
  <1>14. DOMAIN g = D /\ g[N + 1] = <<>> /\ \A i \in 1 .. N : g[i] = <<RuneAt(s, i)>> \o g[i + Width(s, i)]
    <2>1. \A i \in D : g[i] = IF i > Len(s) THEN <<>> ELSE <<RuneAt(s, i)>> \o g[i + Width(s, i)]
      BY <1>12
    <2>2. N + 1 \in D /\ N + 1 > Len(s) /\ \A i \in 1 .. N : i \in D /\ ~(i > Len(s))
      BY <1>1 DEF N
    <2>3. QED  BY <1>12, <2>1, <2>2
  <1>15. \A i \in D : g[i] = f[i]
    <2> DEFINE S == {i \in D : g[i] = f[i]}
    <2>1. ASSUME NEW i \in 1 .. N + 1, \A j \in i + 1 .. N + 1 : j \in S PROVE i \in S
      <3>1. CASE i = N + 1
        BY <1>9, <1>14, <3>1
      <3>2. CASE i # N + 1
        <4>1. i \in 1 .. N /\ i + Width(s, i) \in i + 1 .. N + 1
          BY <1>1, <1>3, <3>2
        <4>2. g[i + Width(s, i)] = f[i + Width(s, i)]
          BY <2>1, <4>1
        <4>3. QED  BY <1>9, <1>14, <4>1, <4>2
      <3>3. QED  BY <3>1, <3>2
    <2>2. 1 .. N + 1 \subseteq S
      <3> HIDE DEF S
      <3>1. QED  BY <1>1, <2>1, Backwards
    <2>3. QED  BY <2>2
  <1>16. g \in [D -> V]
    <2>1. DOMAIN g = D /\ \A i \in D : g[i] \in V
      BY <1>8, <1>14, <1>15
    <2>2. g = [i \in D |-> g[i]]
      BY <1>12, <2>1
    <2>3. QED  BY <2>1, <2>2
  <1>17. QED  BY <1>13, <1>14, <1>16 DEF g, N

-----------------------------------------------------------------------------
(* The order of sequences of numbers.                                      *)

LEMMA BytesAreInts ==
  ASSUME NEW s \in Seq(Byte)
  PROVE  s \in Seq(Int)
  <1>1. Byte \subseteq Int
    BY DEF Byte
  <1>2. QED  BY <1>1, SeqMonotonic

\* From index i on, x is smaller than y at index k.
SmallerAt(x, y, i, k) ==
  /\ \A j \in i .. k - 1 : j <= Len(x) /\ x[j] = y[j]
  /\ k = Len(x) + 1 \/ (k <= Len(x) /\ x[k] < y[k])
SmallerFrom(x, y, i) == \E k \in i .. Len(y) : SmallerAt(x, y, i, k)

LEMMA SmallerIs ==
  ASSUME NEW x \in Seq(Int), NEW y \in Seq(Int)
  PROVE  Smaller(x, y) <=> SmallerFrom(x, y, 1)
  <1> DEFINE differ == {i \in DOMAIN x \cap DOMAIN y : x[i] # y[i]}
  <1>1. /\ Len(x) \in Nat /\ Len(y) \in Nat /\ DOMAIN x = 1 .. Len(x) /\ DOMAIN y = 1 .. Len(y)
        /\ \A i \in 1 .. Len(x) : x[i] \in Int
        /\ \A i \in 1 .. Len(y) : y[i] \in Int
    OBVIOUS
  <1>2. CASE differ = {}
    <2>1. Smaller(x, y) <=> Len(x) < Len(y)
      BY <1>2 DEF Smaller
    <2>2. ASSUME Len(x) < Len(y) PROVE SmallerFrom(x, y, 1)
      <3>1. Len(x) + 1 \in 1 .. Len(y)
        BY <1>1, <2>2
      <3>2. \A j \in 1 .. (Len(x) + 1) - 1 : j <= Len(x) /\ x[j] = y[j]
        BY <1>1, <1>2, <2>2, SMTT(60)
      <3>3. SmallerAt(x, y, 1, Len(x) + 1)
        BY <3>2 DEF SmallerAt
      <3>4. QED  BY <3>1, <3>3 DEF SmallerFrom
    <2>3. ASSUME NEW k \in 1 .. Len(y), SmallerAt(x, y, 1, k) PROVE Len(x) < Len(y)
      <3>1. CASE k = Len(x) + 1
        BY <1>1, <3>1
      <3>2. CASE k <= Len(x) /\ x[k] < y[k]
        <4>1. k \in DOMAIN x \cap DOMAIN y /\ x[k] \in Int /\ y[k] \in Int
          BY <1>1, <3>2
        <4>2. x[k] # y[k]
          BY <3>2, <4>1
        <4>3. QED  BY <1>2, <4>1, <4>2
      <3>3. QED  BY <2>3, <3>1, <3>2 DEF SmallerAt
    <2>4. QED  BY <2>1, <2>2, <2>3 DEF SmallerFrom
  <1>3. CASE differ # {}
    <2>1. PICK m \in differ : \A k \in differ : m <= k
      <3>1. differ \in SUBSET Nat
        BY <1>1
      <3> HIDE DEF differ
      <3>2. QED  BY <1>3, <3>1, LeastNat
    <2>2. Min(differ) = m
      <3>1. \A k \in differ : k \in Int
        BY <1>1
      <3> HIDE DEF differ
      <3>2. \A k \in differ : (\A j \in differ : k <= j) => k = m
        BY <2>1, <3>1
      <3>3. QED  BY <2>1, <3>2 DEF Min
    <2>3. Smaller(x, y) <=> x[m] < y[m]
      <3>1. Smaller(x, y) <=> x[Min(differ)] < y[Min(differ)]
        BY <1>3 DEF Smaller
      <3>2. QED  BY <2>2, <3>1
    <2>4. /\ m \in 1 .. Len(x) /\ m \in 1 .. Len(y) /\ x[m] # y[m] /\ x[m] \in Int /\ y[m] \in Int
          /\ \A j \in 1 .. m - 1 : j <= Len(x) /\ x[j] = y[j]
      <3>1. m \in 1 .. Len(x) /\ m \in 1 .. Len(y) /\ x[m] # y[m] /\ x[m] \in Int /\ y[m] \in Int
        BY <1>1
      <3>2. ASSUME NEW j \in 1 .. m - 1 PROVE j <= Len(x) /\ x[j] = y[j]
        <4>1. j \in DOMAIN x \cap DOMAIN y /\ ~(m <= j) /\ j <= Len(x)
          BY <1>1, <3>1
        <4>2. j \notin differ
          BY <2>1, <4>1
        <4>3. QED  BY <4>1, <4>2
      <3>3. QED  BY <3>1, <3>2
    <2>5. ASSUME x[m] < y[m] PROVE SmallerFrom(x, y, 1)
      <3>1. SmallerAt(x, y, 1, m)
        BY <1>1, <2>4, <2>5 DEF SmallerAt
      <3>2. QED  BY <2>4, <3>1 DEF SmallerFrom
    <2>6. ASSUME NEW k \in 1 .. Len(y), SmallerAt(x, y, 1, k) PROVE x[m] < y[m]
      <3>1. k <= m
        <4>1. SUFFICES ASSUME m < k PROVE FALSE
          BY <2>4
        <4>2. m \in 1 .. k - 1
          BY <2>4, <4>1
        <4>3. x[m] = y[m]
          BY <2>6, <4>2 DEF SmallerAt
        <4>4. QED  BY <2>4, <4>3
      <3>2. k <= Len(x) /\ x[k] < y[k]
        <4>1. k # Len(x) + 1
          BY <1>1, <2>4, <3>1
        <4>2. QED  BY <2>6, <4>1 DEF SmallerAt
      <3>3. k \in differ
        <4>1. k \in DOMAIN x \cap DOMAIN y /\ x[k] \in Int /\ y[k] \in Int
          BY <1>1, <3>2
        <4>2. QED  BY <3>2, <4>1
      <3>4. m <= k
        BY <2>1, <3>3
      <3>5. k = m
        BY <2>4, <3>1, <3>4
      <3>6. QED  BY <3>2, <3>5
    <2>7. QED  BY <2>3, <2>5, <2>6 DEF SmallerFrom
  <1>4. QED  BY <1>2, <1>3

\* What the first difference decides.
LEMMA FirstDecides ==
  ASSUME NEW x \in Seq(Int), NEW y \in Seq(Int), NEW i \in Nat \ {0}, NEW m \in Nat,
         i <= m, m <= Len(x), m <= Len(y), \A j \in i .. m - 1 : x[j] = y[j]
  PROVE  /\ x[m] < y[m] => SmallerFrom(x, y, i)
         /\ y[m] < x[m] => ~SmallerFrom(x, y, i)
         /\ x[m] = y[m] => (SmallerFrom(x, y, i) <=> SmallerFrom(x, y, m + 1))
  <1>1. Len(x) \in Nat /\ Len(y) \in Nat /\ x[m] \in Int /\ y[m] \in Int
    BY ElementOfSeq
  <1>2. m \in i .. Len(y) /\ \A j \in i .. m - 1 : j <= Len(x) /\ x[j] = y[j]
    BY <1>1
  <1>3. ASSUME x[m] < y[m] PROVE SmallerFrom(x, y, i)
    <2>1. SmallerAt(x, y, i, m)
      BY <1>2, <1>3 DEF SmallerAt
    <2>2. QED  BY <1>2, <2>1 DEF SmallerFrom
  <1>4. ASSUME NEW k \in i .. Len(y), SmallerAt(x, y, i, k), x[m] # y[m] PROVE k = m /\ x[m] < y[m]
    <2>1. k <= m
      <3>1. m \notin i .. k - 1
        BY <1>4 DEF SmallerAt
      <3>2. QED  BY <3>1
    <2>2. k <= Len(x) /\ x[k] < y[k]
      <3>1. k # Len(x) + 1
        BY <1>1, <2>1
      <3>2. QED  BY <1>4, <3>1 DEF SmallerAt
    <2>3. k \notin i .. m - 1
      <3>1. SUFFICES ASSUME k \in i .. m - 1 PROVE FALSE
        OBVIOUS
      <3>2. x[k] = y[k]
        BY <3>1
      <3>3. x[k] \in Int
        BY <1>1, <2>2, ElementOfSeq
      <3>4. QED  BY <2>2, <3>2, <3>3
    <2>4. k = m
      BY <2>1, <2>3
    <2>5. QED  BY <2>2, <2>4
  <1>5. ASSUME y[m] < x[m] PROVE ~SmallerFrom(x, y, i)
    <2>1. SUFFICES ASSUME NEW k \in i .. Len(y), SmallerAt(x, y, i, k) PROVE FALSE
      BY DEF SmallerFrom
    <2>2. x[m] # y[m] /\ ~(x[m] < y[m])
      BY <1>1, <1>5
    <2>3. QED  BY <1>4, <2>1, <2>2
  <1>6. ASSUME x[m] = y[m], NEW k \in i .. Len(y), SmallerAt(x, y, i, k)
        PROVE  SmallerFrom(x, y, m + 1)
    <2>1. k > m
      <3>1. SUFFICES ASSUME k <= m PROVE FALSE
        BY <1>1
      <3>2. k <= Len(x) /\ x[k] < y[k]
        <4>1. k # Len(x) + 1
          BY <1>1, <3>1
        <4>2. QED  BY <1>6, <4>1 DEF SmallerAt
      <3>3. x[k] = y[k]
        BY <1>6, <3>1
      <3>4. x[k] \in Int
        BY <1>1, <3>2, ElementOfSeq
      <3>5. QED  BY <3>2, <3>3, <3>4
    <2>2. k \in m + 1 .. Len(y) /\ \A j \in m + 1 .. k - 1 : j \in i .. k - 1
      BY <2>1
    <2>3. SmallerAt(x, y, m + 1, k)
      BY <1>6, <2>2 DEF SmallerAt
    <2>4. QED  BY <2>2, <2>3 DEF SmallerFrom
  <1>7. ASSUME x[m] = y[m], NEW k \in m + 1 .. Len(y), SmallerAt(x, y, m + 1, k)
        PROVE  SmallerFrom(x, y, i)
    <2>1. ASSUME NEW j \in i .. k - 1 PROVE j <= Len(x) /\ x[j] = y[j]
      <3>1. CASE j \in m + 1 .. k - 1
        BY <1>7, <3>1 DEF SmallerAt
      <3>2. CASE j <= m
        BY <1>1, <1>7, <3>2
      <3>3. QED  BY <3>1, <3>2
    <2>2. SmallerAt(x, y, i, k)
      BY <1>7, <2>1 DEF SmallerAt
    <2>3. QED  BY <2>2 DEF SmallerFrom
  <1>8. x[m] = y[m] => (SmallerFrom(x, y, i) <=> SmallerFrom(x, y, m + 1))
    BY <1>6, <1>7 DEF SmallerFrom
  <1>9. QED  BY <1>3, <1>5, <1>8

\* One that ends is smaller than one that goes on.
LEMMA EndDecides ==
  ASSUME NEW x \in Seq(Int), NEW y \in Seq(Int), NEW i \in Nat \ {0}
  PROVE  /\ i = Len(x) + 1 => (SmallerFrom(x, y, i) <=> i <= Len(y))
         /\ i = Len(y) + 1 => ~SmallerFrom(x, y, i)
  <1>1. Len(x) \in Nat /\ Len(y) \in Nat
    OBVIOUS
  <1>2. ASSUME i = Len(x) + 1, i <= Len(y) PROVE SmallerFrom(x, y, i)
    <2>1. i \in i .. Len(y) /\ i .. i - 1 = {}
      BY <1>1, <1>2
    <2>2. SmallerAt(x, y, i, i)
      BY <1>2, <2>1 DEF SmallerAt
    <2>3. QED  BY <2>1, <2>2 DEF SmallerFrom
  <1>3. SmallerFrom(x, y, i) => i <= Len(y)
    BY <1>1 DEF SmallerFrom
  <1>4. QED  BY <1>1, <1>2, <1>3

\* The order is total.
LEMMA Total ==
  ASSUME NEW x \in Seq(Int), NEW y \in Seq(Int)
  PROVE  /\ ~(Smaller(x, y) /\ Smaller(y, x))
         /\ Smaller(x, y) \/ Smaller(y, x) \/ x = y
  <1>1. /\ Len(x) \in Nat /\ Len(y) \in Nat
        /\ \A i \in 1 .. Len(x) : x[i] \in Int
        /\ \A i \in 1 .. Len(y) : y[i] \in Int
    OBVIOUS
  <1>2. /\ Smaller(x, y) <=> SmallerFrom(x, y, 1)
        /\ Smaller(y, x) <=> SmallerFrom(y, x, 1)
    BY SmallerIs
  <1>3. CASE \E m \in 1 .. Len(x) : m <= Len(y) /\ x[m] # y[m]
    <2> DEFINE T == {m \in 1 .. Len(x) : m <= Len(y) /\ x[m] # y[m]}
    <2>1. T \in SUBSET Nat /\ T # {}
      BY <1>3
    <2>2. PICK m \in T : \A k \in T : m <= k
      <3> HIDE DEF T
      <3>1. QED  BY <2>1, LeastNat
    <2>3. m \in Nat /\ 1 <= m /\ m <= Len(x) /\ m <= Len(y) /\ x[m] # y[m]
      OBVIOUS
    <2>4. \A j \in 1 .. m - 1 : x[j] = y[j]
      <3>1. SUFFICES ASSUME NEW j \in 1 .. m - 1, x[j] # y[j] PROVE FALSE
        OBVIOUS
      <3>2. j \in T /\ ~(m <= j)
        BY <1>1, <2>3, <3>1
      <3>3. QED  BY <2>2, <3>2
    <2>5. x[m] \in Int /\ y[m] \in Int
      BY <1>1, <2>3
    <2>6. CASE x[m] < y[m]
      <3>1. SmallerFrom(x, y, 1)
        BY <2>3, <2>4, <2>6, FirstDecides
      <3>2. ~SmallerFrom(y, x, 1)
        BY <2>3, <2>4, <2>6, FirstDecides
      <3>3. QED  BY <1>2, <3>1, <3>2
    <2>7. CASE y[m] < x[m]
      <3>1. SmallerFrom(y, x, 1)
        BY <2>3, <2>4, <2>7, FirstDecides
      <3>2. ~SmallerFrom(x, y, 1)
        BY <2>3, <2>4, <2>7, FirstDecides
      <3>3. QED  BY <1>2, <3>1, <3>2
    <2>8. QED  BY <2>3, <2>5, <2>6, <2>7
  <1>4. CASE ~\E m \in 1 .. Len(x) : m <= Len(y) /\ x[m] # y[m]
    <2>1. \A m \in 1 .. Len(x) : m <= Len(y) => x[m] = y[m]
      BY <1>4
    <2>2. CASE Len(x) = Len(y)
      <3>1. x = y
        BY <2>1, <2>2, SeqEqual
      <3>2. ~SmallerFrom(x, y, 1)
        <4>1. SUFFICES ASSUME NEW k \in 1 .. Len(y), SmallerAt(x, y, 1, k) PROVE FALSE
          BY DEF SmallerFrom
        <4>2. k <= Len(x) /\ x[k] < y[k]
          BY <1>1, <2>2, <4>1 DEF SmallerAt
        <4>3. x[k] \in Int /\ x[k] = y[k]
          BY <1>1, <3>1, <4>2
        <4>4. QED  BY <4>2, <4>3
      <3>3. QED  BY <1>2, <3>1, <3>2
    <2>3. CASE Len(x) < Len(y)
      <3>1. SmallerFrom(x, y, 1)
        <4>1. Len(x) + 1 \in 1 .. Len(y)
          BY <1>1, <2>3
        <4>2. SmallerAt(x, y, 1, Len(x) + 1)
          BY <1>1, <2>1, <2>3 DEF SmallerAt
        <4>3. QED  BY <4>1, <4>2 DEF SmallerFrom
      <3>2. ~SmallerFrom(y, x, 1)
        <4>1. SUFFICES ASSUME NEW k \in 1 .. Len(x), SmallerAt(y, x, 1, k) PROVE FALSE
          BY DEF SmallerFrom
        <4>2. k <= Len(y) /\ y[k] < x[k]
          BY <1>1, <2>3, <4>1 DEF SmallerAt
        <4>3. x[k] \in Int /\ x[k] = y[k]
          BY <1>1, <2>1, <4>2
        <4>4. QED  BY <4>2, <4>3
      <3>3. QED  BY <1>2, <3>1, <3>2
    <2>4. CASE Len(y) < Len(x)
      <3>1. SmallerFrom(y, x, 1)
        <4>1. Len(y) + 1 \in 1 .. Len(x)
          BY <1>1, <2>4
        <4>2. SmallerAt(y, x, 1, Len(y) + 1)
          BY <1>1, <2>1, <2>4 DEF SmallerAt
        <4>3. QED  BY <4>1, <4>2 DEF SmallerFrom
      <3>2. ~SmallerFrom(x, y, 1)
        <4>1. SUFFICES ASSUME NEW k \in 1 .. Len(y), SmallerAt(x, y, 1, k) PROVE FALSE
          BY DEF SmallerFrom
        <4>2. k <= Len(x) /\ x[k] < y[k]
          BY <1>1, <2>4, <4>1 DEF SmallerAt
        <4>3. x[k] \in Int /\ x[k] = y[k]
          BY <1>1, <2>1, <4>2
        <4>4. QED  BY <4>2, <4>3
      <3>3. QED  BY <1>2, <3>1, <3>2
    <2>5. QED  BY <1>1, <2>2, <2>3, <2>4
  <1>5. QED  BY <1>3, <1>4

\* Of two sequences behind a first element each.
LEMMA SmallerCons ==
  ASSUME NEW a \in Seq(Int), NEW b \in Seq(Int), NEW r \in Int, NEW q \in Int
  PROVE  /\ r < q => Smaller(<<r>> \o a, <<q>> \o b)
         /\ q < r => ~Smaller(<<r>> \o a, <<q>> \o b)
         /\ r = q => (Smaller(<<r>> \o a, <<q>> \o b) <=> Smaller(a, b))
         /\ Smaller(<<>>, <<q>> \o b)
         /\ ~Smaller(a, <<>>)
  <1> DEFINE x == <<r>> \o a
             y == <<q>> \o b
  <1>1. /\ x \in Seq(Int) /\ Len(x) = Len(a) + 1 /\ x[1] = r /\ \A j \in 1 .. Len(a) : x[j + 1] = a[j]
        /\ y \in Seq(Int) /\ Len(y) = Len(b) + 1 /\ y[1] = q /\ \A j \in 1 .. Len(b) : y[j + 1] = b[j]
        /\ Len(a) \in Nat /\ Len(b) \in Nat
    OBVIOUS
  <1> HIDE DEF x, y
  <1>2. /\ r < q => SmallerFrom(x, y, 1)
        /\ q < r => ~SmallerFrom(x, y, 1)
        /\ r = q => (SmallerFrom(x, y, 1) <=> SmallerFrom(x, y, 2))
    <2>1. 1 \in Nat \ {0} /\ 1 \in Nat /\ 1 <= Len(x) /\ 1 <= Len(y) /\ 1 .. 1 - 1 = {} /\ 1 + 1 = 2
      BY <1>1
    <2>2. \A j \in 1 .. 1 - 1 : x[j] = y[j]
      BY <2>1
    <2>3. /\ x[1] < y[1] => SmallerFrom(x, y, 1)
          /\ y[1] < x[1] => ~SmallerFrom(x, y, 1)
          /\ x[1] = y[1] => (SmallerFrom(x, y, 1) <=> SmallerFrom(x, y, 1 + 1))
      <3> DEFINE i == 1
      <3>1. x \in Seq(Int) /\ y \in Seq(Int) /\ i \in Nat \ {0} /\ i \in Nat /\ i <= i
            /\ i <= Len(x) /\ i <= Len(y) /\ \A j \in i .. i - 1 : x[j] = y[j]
        BY <1>1, <2>1, <2>2
      <3> HIDE DEF i
      <3>2. /\ x[i] < y[i] => SmallerFrom(x, y, i)
            /\ y[i] < x[i] => ~SmallerFrom(x, y, i)
            /\ x[i] = y[i] => (SmallerFrom(x, y, i) <=> SmallerFrom(x, y, i + 1))
        BY <3>1, FirstDecides
      <3>3. QED  BY <3>2 DEF i
    <2>4. QED  BY <1>1, <2>1, <2>3
  <1>3. ASSUME NEW k \in 1 .. Len(b)
        PROVE  SmallerAt(x, y, 2, k + 1) <=> SmallerAt(a, b, 1, k)
    <2>1. ASSUME SmallerAt(x, y, 2, k + 1) PROVE SmallerAt(a, b, 1, k)
      <3>1. ASSUME NEW j \in 1 .. k - 1 PROVE j <= Len(a) /\ a[j] = b[j]
        <4>1. j + 1 \in 2 .. (k + 1) - 1
          OBVIOUS
        <4>2. j + 1 <= Len(x) /\ x[j + 1] = y[j + 1]
          BY <2>1, <4>1 DEF SmallerAt
        <4>3. j \in 1 .. Len(a) /\ j \in 1 .. Len(b)
          BY <1>1, <4>2
        <4>4. QED  BY <1>1, <4>2, <4>3
      <3>2. k + 1 = Len(x) + 1 \/ (k + 1 <= Len(x) /\ x[k + 1] < y[k + 1])
        BY <2>1 DEF SmallerAt
      <3>3. k = Len(a) + 1 \/ (k <= Len(a) /\ a[k] < b[k])
        BY <1>1, <3>2, SMTT(60)
      <3>4. QED  BY <3>1, <3>3 DEF SmallerAt
    <2>2. ASSUME SmallerAt(a, b, 1, k) PROVE SmallerAt(x, y, 2, k + 1)
      <3>1. ASSUME NEW j \in 2 .. (k + 1) - 1 PROVE j <= Len(x) /\ x[j] = y[j]
        <4>1. j - 1 \in 1 .. k - 1 /\ (j - 1) + 1 = j
          OBVIOUS
        <4>2. j - 1 <= Len(a) /\ a[j - 1] = b[j - 1]
          BY <2>2, <4>1 DEF SmallerAt
        <4>3. j - 1 \in 1 .. Len(a) /\ j - 1 \in 1 .. Len(b)
          BY <1>1, <4>1, <4>2
        <4>4. x[j] = a[j - 1] /\ y[j] = b[j - 1]
          BY <1>1, <4>1, <4>3
        <4>5. QED  BY <1>1, <4>2, <4>4
      <3>2. k = Len(a) + 1 \/ (k <= Len(a) /\ a[k] < b[k])
        BY <2>2 DEF SmallerAt
      <3>3. k <= Len(a) => x[k + 1] = a[k] /\ k + 1 <= Len(x)
        BY <1>1
      <3>4. y[k + 1] = b[k] /\ (k = Len(a) + 1 => k + 1 = Len(x) + 1)
        BY <1>1
      <3>5. k + 1 = Len(x) + 1 \/ (k + 1 <= Len(x) /\ x[k + 1] < y[k + 1])
        BY <3>2, <3>3, <3>4
      <3>6. QED  BY <3>1, <3>5 DEF SmallerAt
    <2>3. QED  BY <2>1, <2>2
  <1>4. SmallerFrom(x, y, 2) <=> SmallerFrom(a, b, 1)
    <2>1. ASSUME NEW k \in 2 .. Len(y), SmallerAt(x, y, 2, k) PROVE SmallerFrom(a, b, 1)
      <3>1. k - 1 \in 1 .. Len(b) /\ (k - 1) + 1 = k
        BY <1>1
      <3>2. SmallerAt(a, b, 1, k - 1)
        BY <1>3, <2>1, <3>1
      <3>3. QED  BY <3>1, <3>2 DEF SmallerFrom
    <2>2. ASSUME NEW k \in 1 .. Len(b), SmallerAt(a, b, 1, k) PROVE SmallerFrom(x, y, 2)
      <3>1. k + 1 \in 2 .. Len(y)
        BY <1>1
      <3>2. QED  BY <1>3, <2>2, <3>1 DEF SmallerFrom
    <2>3. QED  BY <2>1, <2>2 DEF SmallerFrom
  <1>5. /\ Smaller(x, y) <=> SmallerFrom(x, y, 1)
        /\ Smaller(a, b) <=> SmallerFrom(a, b, 1)
    BY <1>1, SmallerIs
  <1>6. Smaller(<<>>, y)
    <2>1. <<>> \in Seq(Int) /\ 1 = Len(<<>>) + 1 /\ 1 <= Len(y) /\ 1 \in Nat \ {0}
      BY <1>1
    <2>2. SmallerFrom(<<>>, y, 1)
      BY <1>1, <2>1, EndDecides
    <2>3. QED  BY <1>1, <2>1, <2>2, SmallerIs
  <1>7. ~Smaller(a, <<>>)
    <2>1. <<>> \in Seq(Int) /\ 1 = Len(<<>>) + 1 /\ 1 \in Nat \ {0}
      OBVIOUS
    <2>2. ~SmallerFrom(a, <<>>, 1)
      BY <2>1, EndDecides
    <2>3. QED  BY <2>1, <2>2, SmallerIs
  <1>8. QED  BY <1>2, <1>4, <1>5, <1>6, <1>7 DEF x, y

-----------------------------------------------------------------------------
(* The boundaries between runes.                                           *)

BoundsFrom(s) == CHOOSE from : from = [i \in 0 .. Len(s) |->
  IF i = Len(s) THEN {i}
  ELSE {i} \cup from[i + utf8_decode_rune_str(s, i + 1)[2]]]

LEMMA BoundsAre ==
  ASSUME NEW s \in Seq(Byte)
  PROVE  /\ BoundsFrom(s)[Len(s)] = {Len(s)}
         /\ \A i \in 0 .. Len(s) - 1 : BoundsFrom(s)[i] = {i} \cup BoundsFrom(s)[i + Width(s, i + 1)]
         /\ Boundaries(s) = BoundsFrom(s)[0]
  <1> DEFINE N == Len(s)
             D == 0 .. N
             V == SUBSET D
             rank == [i \in D |-> N - i]
             base == [i \in D |-> {i}]
             Ends0 == {N}
             before == [i \in D |-> i + Width(s, i + 1)]
             next == [i \in D |-> [v \in V |-> {i} \cup v]]
  <1>1. N \in Nat
    OBVIOUS
  <1>2. ASSUME NEW i \in D \ Ends0 PROVE i + Width(s, i + 1) \in i + 1 .. N
    <2>1. i + 1 \in 1 .. Len(s)
      BY <1>1
    <2>2. Width(s, i + 1) \in 1 .. 4 /\ (i + 1) + Width(s, i + 1) \in (i + 1) + 1 .. Len(s) + 1
      BY <2>1, StepFits
    <2>3. QED  BY <1>1, <2>1, <2>2
  <1> HIDE DEF N
  <1>3. rank \in [D -> 0 .. N] /\ base \in [D -> V] /\ next \in [D -> [V -> V]] /\ Ends0 \in SUBSET D
    BY <1>1
  <1>4. ASSUME NEW i \in D \ Ends0 PROVE before[i] \in D /\ rank[before[i]] < rank[i]
    <2>1. i \in D /\ before[i] = i + Width(s, i + 1) /\ rank[i] = N - i
      OBVIOUS
    <2>2. before[i] \in D /\ before[i] > i
      BY <1>1, <1>2, <2>1
    <2>3. rank[before[i]] = N - before[i]
      BY <2>2
    <2> HIDE DEF before, rank
    <2>4. QED  BY <1>1, <2>1, <2>2, <2>3
  <1>5. \E f \in [D -> V] : \A i \in D : f[i] = IF i \in Ends0 THEN base[i] ELSE next[i][f[before[i]]]
    <2> HIDE DEF D, V, rank, base, Ends0, before, next
    <2>1. \A i \in D \ Ends0 : before[i] \in D /\ rank[before[i]] < rank[i]
      BY <1>4
    <2>2. ByRecursion(D, N, rank, V, base, Ends0, before, next)
      BY <1>1, <1>3, <2>1 DEF ByRecursion
    <2>3. QED  BY <2>2, RecursionExists
  <1>6. PICK f \in [D -> V] : \A i \in D : f[i] = IF i \in Ends0 THEN base[i] ELSE next[i][f[before[i]]]
    BY <1>5
  <1>7. ASSUME NEW i \in D
        PROVE  f[i] = IF i = N THEN {i} ELSE {i} \cup f[i + Width(s, i + 1)]
    <2>1. CASE i = N
      BY <1>6, <2>1
    <2>2. CASE i # N
      <3>1. i \in D \ Ends0 /\ before[i] = i + Width(s, i + 1)
        BY <2>2
      <3>2. before[i] \in D
        BY <1>4, <3>1
      <3>3. f[before[i]] \in V
        BY <1>6, <3>2
      <3>4. next[i][f[before[i]]] = {i} \cup f[before[i]]
        BY <3>3
      <3> HIDE DEF before, next, D, Ends0, base
      <3>5. f[i] = next[i][f[before[i]]]
        BY <1>6, <3>1
      <3>6. QED  BY <2>2, <3>1, <3>4, <3>5
    <2>3. QED  BY <2>1, <2>2
  <1> DEFINE Rec(g) == g = [i \in 0 .. Len(s) |->
               IF i = Len(s) THEN {i}
               ELSE {i} \cup g[i + utf8_decode_rune_str(s, i + 1)[2]]]
  <1>8. Rec(f)
    <2>1. f = [i \in D |-> IF i = N THEN {i} ELSE {i} \cup f[i + Width(s, i + 1)]]
      BY <1>6, <1>7
    <2>2. QED  BY <2>1 DEF N, Width
  <1>9. Rec(BoundsFrom(s))
    BY <1>8 DEF BoundsFrom
  <1> DEFINE g == BoundsFrom(s)
  <1>10. g = [i \in D |-> IF i = N THEN {i} ELSE {i} \cup g[i + Width(s, i + 1)]]
    BY <1>9 DEF N, Width
  <1>11. Boundaries(s) = g[0]
    BY DEF Boundaries, BoundsFrom
  <1> HIDE DEF g, Rec
  <1>12. \A i \in D : g[i] = IF i = N THEN {i} ELSE {i} \cup g[i + Width(s, i + 1)]
    BY <1>10
  <1>13. g[N] = {N} /\ \A i \in 0 .. N - 1 : g[i] = {i} \cup g[i + Width(s, i + 1)]
    <2>1. N \in D /\ \A i \in 0 .. N - 1 : i \in D /\ i # N
      BY <1>1
    <2> HIDE DEF D
    <2>2. QED  BY <1>12, <2>1
  <1>14. QED  BY <1>11, <1>13 DEF g, N

\* The boundaries from i on are those of the whole string that are not before i.
LEMMA BoundsSuffix ==
  ASSUME NEW s \in Seq(Byte)
  PROVE  \A j \in 0 .. Len(s) :
           /\ BoundsFrom(s)[j] \subseteq j .. Len(s)
           /\ j \in BoundsFrom(s)[j]
           /\ \A i \in BoundsFrom(s)[j] : BoundsFrom(s)[i] = {k \in BoundsFrom(s)[j] : i <= k}
  <1> DEFINE g == BoundsFrom(s)
             N == Len(s)
             Good0(j) == /\ g[j] \subseteq j .. N
                         /\ j \in g[j]
                         /\ \A i \in g[j] : g[i] = {k \in g[j] : i <= k}
             S == {j \in 1 .. N + 1 : Good0(j - 1)}
  <1>1. N \in Nat /\ g[N] = {N} /\ \A i \in 0 .. N - 1 : g[i] = {i} \cup g[i + Width(s, i + 1)]
    BY BoundsAre
  <1>2. \A i \in 0 .. N - 1 : i + Width(s, i + 1) \in i + 1 .. N
    <2>1. ASSUME NEW i \in 0 .. N - 1 PROVE i + Width(s, i + 1) \in i + 1 .. N
      <3>1. i + 1 \in 1 .. Len(s)
        BY <1>1
      <3>2. Width(s, i + 1) \in 1 .. 4 /\ (i + 1) + Width(s, i + 1) \in (i + 1) + 1 .. Len(s) + 1
        BY <3>1, StepFits
      <3>3. QED  BY <1>1, <3>1, <3>2
    <2>2. QED  BY <2>1
  <1> HIDE DEF g, N
  <1>3. ASSUME NEW i \in 1 .. N + 1, \A j \in i + 1 .. N + 1 : j \in S PROVE Good0(i - 1)
    <2>1. CASE i - 1 = N
      BY <1>1, <2>1
    <2>2. CASE i - 1 # N
      <3> DEFINE j == i - 1
                 n == j + Width(s, j + 1)
      <3>1. j \in 0 .. N - 1
        BY <1>1, <2>2
      <3>2. n \in j + 1 .. N /\ g[j] = {j} \cup g[n]
        BY <1>1, <1>2, <3>1
      <3> HIDE DEF n, j
      <3>3. n + 1 \in i + 1 .. N + 1 /\ (n + 1) - 1 = n /\ j \in Int
        BY <1>1, <3>1, <3>2 DEF j
      <3>4. Good0(n)
        BY <1>3, <3>3
      <3>5. g[j] \subseteq j .. N /\ j \in g[j]
        BY <1>1, <3>1, <3>2, <3>4
      <3>6. ASSUME NEW k \in g[j] PROVE g[k] = {m \in g[j] : k <= m}
        <4>1. CASE k = j
          BY <3>5, <4>1
        <4>2. CASE k \in g[n]
          <5>1. g[k] = {m \in g[n] : k <= m} /\ k \in n .. N
            BY <3>4, <4>2
          <5>2. ~(k <= j)
            BY <3>2, <3>3, <5>1
          <5>3. QED  BY <3>2, <5>1, <5>2
        <4>3. QED  BY <3>2, <4>1, <4>2
      <3>7. QED  BY <3>5, <3>6 DEF j
    <2>3. QED  BY <2>1, <2>2
  <1>4. 1 .. N + 1 \subseteq S
    <2>1. \A i \in 1 .. N + 1 : (\A j \in i + 1 .. N + 1 : j \in S) => i \in S
      BY <1>3
    <2> HIDE DEF S
    <2>2. QED  BY <1>1, <2>1, Backwards
  <1>5. ASSUME NEW j \in 0 .. N PROVE Good0(j)
    <2>1. j + 1 \in 1 .. N + 1 /\ (j + 1) - 1 = j
      BY <1>1
    <2>2. j + 1 \in S
      BY <1>4, <2>1
    <2>3. QED  BY <2>1, <2>2
  <1>6. QED  BY <1>5 DEF g, N

\* Behind a boundary comes the end of its rune, and no boundary in between.
LEMMA NextBoundary ==
  ASSUME NEW s \in Seq(Byte)
  PROVE  /\ Boundaries(s) \subseteq 0 .. Len(s) /\ 0 \in Boundaries(s) /\ Len(s) \in Boundaries(s)
         /\ \A i \in Boundaries(s) \ {Len(s)} :
              /\ i + 1 \in 1 .. Len(s)
              /\ i + Width(s, i + 1) \in Boundaries(s)
              /\ \A k \in Boundaries(s) : k <= i \/ i + Width(s, i + 1) <= k
  <1> DEFINE g == BoundsFrom(s)
             N == Len(s)
             B == Boundaries(s)
  <1>1. N \in Nat /\ g[N] = {N} /\ B = g[0] /\ \A i \in 0 .. N - 1 : g[i] = {i} \cup g[i + Width(s, i + 1)]
    BY BoundsAre
  <1>2. \A j \in 0 .. N : /\ g[j] \subseteq j .. N
                          /\ j \in g[j]
                          /\ \A i \in g[j] : g[i] = {k \in g[j] : i <= k}
    BY BoundsSuffix
  <1> HIDE DEF g, N, B
  <1>3. B \subseteq 0 .. N /\ 0 \in B /\ \A i \in B : g[i] = {k \in B : i <= k}
    BY <1>1, <1>2
  <1>4. ASSUME NEW i \in B, i # N
        PROVE  /\ i + 1 \in 1 .. N
               /\ i + Width(s, i + 1) \in B
               /\ \A k \in B : k <= i \/ i + Width(s, i + 1) <= k
    <2>1. i \in 0 .. N - 1 /\ i + 1 \in 1 .. N /\ i \in 0 .. N
      BY <1>1, <1>3, <1>4
    <2>2. i + 1 \in 1 .. Len(s)
      BY <2>1 DEF N
    <2>3. Width(s, i + 1) \in 1 .. 4 /\ (i + 1) + Width(s, i + 1) \in (i + 1) + 1 .. Len(s) + 1
      BY <2>2, StepFits
    <2> DEFINE n == i + Width(s, i + 1)
    <2>4. n \in 0 .. N /\ n > i
      BY <1>1, <2>1, <2>3 DEF N
    <2>5. g[i] = {i} \cup g[n]
      BY <1>1, <2>1
    <2> HIDE DEF n
    <2>6. n \in g[n] /\ g[n] \subseteq n .. N
      BY <1>2, <2>4
    <2>7. n \in B
      BY <1>3, <2>5, <2>6
    <2>8. ASSUME NEW k \in B PROVE k <= i \/ n <= k
      <3>1. k \in Int /\ i \in Int /\ n \in Int
        BY <1>3, <2>1, <2>4
      <3>2. CASE i <= k /\ i # k
        <4>1. k \in g[i]
          BY <1>3, <3>2
        <4>2. k \in g[n]
          BY <2>5, <3>2, <4>1
        <4>3. QED  BY <2>6, <4>2
      <3>3. QED  BY <3>1, <3>2
    <2>9. QED  BY <2>1, <2>7, <2>8 DEF n
  <1>5. N \in B
    <2>1. PICK m \in B : \A k \in B : k <= m
      <3> DEFINE T == {N - k : k \in B}
      <3>1. T \in SUBSET Nat /\ T # {}
        BY <1>1, <1>3
      <3>2. PICK t \in T : \A u \in T : t <= u
        <4> HIDE DEF T
        <4>1. QED  BY <3>1, LeastNat
      <3>3. PICK m \in B : t = N - m
        BY <3>2
      <3>4. ASSUME NEW k \in B PROVE k <= m
        <4>1. N - k \in T
          OBVIOUS
        <4>2. t <= N - k
          BY <3>2, <4>1
        <4>3. QED  BY <1>1, <1>3, <3>3, <4>2
      <3>5. QED  BY <3>4
    <2>2. SUFFICES ASSUME m # N PROVE FALSE
      BY <2>1
    <2>3. m + Width(s, m + 1) \in B
      BY <1>4, <2>2
    <2>4. m + 1 \in 1 .. Len(s)
      BY <1>4, <2>2 DEF N
    <2>5. Width(s, m + 1) \in 1 .. 4
      BY <2>4, StepFits
    <2>6. m \in Int
      BY <1>3
    <2>7. m + Width(s, m + 1) <= m
      BY <2>1, <2>3
    <2>8. QED  BY <2>5, <2>6, <2>7
  <1>6. QED  BY <1>3, <1>4, <1>5 DEF B, N

\* In a string without damaged bytes a rune begins at every boundary.
LEMMA WellFormedStep ==
  ASSUME NEW s \in Seq(Byte), WellFormed(s), NEW i \in Boundaries(s), i # Len(s)
  PROVE  ~IsNone(s, i + 1)
  <1>1. SUFFICES ASSUME IsNone(s, i + 1) PROVE FALSE
    OBVIOUS
  <1>2. i + 1 \in 1 .. Len(s) /\ i + Width(s, i + 1) \in Boundaries(s) /\ i \in 0 .. Len(s)
    BY NextBoundary
  <1>3. Width(s, i + 1) = 1
    BY <1>1, <1>2, StepIs
  <1>4. (i + 1) - 1 \in Boundaries(s) /\ i + 1 \in Boundaries(s)
    BY <1>2, <1>3
  <1>5. s[i + 1] < 128
    BY <1>2, <1>4 DEF WellFormed
  <1>6. QED  BY <1>1, <1>5 DEF IsNone, Is1

-----------------------------------------------------------------------------
(* The order of strings.                                                   *)

\* Two runes at byte i of x and of y either have the same bytes or differ
\* first in a byte that orders them as the runes are ordered.
Same(x, y, i) ==
  /\ Width(x, i) = Width(y, i) /\ RuneAt(x, i) = RuneAt(y, i)
  /\ \A j \in i .. i + Width(x, i) - 1 : x[j] = y[j]
DifferAt(x, y, i, m) ==
  /\ m >= i /\ m < i + Width(x, i) /\ m < i + Width(y, i)
  /\ \A j \in i .. m - 1 : x[j] = y[j]
  /\ \/ x[m] < y[m] /\ RuneAt(x, i) < RuneAt(y, i)
     \/ y[m] < x[m] /\ RuneAt(y, i) < RuneAt(x, i)

\* The bytes of the rune at byte i, and the bounds of the rune.
LEMMA WindowIs ==
  ASSUME NEW s \in Seq(Byte), NEW i \in 1 .. Len(s), ~IsNone(s, i)
  PROVE  \/ /\ Width(s, i) = 1 /\ s[i] \in 0 .. 127 /\ RuneAt(s, i) = s[i]
         \/ /\ Width(s, i) = 2 /\ Two(s[i], s[i + 1]) /\ RuneAt(s, i) = Of2(s[i], s[i + 1])
         \/ /\ Width(s, i) = 3 /\ Three(s[i], s[i + 1], s[i + 2])
            /\ RuneAt(s, i) = Of3(s[i], s[i + 1], s[i + 2])
         \/ /\ Width(s, i) = 4 /\ Four(s[i], s[i + 1], s[i + 2], s[i + 3])
            /\ RuneAt(s, i) = Of4(s[i], s[i + 1], s[i + 2], s[i + 3])
  <1>1. CASE Is1(s, i)
    <2>1. s[i] \in Byte
      OBVIOUS
    <2> DEFINE b == s[i]
    <2>2. b \in Byte /\ b < 128
      BY <1>1, <2>1 DEF Is1
    <2> HIDE DEF b
    <2>3. b \in 0 .. 127
      BY <2>2 DEF Byte
    <2>4. QED  BY <1>1, <2>3, StepIs DEF b
  <1>2. CASE Is2(s, i)
    BY <1>2, StepIs DEF Is2
  <1>3. CASE Is3(s, i)
    BY <1>3, StepIs DEF Is3
  <1>4. CASE Is4(s, i)
    BY <1>4, StepIs DEF Is4
  <1>5. QED  BY <1>1, <1>2, <1>3, <1>4 DEF IsNone

\* A first byte that is larger is that of a larger rune.
LEMMA Lex2 ==
  ASSUME NEW b, NEW c, NEW p, NEW q, Two(b, c), Two(p, q)
  PROVE  /\ b < p => Of2(b, c) < Of2(p, q)
         /\ b = p /\ c < q => Of2(b, c) < Of2(p, q)
  BY SMT DEF Two, Of2

LEMMA Lex3 ==
  ASSUME NEW b, NEW c, NEW d, NEW p, NEW q, NEW r, Three(b, c, d), Three(p, q, r)
  PROVE  /\ b < p => Of3(b, c, d) < Of3(p, q, r)
         /\ b = p /\ c < q => Of3(b, c, d) < Of3(p, q, r)
         /\ b = p /\ c = q /\ d < r => Of3(b, c, d) < Of3(p, q, r)
  BY SMT DEF Three, Of3

LEMMA Lex4 ==
  ASSUME NEW b, NEW c, NEW d, NEW e, NEW p, NEW q, NEW r, NEW t, Four(b, c, d, e), Four(p, q, r, t)
  PROVE  /\ b < p => Of4(b, c, d, e) < Of4(p, q, r, t)
         /\ b = p /\ c < q => Of4(b, c, d, e) < Of4(p, q, r, t)
         /\ b = p /\ c = q /\ d < r => Of4(b, c, d, e) < Of4(p, q, r, t)
         /\ b = p /\ c = q /\ d = r /\ e < t => Of4(b, c, d, e) < Of4(p, q, r, t)
  BY SMT DEF Four, Of4

\* The bytes of a rune are numbers.
LEMMA TwoInts ==
  ASSUME NEW b, NEW c, Two(b, c)
  PROVE  b \in Int /\ c \in Int /\ 194 <= b /\ b <= 223
  BY DEF Two

LEMMA ThreeInts ==
  ASSUME NEW b, NEW c, NEW d, Three(b, c, d)
  PROVE  b \in Int /\ c \in Int /\ d \in Int /\ 224 <= b /\ b <= 239
  BY DEF Three

LEMMA FourInts ==
  ASSUME NEW b, NEW c, NEW d, NEW e, Four(b, c, d, e)
  PROVE  b \in Int /\ c \in Int /\ d \in Int /\ e \in Int /\ 240 <= b /\ b <= 244
  BY DEF Four

LEMMA WindowBounds ==
  ASSUME NEW s \in Seq(Byte), NEW i \in 1 .. Len(s), ~IsNone(s, i)
  PROVE  LET w == Width(s, i)  r == RuneAt(s, i)  b == s[i] IN
         /\ w \in {1, 2, 3, 4} /\ r \in Int /\ b \in Int
         /\ w = 1 => 0 <= b /\ b <= 127 /\ 0 <= r /\ r <= 127
         /\ w = 2 => 194 <= b /\ b <= 223 /\ 128 <= r /\ r <= 2047
         /\ w = 3 => 224 <= b /\ b <= 239 /\ 2048 <= r /\ r < SURR_SELF
         /\ w = 4 => 240 <= b /\ b <= 244 /\ SURR_SELF <= r /\ r <= MAX_RUNE
  <1> DEFINE w == Width(s, i)
             r == RuneAt(s, i)
             b == s[i]
  <1>1. CASE w = 1 /\ b \in 0 .. 127 /\ r = b
    <2> HIDE DEF w, r, b
    <2>1. b \in Int /\ r \in Int /\ 0 <= b /\ b <= 127 /\ 0 <= r /\ r <= 127
      BY <1>1
    <2>2. QED  BY <1>1, <2>1 DEF w, r, b
  <1>2. CASE w = 2 /\ Two(b, s[i + 1]) /\ r = Of2(b, s[i + 1])
    <2>1. r \in Int /\ 128 <= r /\ r <= 2047
      BY <1>2, Of2Is
    <2>2. b \in Int /\ 194 <= b /\ b <= 223
      BY <1>2, TwoInts
    <2>3. w = 2
      BY <1>2
    <2> HIDE DEF w, r, b
    <2>4. QED  BY <2>1, <2>2, <2>3 DEF w, r, b
  <1>3. CASE w = 3 /\ Three(b, s[i + 1], s[i + 2]) /\ r = Of3(b, s[i + 1], s[i + 2])
    <2>1. r \in Int /\ 2048 <= r /\ r < SURR_SELF
      BY <1>3, Of3Is
    <2>2. b \in Int /\ 224 <= b /\ b <= 239
      BY <1>3, ThreeInts
    <2>3. w = 3
      BY <1>3
    <2> HIDE DEF w, r, b
    <2>4. QED  BY <2>1, <2>2, <2>3 DEF w, r, b
  <1>4. CASE w = 4 /\ Four(b, s[i + 1], s[i + 2], s[i + 3]) /\ r = Of4(b, s[i + 1], s[i + 2], s[i + 3])
    <2>1. r \in Int /\ SURR_SELF <= r /\ r <= MAX_RUNE
      BY <1>4, Of4Is
    <2>2. b \in Int /\ 240 <= b /\ b <= 244
      BY <1>4, FourInts
    <2>3. w = 4
      BY <1>4
    <2> HIDE DEF w, r, b
    <2>4. QED  BY <2>1, <2>2, <2>3 DEF w, r, b
  <1>5. QED  BY <1>1, <1>2, <1>3, <1>4, WindowIs

\* A rune of fewer bytes is smaller, and so is its first byte.
LEMMA ShorterIsSmaller ==
  ASSUME NEW x \in Seq(Byte), NEW y \in Seq(Byte), NEW i \in 1 .. Len(x), i \in 1 .. Len(y),
         ~IsNone(x, i), ~IsNone(y, i), Width(x, i) < Width(y, i)
  PROVE  x[i] < y[i] /\ RuneAt(x, i) < RuneAt(y, i)
  <1> DEFINE w == Width(x, i)
             r == RuneAt(x, i)
             b == x[i]
             v == Width(y, i)
             q == RuneAt(y, i)
             c == y[i]
  <1>1. /\ w \in {1, 2, 3, 4} /\ r \in Int /\ b \in Int
        /\ w = 1 => 0 <= b /\ b <= 127 /\ 0 <= r /\ r <= 127
        /\ w = 2 => 194 <= b /\ b <= 223 /\ 128 <= r /\ r <= 2047
        /\ w = 3 => 224 <= b /\ b <= 239 /\ 2048 <= r /\ r < SURR_SELF
    BY WindowBounds
  <1>2. /\ v \in {1, 2, 3, 4} /\ q \in Int /\ c \in Int
        /\ v = 2 => 194 <= c /\ c <= 223 /\ 128 <= q /\ q <= 2047
        /\ v = 3 => 224 <= c /\ c <= 239 /\ 2048 <= q /\ q < SURR_SELF
        /\ v = 4 => 240 <= c /\ c <= 244 /\ SURR_SELF <= q /\ q <= MAX_RUNE
    BY WindowBounds
  <1>3. w < v
    OBVIOUS
  <1> HIDE DEF w, r, b, v, q, c
  <1>4. b < c /\ r < q
    BY <1>1, <1>2, <1>3, Bounds, SMT
  <1>5. QED  BY <1>4 DEF b, c, r, q

LEMMA WindowOrder ==
  ASSUME NEW x \in Seq(Byte), NEW y \in Seq(Byte), NEW i \in 1 .. Len(x), i \in 1 .. Len(y),
         ~IsNone(x, i), ~IsNone(y, i)
  PROVE  Same(x, y, i) \/ \E m \in Nat : DifferAt(x, y, i, m)
  <1> DEFINE w == Width(x, i)
             v == Width(y, i)
             r == RuneAt(x, i)
             q == RuneAt(y, i)
  <1>1. w \in {1, 2, 3, 4} /\ v \in {1, 2, 3, 4} /\ i \in Nat
    BY WindowBounds
  <1>2. ASSUME w < v PROVE DifferAt(x, y, i, i)
    <2>1. x[i] < y[i] /\ r < q
      BY <1>2, ShorterIsSmaller
    <2> HIDE DEF w, v
    <2>2. QED  BY <1>1, <2>1 DEF DifferAt, w, v
  <1>3. ASSUME v < w PROVE DifferAt(x, y, i, i)
    <2>1. y[i] < x[i] /\ q < r
      BY <1>3, ShorterIsSmaller
    <2> HIDE DEF w, v
    <2>2. QED  BY <1>1, <2>1 DEF DifferAt, w, v
  <1> DEFINE a0 == x[i]
             a1 == x[i + 1]
             a2 == x[i + 2]
             a3 == x[i + 3]
             b0 == y[i]
             b1 == y[i + 1]
             b2 == y[i + 2]
             b3 == y[i + 3]
  <1>4. i \in Nat /\ i + 1 \in Nat /\ i + 2 \in Nat /\ i + 3 \in Nat
    BY <1>1
  \* What it takes to differ first at the k-th byte.
  <1> DEFINE First(k) == DifferAt(x, y, i, i + k)
  <1>5. ASSUME NEW k \in 0 .. 3, w = v, k < w, \A j \in i .. (i + k) - 1 : x[j] = y[j],
               \/ x[i + k] < y[i + k] /\ r < q
               \/ y[i + k] < x[i + k] /\ q < r
        PROVE  \E m \in Nat : DifferAt(x, y, i, m)
    <2>1. i + k \in Nat /\ i + k >= i /\ i + k < i + w /\ i + k < i + v
      BY <1>1, <1>5
    <2>2. DifferAt(x, y, i, i + k)
      BY <1>5, <2>1 DEF DifferAt
    <2>3. QED  BY <2>1, <2>2
  <1>6. /\ i .. (i + 0) - 1 = {} /\ i .. (i + 1) - 1 = {i} /\ i .. (i + 2) - 1 = {i, i + 1}
        /\ i .. (i + 3) - 1 = {i, i + 1, i + 2} /\ i .. (i + 4) - 1 = {i, i + 1, i + 2, i + 3}
        /\ i + 0 = i
    BY <1>1
  <1>7. CASE w = 1 /\ v = 1
    <2>1. r = a0 /\ q = b0 /\ a0 \in Int /\ b0 \in Int
      BY <1>7, WindowIs, WindowBounds
    <2>2. CASE a0 = b0
      <3>1. \A j \in i .. (i + 1) - 1 : x[j] = y[j]
        BY <1>6, <2>2
      <3>2. QED  BY <1>7, <2>1, <2>2, <3>1 DEF Same
    <2>3. CASE a0 # b0
      <3>1. a0 < b0 \/ b0 < a0
        BY <2>1, <2>3
      <3>2. QED  BY <1>5, <1>6, <1>7, <2>1, <3>1
    <2>4. QED  BY <2>2, <2>3
  <1>8. CASE w = 2 /\ v = 2
    <2>1. r = Of2(a0, a1) /\ q = Of2(b0, b1) /\ Two(a0, a1) /\ Two(b0, b1)
      BY <1>8, WindowIs
    <2>2. a0 \in Int /\ b0 \in Int /\ a1 \in Int /\ b1 \in Int
      BY <2>1, TwoInts
    <2>3. CASE a0 # b0
      <3>1. (a0 < b0 /\ r < q) \/ (b0 < a0 /\ q < r)
        BY <2>1, <2>2, <2>3, Lex2
      <3>2. QED  BY <1>5, <1>6, <1>8, <3>1
    <2>4. CASE a0 = b0 /\ a1 # b1
      <3>1. (a1 < b1 /\ r < q) \/ (b1 < a1 /\ q < r)
        BY <2>1, <2>2, <2>4, Lex2
      <3>2. \A j \in i .. (i + 1) - 1 : x[j] = y[j]
        BY <1>6, <2>4
      <3>3. QED  BY <1>5, <1>8, <3>1, <3>2
    <2>5. CASE a0 = b0 /\ a1 = b1
      <3>1. \A j \in i .. (i + 2) - 1 : x[j] = y[j]
        BY <1>6, <2>5
      <3>2. QED  BY <1>8, <2>1, <2>5, <3>1 DEF Same
    <2>6. QED  BY <2>3, <2>4, <2>5
  <1>9. CASE w = 3 /\ v = 3
    <2>1. r = Of3(a0, a1, a2) /\ q = Of3(b0, b1, b2) /\ Three(a0, a1, a2) /\ Three(b0, b1, b2)
      BY <1>9, WindowIs
    <2>2. a0 \in Int /\ b0 \in Int /\ a1 \in Int /\ b1 \in Int /\ a2 \in Int /\ b2 \in Int
      BY <2>1, ThreeInts
    <2>3. CASE a0 # b0
      <3>1. (a0 < b0 /\ r < q) \/ (b0 < a0 /\ q < r)
        BY <2>1, <2>2, <2>3, Lex3
      <3>2. QED  BY <1>5, <1>6, <1>9, <3>1
    <2>4. CASE a0 = b0 /\ a1 # b1
      <3>1. (a1 < b1 /\ r < q) \/ (b1 < a1 /\ q < r)
        BY <2>1, <2>2, <2>4, Lex3
      <3>2. \A j \in i .. (i + 1) - 1 : x[j] = y[j]
        BY <1>6, <2>4
      <3>3. QED  BY <1>5, <1>9, <3>1, <3>2
    <2>5. CASE a0 = b0 /\ a1 = b1 /\ a2 # b2
      <3>1. (a2 < b2 /\ r < q) \/ (b2 < a2 /\ q < r)
        BY <2>1, <2>2, <2>5, Lex3
      <3>2. \A j \in i .. (i + 2) - 1 : x[j] = y[j]
        BY <1>6, <2>5
      <3>3. QED  BY <1>5, <1>9, <3>1, <3>2
    <2>6. CASE a0 = b0 /\ a1 = b1 /\ a2 = b2
      <3>1. \A j \in i .. (i + 3) - 1 : x[j] = y[j]
        BY <1>6, <2>6
      <3>2. QED  BY <1>9, <2>1, <2>6, <3>1 DEF Same
    <2>7. QED  BY <2>3, <2>4, <2>5, <2>6
  <1>10. CASE w = 4 /\ v = 4
    <2>1. /\ r = Of4(a0, a1, a2, a3) /\ q = Of4(b0, b1, b2, b3)
          /\ Four(a0, a1, a2, a3) /\ Four(b0, b1, b2, b3)
      BY <1>10, WindowIs
    <2>2. /\ a0 \in Int /\ b0 \in Int /\ a1 \in Int /\ b1 \in Int
          /\ a2 \in Int /\ b2 \in Int /\ a3 \in Int /\ b3 \in Int
      BY <2>1, FourInts, SMTT(60)
    <2>3. CASE a0 # b0
      <3>1. (a0 < b0 /\ r < q) \/ (b0 < a0 /\ q < r)
        BY <2>1, <2>2, <2>3, Lex4, SMTT(60)
      <3>2. QED  BY <1>5, <1>6, <1>10, <3>1
    <2>4. CASE a0 = b0 /\ a1 # b1
      <3>1. (a1 < b1 /\ r < q) \/ (b1 < a1 /\ q < r)
        BY <2>1, <2>2, <2>4, Lex4
      <3>2. \A j \in i .. (i + 1) - 1 : x[j] = y[j]
        BY <1>6, <2>4
      <3>3. QED  BY <1>5, <1>10, <3>1, <3>2
    <2>5. CASE a0 = b0 /\ a1 = b1 /\ a2 # b2
      <3>1. (a2 < b2 /\ r < q) \/ (b2 < a2 /\ q < r)
        BY <2>1, <2>2, <2>5, Lex4
      <3>2. \A j \in i .. (i + 2) - 1 : x[j] = y[j]
        BY <1>6, <2>5
      <3>3. QED  BY <1>5, <1>10, <3>1, <3>2
    <2>6. CASE a0 = b0 /\ a1 = b1 /\ a2 = b2 /\ a3 # b3
      <3>1. (a3 < b3 /\ r < q) \/ (b3 < a3 /\ q < r)
        BY <2>1, <2>2, <2>6, Lex4
      <3>2. \A j \in i .. (i + 3) - 1 : x[j] = y[j]
        BY <1>6, <2>6
      <3>3. QED  BY <1>5, <1>10, <3>1, <3>2
    <2>7. CASE a0 = b0 /\ a1 = b1 /\ a2 = b2 /\ a3 = b3
      <3>1. \A j \in i .. (i + 4) - 1 : x[j] = y[j]
        BY <1>6, <2>7
      <3>2. QED  BY <1>10, <2>1, <2>7, <3>1 DEF Same
    <2>8. QED  BY <2>3, <2>4, <2>5, <2>6, <2>7
  <1>11. w < v \/ v < w \/ (w = 1 /\ v = 1) \/ (w = 2 /\ v = 2) \/ (w = 3 /\ v = 3) \/ (w = 4 /\ v = 4)
    <2> HIDE DEF w, v
    <2>1. QED  BY <1>1
  <1>12. QED  BY <1>1, <1>2, <1>3, <1>7, <1>8, <1>9, <1>10, <1>11

\* Strings without damaged bytes are ordered as their bytes are: from a common
\* boundary on, so are the runes.
LEMMA ByteOrder ==
  ASSUME NEW x \in Seq(Byte), NEW y \in Seq(Byte), WellFormed(x), WellFormed(y)
  PROVE  less(x, y) <=> Smaller(x, y)
  <1> DEFINE N == Len(x)
             M == Len(y)
             f == RunesFrom(x)
             g == RunesFrom(y)
             Common(i) == i <= M + 1 /\ i - 1 \in Boundaries(x) /\ i - 1 \in Boundaries(y)
             Agree(i) == Smaller(f[i], g[i]) <=> SmallerFrom(x, y, i)
             S == {i \in 1 .. N + 1 : Common(i) => Agree(i)}
  <1>1. x \in Seq(Int) /\ y \in Seq(Int) /\ N \in Nat /\ M \in Nat
    BY BytesAreInts
  <1>2. /\ f \in [1 .. N + 1 -> Seq(Int)] /\ f[N + 1] = <<>>
        /\ \A i \in 1 .. N : f[i] = <<RuneAt(x, i)>> \o f[i + Width(x, i)]
        /\ utf8_to_runes(x) = f[1]
    BY RunesAre
  <1>3. /\ g \in [1 .. M + 1 -> Seq(Int)] /\ g[M + 1] = <<>>
        /\ \A i \in 1 .. M : g[i] = <<RuneAt(y, i)>> \o g[i + Width(y, i)]
        /\ utf8_to_runes(y) = g[1]
    BY RunesAre
  <1> HIDE DEF f, g
  <1>4. ASSUME NEW i \in 1 .. N, i <= M
        PROVE  /\ i \in 1 .. M
               /\ RuneAt(x, i) \in Int /\ RuneAt(y, i) \in Int
               /\ i + Width(x, i) \in i + 1 .. N + 1 /\ i + Width(y, i) \in i + 1 .. M + 1
               /\ f[i + Width(x, i)] \in Seq(Int) /\ g[i + Width(y, i)] \in Seq(Int)
               /\ f[i] = <<RuneAt(x, i)>> \o f[i + Width(x, i)]
               /\ g[i] = <<RuneAt(y, i)>> \o g[i + Width(y, i)]
    <2>1. i \in 1 .. M
      BY <1>1, <1>4
    <2>2. RuneAt(x, i) \in Int /\ i + Width(x, i) \in i + 1 .. N + 1
      BY StepFits
    <2>3. RuneAt(y, i) \in Int /\ i + Width(y, i) \in i + 1 .. M + 1
      BY <2>1, StepFits
    <2> HIDE DEF N, M
    <2>4. i + Width(x, i) \in 1 .. N + 1 /\ i + Width(y, i) \in 1 .. M + 1
      BY <1>1, <2>2, <2>3
    <2>5. f[i + Width(x, i)] \in Seq(Int) /\ g[i + Width(y, i)] \in Seq(Int)
      BY <1>2, <1>3, <2>4
    <2>6. QED  BY <1>2, <1>3, <2>1, <2>2, <2>3, <2>5
  <1>5. ASSUME NEW i \in 1 .. N + 1, \A j \in i + 1 .. N + 1 : j \in S, Common(i) PROVE Agree(i)
    <2>1. i \in Nat \ {0}
      BY <1>1
    <2>2. CASE i = N + 1
      <3>1. SmallerFrom(x, y, i) <=> i <= M
        BY <1>1, <2>1, <2>2, EndDecides
      <3>2. CASE i = M + 1
        <4>1. f[i] = <<>> /\ g[i] = <<>>
          BY <1>2, <1>3, <2>2, <3>2
        <4>2. ~Smaller(f[i], g[i])
          <5>1. <<>> \in Seq(Int) /\ 0 \in Int
            OBVIOUS
          <5>2. ~Smaller(<<>>, <<>>)
            BY <5>1, SmallerCons
          <5>3. QED  BY <4>1, <5>2
        <4>3. QED  BY <1>1, <3>1, <3>2, <4>2
      <3>3. CASE i # M + 1
        <4>1. i \in 1 .. M /\ i <= M
          BY <1>1, <1>5, <3>3
        <4>2. RuneAt(y, i) \in Int /\ i + Width(y, i) \in i + 1 .. M + 1
          BY <4>1, StepFits
        <4>3. g[i] = <<RuneAt(y, i)>> \o g[i + Width(y, i)] /\ g[i + Width(y, i)] \in Seq(Int)
          <5>1. i + Width(y, i) \in 1 .. M + 1
            BY <1>1, <4>1, <4>2
          <5>2. QED  BY <1>3, <4>1, <5>1
        <4>4. f[i] = <<>>
          BY <1>2, <2>2
        <4>5. Smaller(<<>>, <<RuneAt(y, i)>> \o g[i + Width(y, i)])
          <5>1. <<>> \in Seq(Int)
            OBVIOUS
          <5>2. QED  BY <4>2, <4>3, <5>1, SmallerCons
        <4>6. QED  BY <3>1, <4>1, <4>3, <4>4, <4>5
      <3>4. QED  BY <3>2, <3>3
    <2>3. CASE i # N + 1 /\ i = M + 1
      <3>1. ~SmallerFrom(x, y, i)
        BY <1>1, <2>1, <2>3, EndDecides
      <3>2. g[i] = <<>> /\ f[i] \in Seq(Int)
        BY <1>2, <1>3, <2>3
      <3>3. ~Smaller(f[i], <<>>)
        <4>1. <<>> \in Seq(Int) /\ 0 \in Int
          OBVIOUS
        <4>2. QED  BY <3>2, <4>1, SmallerCons
      <3>4. QED  BY <3>1, <3>2, <3>3
    <2>4. CASE i # N + 1 /\ i # M + 1
      <3>1. i \in 1 .. N /\ i <= M /\ i \in 1 .. M /\ i <= N
        BY <1>1, <1>5, <2>4
      <3>2. /\ i - 1 \in Boundaries(x) /\ i - 1 # Len(x) /\ (i - 1) + 1 = i
            /\ i - 1 \in Boundaries(y) /\ i - 1 # Len(y)
        BY <1>5, <2>4, <3>1
      <3>3. ~IsNone(x, i) /\ ~IsNone(y, i)
        BY <3>2, WellFormedStep
      <3> DEFINE r == RuneAt(x, i)
                 q == RuneAt(y, i)
                 w == Width(x, i)
                 v == Width(y, i)
      <3>4. /\ r \in Int /\ q \in Int /\ i + w \in i + 1 .. N + 1 /\ i + v \in i + 1 .. M + 1
            /\ f[i + w] \in Seq(Int) /\ g[i + v] \in Seq(Int)
            /\ f[i] = <<r>> \o f[i + w] /\ g[i] = <<q>> \o g[i + v]
        BY <1>4, <3>1
      <3>5. CASE Same(x, y, i)
        <4>1. w = v /\ r = q /\ \A j \in i .. i + w - 1 : x[j] = y[j]
          BY <3>5 DEF Same
        <4>2. Smaller(f[i], g[i]) <=> Smaller(f[i + w], g[i + w])
          BY <3>4, <4>1, SmallerCons
        <4>3. (i - 1) + w \in Boundaries(x) /\ (i - 1) + w \in Boundaries(y) /\ w \in 1 .. 4
          <5>1. (i - 1) + Width(x, (i - 1) + 1) \in Boundaries(x)
            BY <3>2, NextBoundary
          <5>2. (i - 1) + Width(y, (i - 1) + 1) \in Boundaries(y)
            BY <3>2, NextBoundary
          <5>3. w \in 1 .. 4
            BY <3>1, StepFits
          <5>4. QED  BY <3>2, <4>1, <5>1, <5>2, <5>3
        <4> HIDE DEF w, v, r, q
        <4>4. (i + w) - 1 = (i - 1) + w /\ i + w <= M + 1
          BY <1>1, <3>1, <3>4, <4>1, <4>3
        <4>5. Common(i + w)
          BY <4>3, <4>4
        <4>6. Smaller(f[i + w], g[i + w]) <=> SmallerFrom(x, y, i + w)
          <5>1. i + w \in S
            BY <1>5, <3>4
          <5>2. QED  BY <4>5, <5>1
        <4>7. SmallerFrom(x, y, i) <=> SmallerFrom(x, y, i + w)
          <5> DEFINE m == i + w - 1
          <5>1. /\ m \in Nat /\ i <= m /\ m <= N /\ m <= M /\ m + 1 = i + w
                /\ x[m] = y[m] /\ \A j \in i .. m - 1 : x[j] = y[j]
            BY <1>1, <2>1, <3>1, <3>4, <4>1, <4>3, <4>4
          <5> HIDE DEF m
          <5>2. SmallerFrom(x, y, i) <=> SmallerFrom(x, y, m + 1)
            BY <1>1, <2>1, <5>1, FirstDecides
          <5>3. QED  BY <5>1, <5>2
        <4>8. QED  BY <4>2, <4>6, <4>7
      <3>6. CASE \E m \in Nat : DifferAt(x, y, i, m)
        <4>1. PICK m \in Nat : DifferAt(x, y, i, m)
          BY <3>6
        <4>2. /\ i <= m /\ m < i + w /\ m < i + v /\ \A j \in i .. m - 1 : x[j] = y[j]
              /\ (x[m] < y[m] /\ r < q) \/ (y[m] < x[m] /\ q < r)
          BY <4>1 DEF DifferAt
        <4>0. w \in Int /\ v \in Int
          <5>1. w \in 1 .. 4 /\ v \in 1 .. 4
            BY <3>1, StepFits
          <5>2. QED  BY <5>1
        <4> HIDE DEF w, v, r, q
        <4>3. m <= N /\ m <= M
          <5> HIDE DEF N, M
          <5>1. QED  BY <1>1, <3>1, <3>4, <4>0, <4>2
        <4>4. CASE x[m] < y[m] /\ r < q
          <5>1. SmallerFrom(x, y, i)
            BY <1>1, <2>1, <4>2, <4>3, <4>4, FirstDecides
          <5>2. Smaller(<<r>> \o f[i + w], <<q>> \o g[i + v])
            BY <3>4, <4>4, SmallerCons
          <5>3. QED  BY <3>4, <5>1, <5>2
        <4>5. CASE y[m] < x[m] /\ q < r
          <5>1. ~SmallerFrom(x, y, i)
            BY <1>1, <2>1, <4>2, <4>3, <4>5, FirstDecides
          <5>2. ~Smaller(<<r>> \o f[i + w], <<q>> \o g[i + v])
            BY <3>4, <4>5, SmallerCons
          <5>3. QED  BY <3>4, <5>1, <5>2
        <4>6. QED  BY <4>2, <4>4, <4>5
      <3>7. QED  BY <3>1, <3>3, <3>5, <3>6, WindowOrder
    <2>5. QED  BY <2>2, <2>3, <2>4
  <1>6. 1 .. N + 1 \subseteq S
    <2>1. \A i \in 1 .. N + 1 : (\A j \in i + 1 .. N + 1 : j \in S) => i \in S
      BY <1>5
    <2> HIDE DEF S
    <2>2. QED  BY <1>1, <2>1, Backwards
  <1>7. Common(1)
    BY <1>1, NextBoundary
  <1>8. Agree(1)
    <2>1. 1 \in 1 .. N + 1
      BY <1>1
    <2>2. 1 \in S
      BY <1>6, <2>1
    <2>3. QED  BY <1>7, <2>2
  <1>9. QED  BY <1>1, <1>2, <1>3, <1>8, SmallerIs DEF less

\* A part of a string is a string, and so are the two it is cut into.
LEMMA SliceIs ==
  ASSUME NEW s \in Seq(Byte), NEW i \in 0 .. Len(s), NEW j \in i .. Len(s)
  PROVE  /\ slice(s, i, j) \in Seq(Byte) /\ Len(slice(s, i, j)) = j - i
         /\ \A k \in 1 .. j - i : slice(s, i, j)[k] = s[i + k]
  <1>1. Len(s) \in Nat
    OBVIOUS
  <1>2. CASE i = j
    <2>1. slice(s, i, j) = <<>> /\ j - i = 0
      BY <1>1, <1>2 DEF slice
    <2>2. QED  BY <2>1
  <1>3. CASE i # j
    <2>1. slice(s, i, j) = SubSeq(s, i + 1, j)
      BY <1>3 DEF slice
    <2>2. i + 1 \in 1 .. Len(s) /\ j \in 1 .. Len(s) /\ i + 1 <= j
      BY <1>1, <1>3
    <2>3. /\ SubSeq(s, i + 1, j) \in Seq(Byte) /\ Len(SubSeq(s, i + 1, j)) = j - (i + 1) + 1
          /\ \A k \in 1 .. j - (i + 1) + 1 : SubSeq(s, i + 1, j)[k] = s[(i + 1) + k - 1]
      BY <2>2, SubSeqProperties
    <2>4. j - (i + 1) + 1 = j - i
      BY <1>1
    <2>5. \A k \in 1 .. j - i : (i + 1) + k - 1 = i + k
      BY <1>1
    <2>6. QED  BY <2>1, <2>3, <2>4, <2>5
  <1>4. QED  BY <1>2, <1>3

LEMMA OrderIs ==
  ASSUME NEW x \in Seq(Byte), NEW y \in Seq(Byte)
  PROVE  /\ less(x, y) <=> greater(y, x)
         /\ ~(less(x, y) /\ less(y, x))
         /\ lessEq(x, y) \/ lessEq(y, x) \/ ~WellFormed(x) \/ ~WellFormed(y)
         /\ WellFormed(x) /\ WellFormed(y) => (less(x, y) <=> Smaller(x, y))
  <1>1. x \in Seq(Int) /\ y \in Seq(Int)
    BY BytesAreInts
  <1>2. utf8_to_runes(x) \in Seq(Int) /\ utf8_to_runes(y) \in Seq(Int)
    <2>1. ASSUME NEW s \in Seq(Byte) PROVE utf8_to_runes(s) \in Seq(Int)
      <3>1. 1 \in 1 .. Len(s) + 1
        OBVIOUS
      <3>2. RunesFrom(s) \in [1 .. Len(s) + 1 -> Seq(Int)] /\ utf8_to_runes(s) = RunesFrom(s)[1]
        BY RunesAre
      <3> HIDE DEF RunesFrom
      <3>3. QED  BY <3>1, <3>2
    <2>2. QED  BY <2>1
  <1>3. less(x, y) <=> greater(y, x)
    BY DEF less, greater
  <1>4. ~(less(x, y) /\ less(y, x))
    BY <1>2, Total DEF less
  <1>5. ASSUME WellFormed(x), WellFormed(y) PROVE lessEq(x, y) \/ lessEq(y, x)
    <2>1. Smaller(x, y) \/ Smaller(y, x) \/ x = y
      BY <1>1, Total
    <2>2. (less(x, y) <=> Smaller(x, y)) /\ (less(y, x) <=> Smaller(y, x))
      BY <1>5, ByteOrder
    <2>3. QED  BY <2>1, <2>2 DEF lessEq
  <1>6. QED  BY <1>3, <1>4, <1>5, ByteOrder

\* The comparisons of strings agree with each other in every state.
LEMMA CutsInOrder ==
  ASSUME form = "str" => value \in Seq(Byte)
  PROVE  OrderAgrees
  <1>1. SUFFICES ASSUME value \in Seq(Byte), NEW k \in 0 .. Len(value)
                 PROVE  LET x == slice(value, 0, k)  y == slice(value, k, Len(value)) IN
                          /\ less(x, y) <=> greater(y, x)
                          /\ ~(less(x, y) /\ less(y, x))
                          /\ lessEq(x, y) \/ lessEq(y, x) \/ ~WellFormed(x) \/ ~WellFormed(y)
                          /\ WellFormed(x) /\ WellFormed(y) => (less(x, y) <=> Smaller(x, y))
    BY DEF OrderAgrees
  <1>2. 0 \in 0 .. Len(value) /\ k \in 0 .. Len(value) /\ Len(value) \in k .. Len(value)
    BY <1>1
  <1>3. slice(value, 0, k) \in Seq(Byte) /\ slice(value, k, Len(value)) \in Seq(Byte)
    BY <1>1, <1>2, SliceIs
  <1>4. QED  BY <1>3, OrderIs

-----------------------------------------------------------------------------
(* Joining the sequences of a row.                                         *)

IsJoin(g, N, F) == g = [n \in 0 .. N |-> IF n = 0 THEN <<>> ELSE g[n - 1] \o F[n]]

LEMMA JoinExists ==
  ASSUME NEW N \in Nat, NEW S, NEW F \in [1 .. N -> Seq(S)]
  PROVE  \E f : IsJoin(f, N, F)
  <1> DEFINE D == 0 .. N
             V == Seq(S)
             rank == [n \in D |-> n]
             base == [n \in D |-> <<>>]
             Ends0 == {0}
             before == [n \in D |-> n - 1]
             next == [n \in D |-> [v \in V |-> IF n = 0 THEN v ELSE v \o F[n]]]
  <1>1. rank \in [D -> 0 .. N] /\ Ends0 \in SUBSET D
    OBVIOUS
  <1>2. base \in [D -> V]
    OBVIOUS
  <1>3. next \in [D -> [V -> V]]
    <2>1. \A n \in D \ {0} : F[n] \in V
      OBVIOUS
    <2>2. \A n \in D, v \in V : (IF n = 0 THEN v ELSE v \o F[n]) \in V
      BY <2>1
    <2>3. QED  BY <2>2
  <1>4. \A n \in D \ Ends0 : before[n] \in D /\ before[n] = n - 1 /\ rank[before[n]] < rank[n]
    OBVIOUS
  <1>5. \E f \in [D -> V] : \A n \in D : f[n] = IF n \in Ends0 THEN base[n] ELSE next[n][f[before[n]]]
    <2> HIDE DEF D, V, rank, base, Ends0, before, next
    <2>1. ByRecursion(D, N, rank, V, base, Ends0, before, next)
      BY <1>1, <1>2, <1>3, <1>4 DEF ByRecursion
    <2>2. QED  BY <2>1, RecursionExists
  <1>6. PICK f \in [D -> V] : \A n \in D : f[n] = IF n \in Ends0 THEN base[n] ELSE next[n][f[before[n]]]
    BY <1>5
  <1>7. ASSUME NEW n \in D PROVE f[n] = IF n = 0 THEN <<>> ELSE f[n - 1] \o F[n]
    <2>1. CASE n = 0
      BY <1>6, <2>1
    <2>2. CASE n # 0
      <3>1. n \in D \ Ends0 /\ before[n] = n - 1 /\ before[n] \in D
        BY <1>4, <2>2
      <3>2. f[n - 1] \in V
        BY <1>6, <3>1
      <3>3. next[n][f[n - 1]] = f[n - 1] \o F[n]
        BY <2>2, <3>2
      <3> HIDE DEF before, next, D, Ends0, base
      <3>4. f[n] = next[n][f[before[n]]]
        BY <1>6, <3>1
      <3>5. QED  BY <2>2, <3>1, <3>3, <3>4
    <2>3. QED  BY <2>1, <2>2
  <1>8. f = [n \in D |-> IF n = 0 THEN <<>> ELSE f[n - 1] \o F[n]]
    BY <1>6, <1>7
  <1>9. QED  BY <1>8 DEF IsJoin

Joining(g, N, S, F) ==
  /\ g \in [0 .. N -> Seq(S)] /\ g[0] = <<>>
  /\ \A n \in 1 .. N : g[n] = g[n - 1] \o F[n]

LEMMA JoinIs ==
  ASSUME NEW N \in Nat, NEW S, NEW F \in [1 .. N -> Seq(S)],
         NEW g, IsJoin(g, N, F)
  PROVE  Joining(g, N, S, F)
  <1>0. g = [n \in 0 .. N |-> IF n = 0 THEN <<>> ELSE g[n - 1] \o F[n]]
    BY DEF IsJoin
  <1>1. g[0] = <<>>
    BY <1>0
  <1>2. \A n \in 1 .. N : g[n] = g[n - 1] \o F[n]
    <2>1. \A n \in 1 .. N : n \in 0 .. N /\ n # 0
      OBVIOUS
    <2>2. \A n \in 0 .. N : g[n] = IF n = 0 THEN <<>> ELSE g[n - 1] \o F[n]
      BY <1>0
    <2>3. QED  BY <2>1, <2>2
  <1> DEFINE T == {n \in 0 .. N : g[n] \in Seq(S)}
  <1>3. 0 \in T
    <2>1. g[0] \in Seq(S)
      BY <1>1
    <2>2. QED  BY <2>1
  <1>4. ASSUME NEW n \in 0 .. N - 1, n \in T PROVE n + 1 \in T
    <2>1. n + 1 \in 1 .. N /\ (n + 1) - 1 = n
      OBVIOUS
    <2>2. F[n + 1] \in Seq(S) /\ g[n + 1] = g[n] \o F[n + 1]
      BY <1>2, <2>1
    <2>3. g[n] \in Seq(S)
      BY <1>4
    <2>4. g[n] \o F[n + 1] \in Seq(S)
      BY <2>2, <2>3
    <2>5. n + 1 \in 0 .. N
      OBVIOUS
    <2>6. QED  BY <2>2, <2>4, <2>5
  <1>5. 0 .. N \subseteq T
    <2> HIDE DEF T
    <2>1. QED  BY <1>3, <1>4, UpTo
  <1>6. g \in [0 .. N -> Seq(S)]
    <2>1. \A n \in 0 .. N : g[n] \in Seq(S)
      BY <1>5
    <2>2. DOMAIN g = 0 .. N /\ g = [n \in 0 .. N |-> g[n]]
      BY <1>0
    <2>3. QED  BY <2>1, <2>2
  <1>7. QED  BY <1>1, <1>2, <1>6 DEF Joining
-----------------------------------------------------------------------------
(* UTF-8: the bytes of a rune.                                             *)

LEMMA MaxThree == RUNE3_MAX = 65535 /\ RUNE3_MAX + 1 = SURR_SELF
  BY SMT DEF RUNE3_MAX, SURR_SELF

\* The rune that is written for r.
Written(r) == IF IsValid(r) THEN r ELSE RUNE_ERROR

LEMMA WrittenIs ==
  ASSUME NEW r \in Int
  PROVE  /\ Written(r) \in Int /\ IsValid(Written(r)) /\ 0 <= Written(r) /\ Written(r) <= MAX_RUNE
         /\ Written(r) = IF r \notin 0 .. MAX_RUNE \/ r \in Surrogates THEN RUNE_ERROR ELSE r
  <1>1. RUNE_ERROR \in Int /\ IsValid(RUNE_ERROR)
    BY Bounds, ValidIs, SMT
  <1>2. Written(r) \in Int /\ IsValid(Written(r))
    BY <1>1 DEF Written
  <1>3. 0 <= Written(r) /\ Written(r) <= MAX_RUNE
    BY <1>2, ValidIs
  <1>4. QED  BY <1>2, <1>3 DEF Written, IsValid

LEMMA PushCases ==
  ASSUME NEW r \in Int
  PROVE  /\ 0 <= r /\ r < 128 => utf8_push_rune_bytes(r) = <<r>>
         /\ 128 <= r /\ r < 2047 => utf8_push_rune_bytes(r) = <<192 + r \div 64, 128 + (r % 64)>>
         /\ 2047 <= r /\ r < SURR_SELF => utf8_push_rune_bytes(r) =
               <<224 + Written(r) \div 4096, 128 + ((Written(r) \div 64) % 64),
                 128 + ((Written(r) \div 1) % 64)>>
         /\ r < 0 \/ SURR_SELF <= r => utf8_push_rune_bytes(r) =
               <<240 + Written(r) \div 262144, 128 + ((Written(r) \div 4096) % 64),
                 128 + ((Written(r) \div 64) % 64), 128 + ((Written(r) \div 1) % 64)>>
  <1>1. r \in 0 .. 127 <=> 0 <= r /\ r < 128
    OBVIOUS
  <1>2. r \in 128 .. 2046 <=> 128 <= r /\ r < 2047
    OBVIOUS
  <1>3. r \in 2047 .. RUNE3_MAX <=> 2047 <= r /\ r < SURR_SELF
    <2>1. RUNE3_MAX \in Int
      BY MaxThree, SMT
    <2>2. r <= RUNE3_MAX <=> r < SURR_SELF
      BY MaxThree, <2>1
    <2>3. QED  BY <2>1, <2>2
  <1> DEFINE A == r \in 0 .. 127
             B == r \in 128 .. 2046
             C == r \in 2047 .. RUNE3_MAX
             p == utf8_push_rune_bytes(r)
             q == Written(r)
             p1 == <<r>>
             p2 == <<192 + r \div 64, 128 + (r % 64)>>
             p3 == <<224 + q \div 4096, 128 + ((q \div 64) % 64), 128 + ((q \div 1) % 64)>>
             p4 == <<240 + q \div 262144, 128 + ((q \div 4096) % 64), 128 + ((q \div 64) % 64), 128 + ((q \div 1) % 64)>>
  <1>4. (IF r \notin 0 .. MAX_RUNE \/ r \in Surrogates THEN RUNE_ERROR ELSE r) = q
    BY WrittenIs
  <1>5. p = CASE A -> p1 [] B -> p2 [] C -> p3 [] OTHER -> p4
    BY <1>4 DEF utf8_push_rune_bytes, LOCB
  <1>6. A => ~B /\ ~C
    BY <1>1, <1>2, <1>3
  <1>7. B => ~A /\ ~C
    BY <1>1, <1>2, <1>3
  <1>8. C => ~B /\ ~A
    BY <1>1, <1>2, <1>3
  <1> HIDE DEF A, B, C, p, p1, p2, p3, p4
  <1>9. (A => p = p1) /\ (B => p = p2) /\ (C => p = p3) /\ (~A /\ ~B /\ ~C => p = p4)
    BY <1>5, <1>6, <1>7, <1>8
  <1>10. r < 0 \/ SURR_SELF <= r => ~A /\ ~B /\ ~C
    BY <1>1, <1>2, <1>3, Bounds DEF A, B, C
  <1>11. QED  BY <1>1, <1>2, <1>3, <1>9, <1>10 DEF A, B, C, p, p1, p2, p3, p4, q
\* Any number is 64 times its quotient by 64 and a remainder below 64.
LEMMA Shift ==
  ASSUME NEW n \in Nat
  PROVE  /\ n \div 64 \in Nat /\ n % 64 \in 0 .. 63 /\ n = 64 * (n \div 64) + (n % 64)
         /\ n \div 1 = n
  OBVIOUS

LEMMA Shifts ==
  ASSUME NEW n \in Nat
  PROVE  /\ n \div 4096 = (n \div 64) \div 64
         /\ n \div 262144 = ((n \div 64) \div 64) \div 64
  <1>1. PICK a \in Nat, x \in 0 .. 63 : n = 64 * a + x /\ n \div 64 = a
    BY Shift
  <1>2. PICK b \in Nat, y \in 0 .. 63 : a = 64 * b + y /\ a \div 64 = b
    BY Shift
  <1>3. PICK c \in Nat, z \in 0 .. 63 : b = 64 * c + z /\ b \div 64 = c
    BY Shift
  <1>4. n = 4096 * b + (64 * y + x) /\ 64 * y + x >= 0 /\ 64 * y + x < 4096
    BY <1>1, <1>2
  <1>5. n = 262144 * c + (4096 * z + 64 * y + x) /\ 4096 * z + 64 * y + x >= 0 /\ 4096 * z + 64 * y + x < 262144
    BY <1>3, <1>4
  <1>6. n \div 4096 = b
    BY <1>4
  <1>7. n \div 262144 = c
    BY <1>5, SMT
  <1>8. QED  BY <1>1, <1>2, <1>3, <1>6, <1>7

\* A rune is written as a window of the decoder that is read as the rune,
\* unless its length does not fit it.
LEMMA PushIs ==
  ASSUME NEW r \in Int
  PROVE  /\ 0 <= r /\ r < 128 => utf8_push_rune_bytes(r) = <<r>>
         /\ 128 <= r /\ r < 2047 => \E b, c \in Byte :
              utf8_push_rune_bytes(r) = <<b, c>> /\ Two(b, c) /\ Of2(b, c) = r
         /\ r = 2047 => utf8_push_rune_bytes(r) = <<224, 159, 191>>
         /\ 2048 <= r /\ r < SURR_SELF => \E b, c, d \in Byte :
              utf8_push_rune_bytes(r) = <<b, c, d>> /\ Three(b, c, d) /\ Of3(b, c, d) = Written(r)
         /\ SURR_SELF <= r /\ r <= MAX_RUNE => \E b, c, d, e \in Byte :
              utf8_push_rune_bytes(r) = <<b, c, d, e>> /\ Four(b, c, d, e) /\ Of4(b, c, d, e) = r
         /\ r < 0 \/ MAX_RUNE < r => utf8_push_rune_bytes(r) = <<240, 143, 191, 189>>
  <1> DEFINE q == Written(r)
  <1>1. q \in Nat /\ q <= MAX_RUNE /\ IsValid(q)
    BY WrittenIs
  <1>2. PICK a \in Nat, x \in 0 .. 63 : q = 64 * a + x /\ q \div 64 = a /\ q % 64 = x /\ q \div 1 = q
    BY <1>1, Shift
  <1>3. PICK f \in Nat, y \in 0 .. 63 : a = 64 * f + y /\ a \div 64 = f /\ a % 64 = y
    BY Shift
  <1>4. PICK g \in Nat, z \in 0 .. 63 : f = 64 * g + z /\ f \div 64 = g /\ f % 64 = z
    BY Shift
  <1>5. q \div 4096 = f /\ q \div 262144 = g
    BY <1>1, <1>2, <1>3, <1>4, Shifts
  <1>6. q < SURR1 \/ SURR3 <= q
    BY <1>1, ValidIs
  <1>7. q = IF 0 <= r /\ r <= MAX_RUNE /\ (r < SURR1 \/ SURR3 <= r) THEN r ELSE RUNE_ERROR
    BY ValidIs DEF Written
  <1> HIDE DEF q
  <1>8. 2047 < MAX_RUNE /\ 2047 < SURR1 /\ SURR_SELF <= MAX_RUNE /\ SURR3 < SURR_SELF /\ RUNE_ERROR < SURR_SELF /\ 2048 < RUNE_ERROR
    BY Bounds, SMT
  <1>9. MAX_RUNE \in Int /\ SURR1 \in Int /\ SURR3 \in Int /\ SURR_SELF \in Int /\ RUNE_ERROR \in Int
    BY Bounds, SMT
  <1>10. 0 <= r /\ r < 128 => utf8_push_rune_bytes(r) = <<r>>
    BY PushCases
  <1>11. ASSUME 128 <= r, r < 2047
         PROVE  \E b, c \in Byte : utf8_push_rune_bytes(r) = <<b, c>> /\ Two(b, c) /\ Of2(b, c) = r
    <2>1. q = r
      BY <1>7, <1>8, <1>9, <1>11
    <2>2. utf8_push_rune_bytes(r) = <<192 + a, 128 + x>>
      <3>1. utf8_push_rune_bytes(r) = <<192 + r \div 64, 128 + (r % 64)>>
        BY <1>11, PushCases
      <3>2. QED  BY <1>2, <2>1, <3>1
    <2>3. a >= 2 /\ a <= 31
      BY <1>2, <1>11, <2>1
    <2>4. 192 + a \in Byte /\ 128 + x \in Byte /\ Two(192 + a, 128 + x)
      BY <2>3 DEF Two, Byte
    <2>5. Of2(192 + a, 128 + x) = r
      BY <1>2, <2>1 DEF Of2
    <2>6. QED  BY <2>2, <2>4, <2>5
  <1>12. ASSUME 2047 <= r, r < SURR_SELF
         PROVE  utf8_push_rune_bytes(r) = <<224 + f, 128 + y, 128 + x>>
    <2>1. utf8_push_rune_bytes(r) = <<224 + q \div 4096, 128 + ((q \div 64) % 64), 128 + ((q \div 1) % 64)>>
      BY <1>12, PushCases DEF q
    <2>2. QED  BY <1>2, <1>3, <1>5, <2>1
  <1>13. ASSUME r = 2047 PROVE utf8_push_rune_bytes(r) = <<224, 159, 191>>
    <2>1. q = 2047
      BY <1>7, <1>8, <1>9, <1>13
    <2>2. 2047 < SURR_SELF
      BY Bounds, SMT
    <2>3. f = 0 /\ y = 31 /\ x = 63
      BY <1>2, <1>3, <2>1
    <2>4. QED  BY <1>12, <1>13, <2>2, <2>3
  <1>14. ASSUME 2048 <= r, r < SURR_SELF
         PROVE  \E b, c, d \in Byte :
                  utf8_push_rune_bytes(r) = <<b, c, d>> /\ Three(b, c, d) /\ Of3(b, c, d) = q
    <2>1. 2048 <= q /\ q < SURR_SELF
      BY <1>7, <1>8, <1>9, <1>14
    <2>2. q = 4096 * f + 64 * y + x
      BY <1>2, <1>3
    <2>3. f <= 15
      BY <2>1, <2>2, Bounds, SMT
    <2>4. f = 0 => y >= 32
      BY <2>1, <2>2, SMT
    <2>5. f = 13 => y <= 31
      BY <1>6, <2>2, Bounds, SMT
    <2>6. 224 + f \in Byte /\ 128 + y \in Byte /\ 128 + x \in Byte /\ Three(224 + f, 128 + y, 128 + x)
      BY <2>3, <2>4, <2>5 DEF Three, Byte
    <2>7. Of3(224 + f, 128 + y, 128 + x) = q
      BY <2>2 DEF Of3
    <2>8. utf8_push_rune_bytes(r) = <<224 + f, 128 + y, 128 + x>>
      BY <1>12, <1>14
    <2>9. QED  BY <2>6, <2>7, <2>8
  <1>15. ASSUME r < 0 \/ SURR_SELF <= r
         PROVE  utf8_push_rune_bytes(r) = <<240 + g, 128 + z, 128 + y, 128 + x>>
    <2>1. utf8_push_rune_bytes(r) = <<240 + q \div 262144, 128 + ((q \div 4096) % 64),
                                      128 + ((q \div 64) % 64), 128 + ((q \div 1) % 64)>>
      BY <1>15, PushCases DEF q
    <2>2. QED  BY <1>2, <1>3, <1>4, <1>5, <2>1
  <1>16. q = 262144 * g + 4096 * z + 64 * y + x
    BY <1>2, <1>3, <1>4, SMT
  <1>17. ASSUME SURR_SELF <= r, r <= MAX_RUNE
         PROVE  \E b, c, d, e \in Byte :
                  utf8_push_rune_bytes(r) = <<b, c, d, e>> /\ Four(b, c, d, e) /\ Of4(b, c, d, e) = r
    <2>1. q = r
      BY <1>7, <1>8, <1>9, <1>17
    <2>2. g <= 4
      BY <1>16, <1>17, <2>1, Bounds, SMT
    <2>3. g = 0 => z >= 16
      BY <1>16, <1>17, <2>1, Bounds, SMT
    <2>4. g = 4 => z <= 15
      BY <1>16, <1>17, <2>1, Bounds, SMT
    <2>5. /\ 240 + g \in Byte /\ 128 + z \in Byte /\ 128 + y \in Byte /\ 128 + x \in Byte
          /\ Four(240 + g, 128 + z, 128 + y, 128 + x)
      BY <2>2, <2>3, <2>4 DEF Four, Byte
    <2>6. Of4(240 + g, 128 + z, 128 + y, 128 + x) = r
      BY <1>16, <2>1, SMT DEF Of4
    <2>7. utf8_push_rune_bytes(r) = <<240 + g, 128 + z, 128 + y, 128 + x>>
      BY <1>15, <1>17
    <2>8. QED  BY <2>5, <2>6, <2>7
  <1>18. ASSUME r < 0 \/ MAX_RUNE < r
         PROVE  utf8_push_rune_bytes(r) = <<240, 143, 191, 189>>
    <2>1. q = RUNE_ERROR
      BY <1>7, <1>8, <1>9, <1>18
    <2>2. g = 0 /\ z = 15 /\ y = 63 /\ x = 61
      BY <1>16, <2>1, Bounds, SMT
    <2>3. r < 0 \/ SURR_SELF <= r
      BY <1>8, <1>9, <1>18
    <2>4. QED  BY <1>15, <2>2, <2>3
  <1>19. QED  BY <1>10, <1>11, <1>13, <1>14, <1>17, <1>18 DEF q

LEMMA PushFits ==
  ASSUME NEW r \in Int
  PROVE  utf8_push_rune_bytes(r) \in Seq(Byte)
  <1> DEFINE p == utf8_push_rune_bytes(r)
  <1>1. 0 <= r /\ r < 128 => r \in Byte
    BY DEF Byte
  <1>2. 224 \in Byte /\ 159 \in Byte /\ 191 \in Byte /\ 240 \in Byte /\ 143 \in Byte /\ 189 \in Byte
    BY DEF Byte
  <1>3. \/ (0 <= r /\ r < 128) \/ (128 <= r /\ r < 2047) \/ r = 2047
        \/ (2048 <= r /\ r < SURR_SELF) \/ (SURR_SELF <= r /\ r <= MAX_RUNE) \/ r < 0 \/ MAX_RUNE < r
    <2>1. SURR_SELF \in Int /\ MAX_RUNE \in Int
      BY Bounds, SMT
    <2>2. QED  BY <2>1
  <1>4. \/ 0 <= r /\ r < 128 /\ p = <<r>>
        \/ \E b, c \in Byte : p = <<b, c>>
        \/ p = <<224, 159, 191>>
        \/ \E b, c, d \in Byte : p = <<b, c, d>>
        \/ \E b, c, d, e \in Byte : p = <<b, c, d, e>>
        \/ p = <<240, 143, 191, 189>>
    <2>1. (0 <= r /\ r < 128) => p = <<r>>
      BY PushIs
    <2>2. (128 <= r /\ r < 2047) => \E b, c \in Byte : p = <<b, c>>
      BY PushIs
    <2>3. (2048 <= r /\ r < SURR_SELF) => \E b, c, d \in Byte : p = <<b, c, d>>
      BY PushIs
    <2>4. (SURR_SELF <= r /\ r <= MAX_RUNE) => \E b, c, d, e \in Byte : p = <<b, c, d, e>>
      BY PushIs
    <2>5. r = 2047 => p = <<224, 159, 191>>
      BY PushIs
    <2>6. r < 0 \/ MAX_RUNE < r => p = <<240, 143, 191, 189>>
      BY PushIs
    <2> HIDE DEF p
    <2>7. QED  BY <1>3, <2>1, <2>2, <2>3, <2>4, <2>5, <2>6
  <1> HIDE DEF p
  <1>5. \A b \in Byte : <<b>> \in Seq(Byte)
    OBVIOUS
  <1>6. \A b, c \in Byte : <<b, c>> \in Seq(Byte)
    OBVIOUS
  <1>7. \A b, c, d \in Byte : <<b, c, d>> \in Seq(Byte)
    OBVIOUS
  <1>8. \A b, c, d, e \in Byte : <<b, c, d, e>> \in Seq(Byte)
    OBVIOUS
  <1>9. <<224, 159, 191>> \in Seq(Byte) /\ <<240, 143, 191, 189>> \in Seq(Byte)
    BY <1>2, <1>7, <1>8
  <1>10. 0 <= r /\ r < 128 /\ p = <<r>> => p \in Seq(Byte)
    BY <1>1, <1>5
  <1>11. (\E b, c \in Byte : p = <<b, c>>) => p \in Seq(Byte)
    BY <1>6
  <1>12. (\E b, c, d \in Byte : p = <<b, c, d>>) => p \in Seq(Byte)
    BY <1>7
  <1>13. (\E b, c, d, e \in Byte : p = <<b, c, d, e>>) => p \in Seq(Byte)
    BY <1>8
  <1>14. QED  BY <1>4, <1>9, <1>10, <1>11, <1>12, <1>13 DEF p
-----------------------------------------------------------------------------
(* UTF-8: the bytes of some runes, and what is read from them.             *)

Encoded(s) == CHOOSE upto : upto = [n \in 0 .. Len(s) |->
  IF n = 0 THEN <<>> ELSE upto[n - 1] \o utf8_push_rune_bytes(s[n])]

LEMMA EncodedIs ==
  ASSUME NEW s \in Seq(Int)
  PROVE  /\ Encoded(s) \in [0 .. Len(s) -> Seq(Byte)]
         /\ Encoded(s)[0] = <<>>
         /\ \A n \in 1 .. Len(s) : Encoded(s)[n] = Encoded(s)[n - 1] \o utf8_push_rune_bytes(s[n])
         /\ runes_to_utf8(s) = Encoded(s)[Len(s)]
  <1> DEFINE N == Len(s)
             F == [n \in 1 .. N |-> utf8_push_rune_bytes(s[n])]
  <1>1. N \in Nat
    OBVIOUS
  <1>2. F \in [1 .. N -> Seq(Byte)]
    <2>1. ASSUME NEW n \in 1 .. N PROVE utf8_push_rune_bytes(s[n]) \in Seq(Byte)
      <3>1. s[n] \in Int
        OBVIOUS
      <3>2. QED  BY <3>1, PushFits
    <2>2. QED  BY <2>1
  <1>3. \A g : IsJoin(g, N, F) <=> g = [n \in 0 .. Len(s) |-> IF n = 0 THEN <<>> ELSE g[n - 1] \o utf8_push_rune_bytes(s[n])]
    <2>1. \A n \in 0 .. N : n # 0 => n \in 1 .. N
      OBVIOUS
    <2>2. \A n \in 1 .. N : F[n] = utf8_push_rune_bytes(s[n])
      OBVIOUS
    <2> HIDE DEF F
    <2>3. ASSUME NEW g
          PROVE  [n \in 0 .. N |-> IF n = 0 THEN <<>> ELSE g[n - 1] \o F[n]]
                   = [n \in 0 .. Len(s) |-> IF n = 0 THEN <<>> ELSE g[n - 1] \o utf8_push_rune_bytes(s[n])]
      BY <2>1, <2>2
    <2>4. QED  BY <2>3 DEF IsJoin
  <1>4. \E f : IsJoin(f, N, F)
    <2> HIDE DEF F, N
    <2>1. QED  BY <1>1, <1>2, JoinExists
  <1>5. IsJoin(Encoded(s), N, F)
    <2>1. \E f : f = [n \in 0 .. Len(s) |-> IF n = 0 THEN <<>> ELSE f[n - 1] \o utf8_push_rune_bytes(s[n])]
      BY <1>3, <1>4
    <2>2. QED  BY <1>3, <2>1 DEF Encoded
  <1>6. runes_to_utf8(s) = Encoded(s)[Len(s)]
    BY DEF runes_to_utf8, Encoded
  <1> DEFINE g == Encoded(s)
  <1>7. g \in [0 .. N -> Seq(Byte)] /\ g[0] = <<>> /\ \A n \in 1 .. N : g[n] = g[n - 1] \o F[n]
    <2> HIDE DEF F, N, g
    <2>1. IsJoin(g, N, F)
      BY <1>5 DEF g
    <2>2. Joining(g, N, Byte, F)
      BY <1>1, <1>2, <2>1, JoinIs
    <2>3. QED  BY <2>2 DEF Joining
  <1>8. QED  BY <1>6, <1>7

LEMMA EncodingFits ==
  ASSUME NEW s \in Seq(Int)
  PROVE  runes_to_utf8(s) \in Seq(Byte)
  <1>1. Len(s) \in 0 .. Len(s)
    OBVIOUS
  <1>2. QED  BY <1>1, EncodedIs

LEMMA DecodingFits ==
  ASSUME NEW s \in Seq(Byte)
  PROVE  utf8_to_runes(s) \in Seq(Int)
  <1>1. 1 \in 1 .. Len(s) + 1
    OBVIOUS
  <1>2. QED  BY <1>1, RunesAre

-----------------------------------------------------------------------------
(* UTF-16: the units of some runes.                                        *)

LEMMA UnitIs ==
  /\ \A u \in Int : u \in Unit <=> 0 <= u /\ u < SURR_SELF
  /\ Unit \subseteq Int
  /\ \A u \in Unit : u \in Int /\ 0 <= u /\ u < SURR_SELF
  <1>1. SURR_SELF \in Int
    BY Bounds, SMT
  <1>2. QED  BY <1>1 DEF Unit

\* The units appended for a rune.
UnitsOf(r) == IF SURR_SELF <= r /\ r <= MAX_RUNE THEN utf16_encode_rune(r)
              ELSE IF IsValid(r) THEN <<r>> ELSE <<RUNE_ERROR>>

Half == 0 .. 1023

LEMMA Halves ==
  ASSUME NEW n \in Nat
  PROVE  n \div 1024 \in Nat /\ n % 1024 \in Half /\ n = 1024 * (n \div 1024) + (n % 1024)
  BY DEF Half

\* A rune from SURR_SELF on is written as two halves of a pair.
LEMMA PairIs ==
  ASSUME NEW r \in Int, SURR_SELF <= r, r <= MAX_RUNE
  PROVE  \E h, l \in Half : /\ utf16_encode_rune(r) = <<SURR1 + h, SURR2 + l>>
                                 /\ r - SURR_SELF = 1024 * h + l
  <1>1. SURR_SELF \in Int /\ MAX_RUNE \in Int /\ SURR1 \in Int /\ SURR2 \in Int
    BY Bounds, SMT
  <1>2. r \in SURR_SELF .. MAX_RUNE
    BY <1>1
  <1> DEFINE n == r - SURR_SELF
  <1>3. n \in Nat /\ n < 1048576
    BY Bounds, SMT
  <1>4. utf16_encode_rune(r) = <<SURR1 + ((n \div 1024) % 1024), SURR2 + (n % 1024)>>
    BY <1>2 DEF utf16_encode_rune
  <1> HIDE DEF n
  <1>5. PICK h \in Nat, l \in Half : n = 1024 * h + l /\ n \div 1024 = h /\ n % 1024 = l
    BY <1>3, Halves
  <1>6. h < 1024
    BY <1>3, <1>5, SMT DEF Half
  <1>7. h % 1024 = h /\ h \in Half
    BY <1>6, SMT DEF Half
  <1>8. utf16_encode_rune(r) = <<SURR1 + h, SURR2 + l>> /\ r - SURR_SELF = 1024 * h + l
    BY <1>4, <1>5, <1>7 DEF n
  <1>9. QED  BY <1>5, <1>7, <1>8

LEMMA UnitsOfFit ==
  ASSUME NEW r \in Int
  PROVE  UnitsOf(r) \in Seq(Unit)
  <1>1. CASE SURR_SELF <= r /\ r <= MAX_RUNE
    <2>1. PICK h, l \in Half : /\ utf16_encode_rune(r) = <<SURR1 + h, SURR2 + l>>
                                    /\ r - SURR_SELF = 1024 * h + l
      BY <1>1, PairIs
    <2>2. SURR1 + h \in Int /\ SURR2 + l \in Int /\ 0 <= SURR1 + h /\ 0 <= SURR2 + l
          /\ SURR1 + h < SURR_SELF /\ SURR2 + l < SURR_SELF
      BY Bounds, SMT DEF Half
    <2>3. SURR1 + h \in Unit /\ SURR2 + l \in Unit
      BY <2>2, UnitIs
    <2>4. <<SURR1 + h, SURR2 + l>> \in Seq(Unit)
      BY <2>3
    <2>5. QED  BY <1>1, <2>1, <2>4 DEF UnitsOf
  <1>2. CASE ~(SURR_SELF <= r /\ r <= MAX_RUNE) /\ IsValid(r)
    <2>1. 0 <= r /\ r < SURR_SELF
      BY <1>2, ValidIs, Bounds, SMT
    <2>2. r \in Unit
      BY <2>1, UnitIs
    <2>3. QED  BY <1>2, <2>2 DEF UnitsOf
  <1>3. CASE ~(SURR_SELF <= r /\ r <= MAX_RUNE) /\ ~IsValid(r)
    <2>1. RUNE_ERROR \in Int /\ 0 <= RUNE_ERROR /\ RUNE_ERROR < SURR_SELF
      BY Bounds, SMT
    <2>2. RUNE_ERROR \in Unit
      BY <2>1, UnitIs
    <2>3. QED  BY <1>3, <2>2 DEF UnitsOf
  <1>4. QED  BY <1>1, <1>2, <1>3

LEMMA AppendRuneIs ==
  ASSUME NEW a \in Seq(Unit), NEW r \in Int
  PROVE  utf16_append_rune(a, r) = a \o UnitsOf(r)
  <1>1. SURR_SELF \in Int /\ MAX_RUNE \in Int /\ SURR_SELF <= MAX_RUNE /\ SURR3 <= SURR_SELF
        /\ SURR1 \in Int /\ SURR3 \in Int /\ RUNE_ERROR \in Int /\ 0 <= SURR_SELF
    BY Bounds, SMT
  <1> DEFINE A == r \in 0 .. (SURR_SELF - 1) /\ r \notin Surrogates
             B == r \in SURR_SELF .. MAX_RUNE
             one == Append(a, r)
             two == a \o utf16_encode_rune(r)
             none == Append(a, RUNE_ERROR)
  <1>2. A <=> IsValid(r) /\ ~(SURR_SELF <= r)
    BY <1>1 DEF IsValid
  <1>3. B <=> SURR_SELF <= r /\ r <= MAX_RUNE
    BY <1>1
  <1>4. B => IsValid(r)
    BY <1>1, <1>3, ValidIs
  <1>5. utf16_append_rune(a, r) = CASE A -> one [] B -> two [] OTHER -> none
    BY DEF utf16_append_rune
  <1>6. one = a \o <<r>> /\ none = a \o <<RUNE_ERROR>>
    <2>1. a \in Seq(Int)
      <3>1. Unit \subseteq Int
        BY UnitIs
      <3>2. QED  BY <3>1, SeqMonotonic
    <2>2. QED  BY <1>1, <2>1, AppendIsConcat
  <1> HIDE DEF A, B, one, two, none
  <1>7. A => ~B
    BY <1>2, <1>3
  <1>8. CASE A
    <2>1. UnitsOf(r) = <<r>>
      BY <1>2, <1>8 DEF UnitsOf
    <2>2. QED  BY <1>5, <1>6, <1>7, <1>8, <2>1
  <1>9. CASE B
    <2>1. UnitsOf(r) = utf16_encode_rune(r)
      BY <1>3, <1>9 DEF UnitsOf
    <2>2. QED  BY <1>5, <1>7, <1>9, <2>1 DEF two
  <1>10. CASE ~A /\ ~B
    <2>1. ~IsValid(r)
      <3>1. IsValid(r) => SURR_SELF <= r /\ r <= MAX_RUNE
        BY <1>2, <1>10, ValidIs
      <3>2. QED  BY <1>3, <1>10, <3>1
    <2>2. UnitsOf(r) = <<RUNE_ERROR>>
      BY <1>3, <1>10, <2>1 DEF UnitsOf
    <2>3. QED  BY <1>5, <1>6, <1>10, <2>2
  <1>11. QED  BY <1>8, <1>9, <1>10
-----------------------------------------------------------------------------
(* What is read of some runes.                                             *)

LEMMA ReadsFit ==
  ASSUME NEW r \in Int
  PROVE  Reads(r) \in Seq(Int)
  <1>1. RUNE_ERROR \in Int
    BY Bounds, SMT
  <1>2. <<r>> \in Seq(Int) /\ <<RUNE_ERROR>> \in Seq(Int) /\ <<RUNE_ERROR, RUNE_ERROR, RUNE_ERROR>> \in Seq(Int)
        /\ <<RUNE_ERROR, RUNE_ERROR, RUNE_ERROR, RUNE_ERROR>> \in Seq(Int)
    BY <1>1
  <1>3. Reads(r) \in {<<r>>, <<RUNE_ERROR>>, <<RUNE_ERROR, RUNE_ERROR, RUNE_ERROR>>,
                      <<RUNE_ERROR, RUNE_ERROR, RUNE_ERROR, RUNE_ERROR>>}
    BY DEF Reads
  <1>4. QED  BY <1>2, <1>3

ReadUpTo(s) == CHOOSE upto : upto = [n \in 0 .. Len(s) |->
  IF n = 0 THEN <<>> ELSE upto[n - 1] \o Reads(s[n])]

LEMMA ReadUpToIs ==
  ASSUME NEW s \in Seq(Int)
  PROVE  /\ ReadUpTo(s) \in [0 .. Len(s) -> Seq(Int)]
         /\ ReadUpTo(s)[0] = <<>>
         /\ \A n \in 1 .. Len(s) : ReadUpTo(s)[n] = ReadUpTo(s)[n - 1] \o Reads(s[n])
         /\ ReadsAll(s) = ReadUpTo(s)[Len(s)]
  <1> DEFINE N == Len(s)
             F == [n \in 1 .. N |-> Reads(s[n])]
  <1>1. N \in Nat
    OBVIOUS
  <1>2. F \in [1 .. N -> Seq(Int)]
    <2>1. ASSUME NEW n \in 1 .. N PROVE Reads(s[n]) \in Seq(Int)
      <3>1. s[n] \in Int
        OBVIOUS
      <3>2. QED  BY <3>1, ReadsFit
    <2>2. QED  BY <2>1
  <1>3. \A g : IsJoin(g, N, F) <=> g = [n \in 0 .. Len(s) |-> IF n = 0 THEN <<>> ELSE g[n - 1] \o Reads(s[n])]
    <2>1. \A n \in 0 .. N : n # 0 => n \in 1 .. N
      OBVIOUS
    <2>2. \A n \in 1 .. N : F[n] = Reads(s[n])
      OBVIOUS
    <2> HIDE DEF F
    <2>3. ASSUME NEW g
          PROVE  [n \in 0 .. N |-> IF n = 0 THEN <<>> ELSE g[n - 1] \o F[n]]
                   = [n \in 0 .. Len(s) |-> IF n = 0 THEN <<>> ELSE g[n - 1] \o Reads(s[n])]
      BY <2>1, <2>2
    <2>4. QED  BY <2>3 DEF IsJoin
  <1>4. \E f : IsJoin(f, N, F)
    <2> HIDE DEF F, N
    <2>1. QED  BY <1>1, <1>2, JoinExists
  <1>5. IsJoin(ReadUpTo(s), N, F)
    <2>1. \E f : f = [n \in 0 .. Len(s) |-> IF n = 0 THEN <<>> ELSE f[n - 1] \o Reads(s[n])]
      BY <1>3, <1>4
    <2>2. QED  BY <1>3, <2>1 DEF ReadUpTo
  <1>6. ReadsAll(s) = ReadUpTo(s)[Len(s)]
    BY DEF ReadsAll, ReadUpTo
  <1> DEFINE g == ReadUpTo(s)
  <1>7. g \in [0 .. N -> Seq(Int)] /\ g[0] = <<>> /\ \A n \in 1 .. N : g[n] = g[n - 1] \o F[n]
    <2> HIDE DEF F, N, g
    <2>1. IsJoin(g, N, F)
      BY <1>5 DEF g
    <2>2. Joining(g, N, Int, F)
      BY <1>1, <1>2, <2>1, JoinIs
    <2>3. QED  BY <2>2 DEF Joining
  <1>8. QED  BY <1>6, <1>7

LEMMA ReadsAllFit ==
  ASSUME NEW s \in Seq(Int)
  PROVE  ReadsAll(s) \in Seq(Int)
  <1>1. Len(s) \in 0 .. Len(s)
    OBVIOUS
  <1>2. QED  BY <1>1, ReadUpToIs

-----------------------------------------------------------------------------
(* UTF-16: the units of some runes.                                        *)

UnitsUpTo(runes) == CHOOSE upto : upto = [n \in 0 .. Len(runes) |->
  IF n = 0 THEN <<>> ELSE utf16_append_rune(upto[n - 1], runes[n])]

LEMMA UnitsAre ==
  ASSUME NEW s \in Seq(Int)
  PROVE  /\ UnitsUpTo(s) \in [0 .. Len(s) -> Seq(Unit)]
         /\ UnitsUpTo(s)[0] = <<>>
         /\ \A n \in 1 .. Len(s) : UnitsUpTo(s)[n] = UnitsUpTo(s)[n - 1] \o UnitsOf(s[n])
         /\ utf16_append_runes(s) = UnitsUpTo(s)[Len(s)]
  <1> DEFINE N == Len(s)
             F == [n \in 1 .. N |-> UnitsOf(s[n])]
  <1>1. N \in Nat
    OBVIOUS
  <1>2. F \in [1 .. N -> Seq(Unit)]
    <2>1. ASSUME NEW n \in 1 .. N PROVE UnitsOf(s[n]) \in Seq(Unit)
      <3>1. s[n] \in Int
        OBVIOUS
      <3>2. QED  BY <3>1, UnitsOfFit
    <2>2. QED  BY <2>1
  <1>3. \A n \in 1 .. N : F[n] = UnitsOf(s[n]) /\ s[n] \in Int
    OBVIOUS
  <1> DEFINE Rec(g) == g = [n \in 0 .. Len(s) |->
                         IF n = 0 THEN <<>> ELSE utf16_append_rune(g[n - 1], s[n])]
  <1>4. \E f : Rec(f)
    <2> HIDE DEF F, N
    <2>1. PICK f : IsJoin(f, N, F)
      BY <1>1, <1>2, JoinExists
    <2>2. Joining(f, N, Unit, F)
      BY <1>1, <1>2, <2>1, JoinIs
    <2>3. ASSUME NEW n \in 0 .. N
          PROVE  f[n] = IF n = 0 THEN <<>> ELSE utf16_append_rune(f[n - 1], s[n])
      <3>1. CASE n = 0
        BY <2>2, <3>1 DEF Joining
      <3>2. CASE n # 0
        <4>1. n \in 1 .. N /\ n - 1 \in 0 .. N
          BY <1>1, <3>2
        <4>2. f[n - 1] \in Seq(Unit) /\ f[n] = f[n - 1] \o F[n]
          BY <2>2, <4>1 DEF Joining
        <4>3. utf16_append_rune(f[n - 1], s[n]) = f[n - 1] \o UnitsOf(s[n])
          BY <1>3, <4>1, <4>2, AppendRuneIs
        <4>4. QED  BY <1>3, <3>2, <4>1, <4>2, <4>3
      <3>3. QED  BY <3>1, <3>2
    <2>4. f = [n \in 0 .. N |-> f[n]]
      BY <2>2 DEF Joining
    <2>5. f = [n \in 0 .. N |-> IF n = 0 THEN <<>> ELSE utf16_append_rune(f[n - 1], s[n])]
      BY <2>3, <2>4
    <2>6. Rec(f)
      BY <2>5 DEF N
    <2>7. QED  BY <2>6
  <1> DEFINE g == UnitsUpTo(s)
  <1>5. Rec(g)
    BY <1>4 DEF UnitsUpTo
  <1>6. utf16_append_runes(s) = g[N]
    BY DEF utf16_append_runes, UnitsUpTo
  <1> HIDE DEF g
  <1>7. g[0] = <<>> /\ \A n \in 1 .. N : g[n] = utf16_append_rune(g[n - 1], s[n])
    <2>1. \A n \in 1 .. N : n \in 0 .. N /\ n # 0
      OBVIOUS
    <2>2. 0 \in 0 .. N
      OBVIOUS
    <2>3. \A n \in 0 .. N : g[n] = IF n = 0 THEN <<>> ELSE utf16_append_rune(g[n - 1], s[n])
      BY <1>5
    <2>4. QED  BY <2>1, <2>2, <2>3
  <1> DEFINE T == {n \in 0 .. N : g[n] \in Seq(Unit)}
  <1>8. 0 \in T
    <2>1. g[0] \in Seq(Unit)
      BY <1>7
    <2>2. QED  BY <2>1
  <1>9. ASSUME NEW n \in 0 .. N - 1, n \in T
        PROVE  n + 1 \in T /\ g[n + 1] = g[n] \o UnitsOf(s[n + 1])
    <2>1. n + 1 \in 1 .. N /\ (n + 1) - 1 = n /\ n + 1 \in 0 .. N
      OBVIOUS
    <2>2. g[n] \in Seq(Unit)
      BY <1>9
    <2>3. g[n + 1] = utf16_append_rune(g[n], s[n + 1])
      BY <1>7, <2>1
    <2>4. s[n + 1] \in Int
      BY <1>3, <2>1
    <2>5. g[n + 1] = g[n] \o UnitsOf(s[n + 1]) /\ UnitsOf(s[n + 1]) \in Seq(Unit)
      BY <2>2, <2>3, <2>4, AppendRuneIs, UnitsOfFit
    <2>6. g[n] \o UnitsOf(s[n + 1]) \in Seq(Unit)
      BY <2>2, <2>5
    <2>7. QED  BY <2>1, <2>5, <2>6
  <1>10. 0 .. N \subseteq T
    <2>1. \A n \in 0 .. N - 1 : n \in T => n + 1 \in T
      BY <1>9
    <2> HIDE DEF T, N
    <2>2. QED  BY <1>1, <1>8, <2>1, UpTo
  <1>11. \A n \in 1 .. N : g[n] = g[n - 1] \o UnitsOf(s[n])
    <2>1. ASSUME NEW n \in 1 .. N PROVE g[n] = g[n - 1] \o UnitsOf(s[n])
      <3>1. n - 1 \in 0 .. N - 1 /\ n - 1 \in 0 .. N /\ (n - 1) + 1 = n
        OBVIOUS
      <3>2. n - 1 \in T
        BY <1>10, <3>1
      <3>3. g[(n - 1) + 1] = g[n - 1] \o UnitsOf(s[(n - 1) + 1])
        BY <1>9, <3>1, <3>2
      <3>4. QED  BY <3>1, <3>3
    <2>2. QED  BY <2>1
  <1>12. g \in [0 .. N -> Seq(Unit)]
    <2>1. \A n \in 0 .. N : g[n] \in Seq(Unit)
      BY <1>10
    <2>2. g = [n \in 0 .. N |-> g[n]]
      BY <1>5
    <2>3. QED  BY <2>1, <2>2
  <1>13. QED  BY <1>6, <1>7, <1>11, <1>12 DEF g

LEMMA UnitsFit ==
  ASSUME NEW s \in Seq(Int)
  PROVE  utf16_append_runes(s) \in Seq(Unit)
  <1>1. Len(s) \in 0 .. Len(s)
    OBVIOUS
  <1>2. QED  BY <1>1, UnitsAre
-----------------------------------------------------------------------------
(* UTF-16: the runes of some units.                                        *)

Paired(s, i) == /\ s[i] \in SURR1 .. (SURR2 - 1)
                /\ i < Len(s)
                /\ s[i + 1] \in SURR2 .. (SURR3 - 1)
UnitRune(s, i) == IF Paired(s, i) THEN utf16_decode_rune(s[i], s[i + 1])
                  ELSE IF s[i] \in Surrogates THEN RUNE_ERROR ELSE s[i]
UnitWidth(s, i) == IF Paired(s, i) THEN 2 ELSE 1

\* A pair is read as the rune it is the pair of, if no bit is lost.
LostBit(h) == (h \div 64) % 2 = 1
LEMMA PairReads ==
  ASSUME NEW h \in Half, NEW l \in Half
  PROVE  /\ SURR1 + h \in SURR1 .. (SURR2 - 1) /\ SURR2 + l \in SURR2 .. (SURR3 - 1)
         /\ utf16_decode_rune(SURR1 + h, SURR2 + l)
              = 1024 * h + l + (IF LostBit(h) THEN 0 ELSE SURR_SELF)
  <1>1. SURR1 \in Int /\ SURR2 \in Int /\ SURR3 \in Int /\ h \in Int /\ l \in Int
    BY Bounds, SMT DEF Half
  <1>2. 0 <= h /\ h < SURR2 - SURR1 /\ 0 <= l /\ l < SURR3 - SURR2
    BY Bounds, SMT DEF Half
  <1>3. SURR1 + h \in SURR1 .. (SURR2 - 1) /\ SURR2 + l \in SURR2 .. (SURR3 - 1)
    BY <1>1, <1>2
  <1>4. (SURR1 + h) - SURR1 = h /\ (SURR2 + l) - SURR2 = l
    BY <1>1
  <1> DEFINE m == (SURR1 + h) - SURR1
             lost == IF (m \div 64) % 2 = 1 THEN 0 ELSE SURR_SELF
  <1>5. utf16_decode_rune(SURR1 + h, SURR2 + l) = m * 1024 + ((SURR2 + l) - SURR2) + lost
    BY <1>3 DEF utf16_decode_rune
  <1>6. lost = IF LostBit(h) THEN 0 ELSE SURR_SELF
    BY <1>4 DEF LostBit
  <1>7. lost \in Int
    BY <1>6, Bounds, SMT
  <1> HIDE DEF lost
  <1>8. m * 1024 + ((SURR2 + l) - SURR2) + lost = 1024 * h + l + lost
    BY <1>1, <1>4, <1>7
  <1>9. QED  BY <1>3, <1>5, <1>6, <1>8

LEMMA PairValid ==
  ASSUME NEW h \in Half, NEW l \in Half
  PROVE  utf16_decode_rune(SURR1 + h, SURR2 + l) \in Int /\ IsValid(utf16_decode_rune(SURR1 + h, SURR2 + l))
  <1> DEFINE r == utf16_decode_rune(SURR1 + h, SURR2 + l)
  <1>1. h \in Int /\ l \in Int /\ 0 <= h /\ h <= 1023 /\ 0 <= l /\ l <= 1023
    BY SMT DEF Half
  <1>2. r = 1024 * h + l + (IF LostBit(h) THEN 0 ELSE SURR_SELF)
    BY PairReads
  <1> HIDE DEF r
  <1>3. CASE LostBit(h)
    <2>1. r = 1024 * h + l
      BY <1>1, <1>2, <1>3
    <2>2. h >= 64
      BY <1>1, <1>3 DEF LostBit
    <2>3. r \in Int /\ SURR3 <= r /\ r <= MAX_RUNE /\ 0 <= r
      BY <1>1, <2>1, <2>2, Bounds, SMT
    <2>4. QED  BY <2>3, ValidIs DEF r
  <1>4. CASE ~LostBit(h)
    <2>1. r = 1024 * h + l + SURR_SELF
      BY <1>2, <1>4
    <2>2. r \in Int /\ SURR3 <= r /\ r <= MAX_RUNE /\ 0 <= r
      BY <1>1, <2>1, Bounds, SMT
    <2>3. QED  BY <2>2, ValidIs DEF r
  <1>5. QED  BY <1>3, <1>4

LEMMA UnitStepFits ==
  ASSUME NEW s \in Seq(Unit), NEW i \in 1 .. Len(s)
  PROVE  /\ UnitWidth(s, i) \in 1 .. 2 /\ i + UnitWidth(s, i) \in i + 1 .. Len(s) + 1
         /\ UnitRune(s, i) \in Int /\ IsValid(UnitRune(s, i))
  <1>1. UnitWidth(s, i) \in 1 .. 2 /\ i + UnitWidth(s, i) \in i + 1 .. Len(s) + 1
    <2>1. Len(s) \in Nat /\ i \in Int /\ 1 <= i /\ i <= Len(s)
      OBVIOUS
    <2>2. UnitWidth(s, i) = 1 \/ (UnitWidth(s, i) = 2 /\ i < Len(s))
      BY DEF UnitWidth, Paired
    <2>3. QED  BY <2>1, <2>2
  <1>2. CASE Paired(s, i)
    <2>1. s[i] \in SURR1 .. (SURR2 - 1) /\ s[i + 1] \in SURR2 .. (SURR3 - 1)
      BY <1>2 DEF Paired
    <2> DEFINE h == s[i] - SURR1
               l == s[i + 1] - SURR2
    <2>2. SURR1 \in Int /\ SURR2 \in Int /\ SURR3 \in Int
      BY Bounds, SMT
    <2>3. s[i] = SURR1 + h /\ s[i + 1] = SURR2 + l
      BY <2>1, <2>2
    <2>4. h \in Int /\ l \in Int /\ 0 <= h /\ 0 <= l /\ h < SURR2 - SURR1 /\ l < SURR3 - SURR2
      BY <2>1, <2>2
    <2> HIDE DEF h, l
    <2>5. h \in Half /\ l \in Half
      BY <2>4, Bounds, SMT DEF Half
    <2>6. UnitRune(s, i) = utf16_decode_rune(SURR1 + h, SURR2 + l)
      BY <1>2, <2>3 DEF UnitRune
    <2>7. QED  BY <1>1, <2>5, <2>6, PairValid
  <1>3. CASE ~Paired(s, i) /\ s[i] \in Surrogates
    <2>1. UnitRune(s, i) = RUNE_ERROR
      BY <1>3 DEF UnitRune
    <2>2. RUNE_ERROR \in Int /\ IsValid(RUNE_ERROR)
      BY Bounds, ValidIs, SMT
    <2>3. QED  BY <1>1, <2>1, <2>2
  <1>4. CASE ~Paired(s, i) /\ s[i] \notin Surrogates
    <2>1. UnitRune(s, i) = s[i]
      BY <1>4 DEF UnitRune
    <2>2. s[i] \in Unit
      OBVIOUS
    <2>3. s[i] \in Int /\ 0 <= s[i] /\ s[i] < SURR_SELF
      BY <2>2, UnitIs
    <2> DEFINE u == s[i]
    <2> HIDE DEF u
    <2>4. u \in Int /\ 0 <= u /\ u <= MAX_RUNE
      BY <2>3, Bounds, SMT DEF u
    <2>5. MAX_RUNE \in Int
      BY Bounds, SMT
    <2>6. u \in 0 .. MAX_RUNE
      BY <2>4, <2>5
    <2>7. IsValid(u)
      BY <1>4, <2>6 DEF u, IsValid
    <2>8. QED  BY <1>1, <2>1, <2>4, <2>7 DEF u
  <1>5. QED  BY <1>2, <1>3, <1>4

UnitRunesFrom(s) == CHOOSE from : from = [i \in 1 .. (Len(s) + 1) |->
  IF i > Len(s) THEN <<>>
  ELSE IF Paired(s, i) THEN <<utf16_decode_rune(s[i], s[i + 1])>> \o from[i + 2]
  ELSE <<IF s[i] \in Surrogates THEN RUNE_ERROR ELSE s[i]>> \o from[i + 1]]

\* One step of the decoder, with one form for a pair and for a single unit.
LEMMA UnitStepIs ==
  ASSUME NEW s, NEW i, NEW g
  PROVE  (IF Paired(s, i) THEN <<utf16_decode_rune(s[i], s[i + 1])>> \o g[i + 2]
          ELSE <<IF s[i] \in Surrogates THEN RUNE_ERROR ELSE s[i]>> \o g[i + 1])
         = <<UnitRune(s, i)>> \o g[i + UnitWidth(s, i)]
  <1>1. CASE Paired(s, i)
    BY <1>1 DEF UnitRune, UnitWidth
  <1>2. CASE ~Paired(s, i)
    BY <1>2 DEF UnitRune, UnitWidth
  <1>3. QED  BY <1>1, <1>2

LEMMA UnitRunesAre ==
  ASSUME NEW s \in Seq(Unit)
  PROVE  /\ UnitRunesFrom(s) \in [1 .. Len(s) + 1 -> Seq(Int)]
         /\ UnitRunesFrom(s)[Len(s) + 1] = <<>>
         /\ \A i \in 1 .. Len(s) : UnitRunesFrom(s)[i] = <<UnitRune(s, i)>> \o UnitRunesFrom(s)[i + UnitWidth(s, i)]
         /\ utf16_decode(s) = UnitRunesFrom(s)[1]
  <1> DEFINE N == Len(s)
             D == 1 .. N + 1
             V == Seq(Int)
             rank == [i \in D |-> (N + 1) - i]
             base == [i \in D |-> <<>>]
             Ends0 == {N + 1}
             before == [i \in D |-> i + UnitWidth(s, i)]
             next == [i \in D |-> [v \in V |-> <<UnitRune(s, i)>> \o v]]
  <1>1. N \in Nat
    OBVIOUS
  <1> HIDE DEF N
  <1>2. \A i \in D \ Ends0 : i \in 1 .. Len(s) /\ i \in 1 .. N
    BY <1>1 DEF N
  <1>3. \A i \in D \ Ends0 : i + UnitWidth(s, i) \in i + 1 .. N + 1 /\ UnitRune(s, i) \in Int
    <2>1. ASSUME NEW i \in D \ Ends0 PROVE i + UnitWidth(s, i) \in i + 1 .. N + 1 /\ UnitRune(s, i) \in Int
      <3>1. i + UnitWidth(s, i) \in i + 1 .. Len(s) + 1 /\ UnitRune(s, i) \in Int
        BY <1>2, <2>1, UnitStepFits
      <3>2. QED  BY <3>1 DEF N
    <2>2. QED  BY <2>1
  <1>4. rank \in [D -> 0 .. N] /\ base \in [D -> V]
    BY <1>1
  <1> DEFINE next1 == [i \in D |-> IF i \in Ends0 THEN [v \in V |-> v] ELSE next[i]]
  <1>5. next1 \in [D -> [V -> V]]
    BY <1>3
  <1>6. ASSUME NEW i \in D \ Ends0 PROVE before[i] \in D /\ rank[before[i]] < rank[i]
    <2>1. i \in D /\ before[i] = i + UnitWidth(s, i) /\ rank[i] = (N + 1) - i
      OBVIOUS
    <2>2. before[i] \in D /\ before[i] > i
      BY <1>1, <1>3, <2>1
    <2>3. rank[before[i]] = (N + 1) - before[i]
      BY <2>2
    <2> HIDE DEF before, rank
    <2>4. QED  BY <1>1, <2>1, <2>2, <2>3
  <1>7. \E f \in [D -> V] : \A i \in D : f[i] = IF i \in Ends0 THEN base[i] ELSE next1[i][f[before[i]]]
    <2> HIDE DEF D, V, rank, base, Ends0, before, next1
    <2>1. \A i \in D \ Ends0 : before[i] \in D /\ rank[before[i]] < rank[i]
      BY <1>6
    <2>2. Ends0 \in SUBSET D
      BY <1>1 DEF Ends0, D
    <2>3. ByRecursion(D, N, rank, V, base, Ends0, before, next1)
      BY <1>1, <1>4, <1>5, <2>1, <2>2 DEF ByRecursion
    <2>4. QED  BY <2>3, RecursionExists
  <1>8. PICK f \in [D -> V] : \A i \in D : f[i] = IF i \in Ends0 THEN base[i] ELSE next1[i][f[before[i]]]
    BY <1>7
  <1>9. f[N + 1] = <<>> /\ \A i \in 1 .. N : f[i] = <<UnitRune(s, i)>> \o f[i + UnitWidth(s, i)]
    <2>1. N + 1 \in D /\ base[N + 1] = <<>>
      BY <1>1
    <2>2. ASSUME NEW i \in 1 .. N PROVE f[i] = <<UnitRune(s, i)>> \o f[i + UnitWidth(s, i)]
      <3>0. i \in D \ Ends0
        BY <1>1
      <3>1. i \in D /\ i \notin Ends0 /\ before[i] = i + UnitWidth(s, i) /\ before[i] \in D
        <4>1. before[i] \in D
          BY <1>6, <3>0
        <4>2. QED  BY <3>0, <4>1
      <3>2. next1[i] = [v \in V |-> <<UnitRune(s, i)>> \o v]
        BY <3>1
      <3>3. f[before[i]] \in V
        BY <1>8, <3>1
      <3>4. next1[i][f[before[i]]] = <<UnitRune(s, i)>> \o f[before[i]]
        BY <3>2, <3>3
      <3> HIDE DEF before, next1, D, Ends0, base
      <3>5. f[i] = next1[i][f[before[i]]]
        BY <1>8, <3>1
      <3>6. QED  BY <3>1, <3>4, <3>5
    <2>3. QED  BY <1>8, <2>1, <2>2
  <1> DEFINE Rec(g) == g = [i \in 1 .. (Len(s) + 1) |->
               IF i > Len(s) THEN <<>>
               ELSE IF Paired(s, i) THEN <<utf16_decode_rune(s[i], s[i + 1])>> \o g[i + 2]
               ELSE <<IF s[i] \in Surrogates THEN RUNE_ERROR ELSE s[i]>> \o g[i + 1]]
  <1>10. Rec(f)
    <2>1. ASSUME NEW i \in D
          PROVE  f[i] = IF i > Len(s) THEN <<>>
                        ELSE <<UnitRune(s, i)>> \o f[i + UnitWidth(s, i)]
      BY <1>1, <1>9 DEF N
    <2>2. f = [i \in D |-> IF i > Len(s) THEN <<>> ELSE <<UnitRune(s, i)>> \o f[i + UnitWidth(s, i)]]
      BY <1>8, <2>1
    <2>3. QED  BY <2>2 DEF N, UnitRune, UnitWidth
  <1>11. Rec(UnitRunesFrom(s))
    BY <1>10 DEF UnitRunesFrom
  <1> DEFINE g == UnitRunesFrom(s)
  <1>12. g = [i \in D |-> IF i > Len(s) THEN <<>> ELSE <<UnitRune(s, i)>> \o g[i + UnitWidth(s, i)]]
    BY <1>11 DEF N, UnitRune, UnitWidth
  <1>13. utf16_decode(s) = g[1]
    BY DEF utf16_decode, UnitRunesFrom, Paired
  <1> HIDE DEF g, Rec
  <1>14. DOMAIN g = D /\ g[N + 1] = <<>> /\ \A i \in 1 .. N : g[i] = <<UnitRune(s, i)>> \o g[i + UnitWidth(s, i)]
    <2>1. \A i \in D : g[i] = IF i > Len(s) THEN <<>> ELSE <<UnitRune(s, i)>> \o g[i + UnitWidth(s, i)]
      BY <1>12
    <2>2. N + 1 \in D /\ N + 1 > Len(s) /\ \A i \in 1 .. N : i \in D /\ ~(i > Len(s))
      BY <1>1 DEF N
    <2>3. QED  BY <1>12, <2>1, <2>2
  <1>15. \A i \in D : g[i] = f[i]
    <2> DEFINE S == {i \in D : g[i] = f[i]}
    <2>1. ASSUME NEW i \in 1 .. N + 1, \A j \in i + 1 .. N + 1 : j \in S PROVE i \in S
      <3>1. CASE i = N + 1
        BY <1>9, <1>14, <3>1
      <3>2. CASE i # N + 1
        <4>1. i \in 1 .. N /\ i + UnitWidth(s, i) \in i + 1 .. N + 1
          BY <1>1, <1>3, <3>2
        <4>2. g[i + UnitWidth(s, i)] = f[i + UnitWidth(s, i)]
          BY <2>1, <4>1
        <4>3. QED  BY <1>9, <1>14, <4>1, <4>2
      <3>3. QED  BY <3>1, <3>2
    <2>2. 1 .. N + 1 \subseteq S
      <3> HIDE DEF S
      <3>1. QED  BY <1>1, <2>1, Backwards
    <2>3. QED  BY <2>2
  <1>16. g \in [D -> V]
    <2>1. DOMAIN g = D /\ \A i \in D : g[i] \in V
      BY <1>8, <1>14, <1>15
    <2>2. g = [i \in D |-> g[i]]
      BY <1>12, <2>1
    <2>3. QED  BY <2>1, <2>2
  <1>17. QED  BY <1>13, <1>14, <1>16 DEF g, N

-----------------------------------------------------------------------------
(* Every form holds what it may hold.                                      *)

\* Taking a part in place gives what taking it by copy gives.
LEMMA MutSliceIs ==
  ASSUME NEW s \in Seq(Byte), NEW i \in 0 .. Len(s), NEW j \in i .. Len(s)
  PROVE  mut_slice(s, i, j) = slice(s, i, j)
  <1>1. CASE i = j
    BY <1>1 DEF mut_slice, slice
  <1>2. CASE i # j
    <2>1. i + 1 \in 1 .. Len(s) /\ i < j /\ j <= Len(s) /\ Len(s) \in Nat
      BY <1>2
    <2>2. j - i \in 1 .. Len(s) - (i + 1) + 1 /\ 1 \in 1 .. Len(s) - (i + 1) + 1 /\ Len(s) \in 1 .. Len(s)
      BY <2>1
    <2>3. SubSeq(SubSeq(s, i + 1, Len(s)), 1, j - i) = SubSeq(s, (i + 1) + 1 - 1, (i + 1) + (j - i) - 1)
      BY <2>1, <2>2, SubSeqOfSubSeq
    <2>4. (i + 1) + 1 - 1 = i + 1 /\ (i + 1) + (j - i) - 1 = j
      BY <2>1
    <2>5. QED  BY <1>2, <2>3, <2>4 DEF mut_slice, slice
  <1>3. QED  BY <1>1, <1>2

\* The runes in front of the first zero.
Zeros(runes) == {i \in DOMAIN runes : runes[i] = 0}
Ahead(runes) == IF Zeros(runes) = {} THEN Len(runes)
                ELSE (CHOOSE i \in Zeros(runes) : \A j \in Zeros(runes) : i <= j) - 1

LEMMA AheadIs ==
  ASSUME NEW runes \in Seq(Int)
  PROVE  /\ Ahead(runes) \in 0 .. Len(runes)
         /\ \A k \in 1 .. Ahead(runes) : k \in 1 .. Len(runes) /\ runes[k] # 0
         /\ Ahead(runes) < Len(runes) => runes[Ahead(runes) + 1] = 0
  <1> DEFINE Z == Zeros(runes)
             n == Len(runes)
  <1>1. n \in Nat /\ DOMAIN runes = 1 .. n /\ Z \subseteq 1 .. n /\ \A k \in 1 .. n : k \in Z <=> runes[k] = 0
    BY DEF Zeros
  <1> HIDE DEF Z, n
  <1>2. CASE Z = {}
    <2>1. Ahead(runes) = n
      BY <1>2 DEF Ahead, Z, n
    <2>2. QED  BY <1>1, <1>2, <2>1 DEF n
  <1>3. CASE Z # {}
    <2> DEFINE m == CHOOSE i \in Z : \A j \in Z : i <= j
    <2>1. \E i \in Z : \A j \in Z : i <= j
      <3>1. Z \in SUBSET Nat
        BY <1>1
      <3>2. QED  BY <1>3, <3>1, LeastNat
    <2>2. m \in Z /\ \A j \in Z : m <= j
      BY <2>1
    <2>3. Ahead(runes) = m - 1
      BY <1>3 DEF Ahead, Z
    <2> HIDE DEF m
    <2>4. m \in 1 .. n /\ runes[m] = 0
      BY <1>1, <2>2
    <2>5. ASSUME NEW k \in 1 .. m - 1 PROVE k \in 1 .. n /\ runes[k] # 0
      <3>1. k \in 1 .. n /\ ~(m <= k)
        BY <1>1, <2>4
      <3>2. QED  BY <1>1, <2>2, <3>1
    <2>6. (m - 1) + 1 = m
      BY <2>4
    <2>7. QED  BY <1>1, <2>3, <2>4, <2>5, <2>6 DEF n
  <1>4. QED  BY <1>2, <1>3

LEMMA FirstRunes ==
  ASSUME NEW runes \in Seq(Int)
  PROVE  /\ SubSeq(runes, 1, Ahead(runes)) \in Seq(Int)
         /\ Len(SubSeq(runes, 1, Ahead(runes))) = Ahead(runes)
         /\ \A i \in 1 .. Ahead(runes) : SubSeq(runes, 1, Ahead(runes))[i] = runes[i]
  <1>1. Ahead(runes) \in Nat /\ Ahead(runes) <= Len(runes)
    BY AheadIs
  <1> DEFINE n == Ahead(runes)
  <1> HIDE DEF n
  <1>2. \A i \in 1 .. n : runes[i] \in Int
    BY <1>1 DEF n
  <1>3. SubSeq(runes, 1, n) \in Seq(Int)
    BY <1>1, <1>2, SubSeqProperties DEF n
  <1>4. Len(SubSeq(runes, 1, n)) = n
    BY <1>1, <1>2 DEF n
  <1>5. \A i \in 1 .. n : SubSeq(runes, 1, n)[i] = runes[i]
    BY <1>1, <1>2 DEF n
  <1>6. QED  BY <1>3, <1>4, <1>5 DEF n

LEMMA FromStrIs ==
  ASSUME NEW s \in Seq(Byte)
  PROVE  utf16_from_str(s)
           = utf16_append_runes(SubSeq(utf8_to_runes(s), 1, Ahead(utf8_to_runes(s)))) \o <<0>>
  <1> DEFINE runes == utf8_to_runes(s)
             front == SubSeq(runes, 1, Ahead(runes))
  <1>1. runes \in Seq(Int)
    BY DecodingFits
  <1>2. utf16_from_str(s) = utf16_append_rune(utf16_append_runes(front), 0)
    BY DEF utf16_from_str, Ahead, Zeros
  <1> HIDE DEF runes
  <1>3. front \in Seq(Int)
    BY <1>1, FirstRunes
  <1> HIDE DEF front
  <1>4. utf16_append_runes(front) \in Seq(Unit)
    BY <1>3, UnitsFit
  <1>5. IsValid(0) /\ ~(SURR_SELF <= 0)
    BY ValidIs, Bounds, SMT
  <1>6. UnitsOf(0) = <<0>>
    BY <1>5 DEF UnitsOf
  <1>7. 0 \in Int
    OBVIOUS
  <1>8. utf16_append_rune(utf16_append_runes(front), 0) = utf16_append_runes(front) \o UnitsOf(0)
    BY <1>4, <1>7, AppendRuneIs
  <1>9. QED  BY <1>2, <1>6, <1>8 DEF front, runes

LEMMA FromStrFits ==
  ASSUME NEW s \in Seq(Byte)
  PROVE  utf16_from_str(s) \in Seq(Unit)
  <1>1. utf8_to_runes(s) \in Seq(Int)
    BY DecodingFits
  <1>2. SubSeq(utf8_to_runes(s), 1, Ahead(utf8_to_runes(s))) \in Seq(Int)
    BY <1>1, FirstRunes
  <1> DEFINE u == utf16_append_runes(SubSeq(utf8_to_runes(s), 1, Ahead(utf8_to_runes(s))))
  <1>3. u \in Seq(Unit)
    BY <1>2, UnitsFit
  <1>4. utf16_from_str(s) = u \o <<0>>
    BY FromStrIs
  <1>5. 0 \in Unit
    BY UnitIs, Bounds, SMT
  <1> HIDE DEF u
  <1>6. <<0>> \in Seq(Unit)
    BY <1>5
  <1>7. u \o <<0>> \in Seq(Unit)
    BY <1>3, <1>6
  <1>8. QED  BY <1>4, <1>7

LEMMA EncodeFits ==
  ASSUME NEW runes \in Seq(Int)
  PROVE  utf16_encode(runes) \in Seq(Unit)
  <1> DEFINE T == {i \in DOMAIN runes : runes[i] >= SURR_SELF}
             room == Len(runes) + Cardinality(T)
             units == utf16_append_runes(runes)
             n == IF Len(units) < room THEN Len(units) ELSE room
  <1>1. Cardinality(T) \in Nat
    <2>1. IsFiniteSet(1 .. Len(runes))
      BY FS_Interval
    <2>2. T \subseteq 1 .. Len(runes)
      OBVIOUS
    <2>3. IsFiniteSet(T)
      BY <2>1, <2>2, FS_Subset
    <2>4. QED  BY <2>3, FS_CardinalityType
  <1>2. room \in Nat
    <2> HIDE DEF T
    <2>1. QED  BY <1>1
  <1>3. units \in Seq(Unit)
    BY UnitsFit
  <1>4. utf16_encode(runes) = SubSeq(units, 1, n)
    BY DEF utf16_encode
  <1> HIDE DEF room, units
  <1>5. n \in Nat /\ n <= Len(units)
    BY <1>2, <1>3
  <1> HIDE DEF n
  <1>6. \A i \in 1 .. n : units[i] \in Unit
    BY <1>3, <1>5
  <1>7. SubSeq(units, 1, n) \in Seq(Unit)
    BY <1>5, <1>6, SubSeqProperties
  <1>8. QED  BY <1>4, <1>7

LEMMA DecodeFits ==
  ASSUME NEW w \in Seq(Unit)
  PROVE  utf16_decode(w) \in Seq(Int)
  <1>1. 1 \in 1 .. Len(w) + 1
    OBVIOUS
  <1>2. QED  BY <1>1, UnitRunesAre
-----------------------------------------------------------------------------
(* Type correctness.                                                       *)

\* A text in each form.
Typed(f, v) == v \in Seq(CASE f = "str" -> Byte [] f = "runes" -> Int [] OTHER -> Unit)

LEMMA TypedIs ==
  ASSUME NEW v
  PROVE  /\ Typed("str", v) <=> v \in Seq(Byte)
         /\ Typed("runes", v) <=> v \in Seq(Int)
         /\ Typed("units", v) <=> v \in Seq(Unit)
         /\ Typed("ended", v) <=> v \in Seq(Unit)
  BY DEF Typed

LEMMA Becoming ==
  ASSUME NEW f \in {"str", "runes", "units"}, NEW v, Becomes(f, v), Typed(f, v)
  PROVE  TextOK'
  <1>1. form' = f /\ value' = v
    BY DEF Becomes
  <1>2. form' \in {"str", "runes", "units", "ended"}
    BY <1>1
  <1>3. value' \in Seq(CASE form' = "str" -> Byte [] form' = "runes" -> Int [] OTHER -> Unit)
    BY <1>1 DEF Typed
  <1>4. QED  BY <1>2, <1>3 DEF TextOK

LEMMA Panicking ==
  ASSUME NEW indexes, Panic(indexes)
  PROVE  TextOK'
  <1>1. form' = "ended" /\ value' = <<>>
    BY DEF Panic
  <1>2. Typed("ended", <<>>)
    <2>1. <<>> \in Seq(Unit)
      OBVIOUS
    <2>2. QED  BY <2>1, TypedIs
  <1>3. form' \in {"str", "runes", "units", "ended"}
    BY <1>1
  <1>4. value' \in Seq(CASE form' = "str" -> Byte [] form' = "runes" -> Int [] OTHER -> Unit)
    BY <1>1, <1>2 DEF Typed
  <1>5. QED  BY <1>3, <1>4 DEF TextOK

LEMMA TypesKept ==
  ASSUME TextOK, [TextNext]_textVars
  PROVE  TextOK'
  <1>1. Typed(form, value)
    BY DEF TextOK, Typed
  <1>2. /\ form = "str" => value \in Seq(Byte)
        /\ form = "runes" => value \in Seq(Int)
        /\ form = "units" => value \in Seq(Unit)
    BY <1>1, TypedIs
  <1>3. RunesUsed \subseteq Int /\ BytesUsed \subseteq Byte /\ UnitsUsed \subseteq Unit /\ Indexes \subseteq Int
    BY TextAssumption
  <1>4. ASSUME NEW r \in RunesUsed, AppendRune(r) PROVE TextOK'
    <2>1. r \in Int /\ value \in Seq(Byte) /\ Becomes("str", value \o utf8_push_rune_bytes(r))
      BY <1>2, <1>3, <1>4 DEF AppendRune
    <2>2. utf8_push_rune_bytes(r) \in Seq(Byte)
      BY <2>1, PushFits
    <2>3. value \o utf8_push_rune_bytes(r) \in Seq(Byte)
      BY <2>1, <2>2
    <2>4. QED  BY <2>1, <2>3, TypedIs, Becoming
  <1>5. ASSUME NEW r \in RunesUsed, PushRune(r) PROVE TextOK'
    <2>1. r \in Int /\ value \in Seq(Int) /\ Becomes("runes", Append(value, r))
      BY <1>2, <1>3, <1>5 DEF PushRune
    <2>2. Append(value, r) \in Seq(Int)
      BY <2>1
    <2>3. QED  BY <2>1, <2>2, TypedIs, Becoming
  <1>6. ASSUME NEW b \in BytesUsed, AppendByte(b) PROVE TextOK'
    <2>1. b \in Byte /\ value \in Seq(Byte) /\ Becomes("str", Append(value, b))
      BY <1>2, <1>3, <1>6 DEF AppendByte
    <2>2. Append(value, b) \in Seq(Byte)
      BY <2>1
    <2>3. QED  BY <2>1, <2>2, TypedIs, Becoming
  <1>7. ASSUME NEW u \in UnitsUsed, PushUnit(u) PROVE TextOK'
    <2>1. u \in Unit /\ value \in Seq(Unit) /\ Becomes("units", Append(value, u))
      BY <1>2, <1>3, <1>7 DEF PushUnit
    <2>2. Append(value, u) \in Seq(Unit)
      BY <2>1
    <2>3. QED  BY <2>1, <2>2, TypedIs, Becoming
  <1>8. ASSUME Double PROVE TextOK'
    <2>1. value \in Seq(Byte) /\ Becomes("str", value \o value)
      BY <1>2, <1>8 DEF Double
    <2>2. value \o value \in Seq(Byte)
      BY <2>1
    <2>3. QED  BY <2>1, <2>2, TypedIs, Becoming
  <1>9. ASSUME DropUnit PROVE TextOK'
    <2>1. value \in Seq(Unit) /\ value # <<>> /\ Becomes("units", Front(value))
      BY <1>2, <1>9 DEF DropUnit
    <2>2. Front(value) \in Seq(Unit)
      <3> DEFINE n == Len(value) - 1
      <3>1. n \in Int /\ \A i \in 1 .. n : value[i] \in Unit
        BY <2>1
      <3>2. Front(value) = SubSeq(value, 1, n)
        BY DEF Front
      <3> HIDE DEF n
      <3>3. QED  BY <3>1, <3>2, SubSeqProperties
    <2>3. QED  BY <2>1, <2>2, TypedIs, Becoming
  <1>10. ASSUME NEW i \in Indexes, NEW b \in BytesUsed, At(i, b) PROVE TextOK'
    <2>1. CASE value = <<>> \/ i < 0 \/ Len(value) <= i
      <3>1. Panic(<<i>>)
        BY <1>10, <2>1 DEF At
      <3>2. QED  BY <3>1, Panicking
    <2>2. CASE ~(value = <<>> \/ i < 0 \/ Len(value) <= i)
      <3>1. b \in Byte /\ value \in Seq(Byte) /\ Becomes("str", [value EXCEPT ![i + 1] = b])
        BY <1>2, <1>3, <1>10, <2>2 DEF At
      <3>2. [value EXCEPT ![i + 1] = b] \in Seq(Byte)
        <4>1. i \in Int /\ ~(i < 0) /\ ~(Len(value) <= i)
          BY <1>3, <2>2
        <4>2. i + 1 \in 1 .. Len(value)
          BY <3>1, <4>1
        <4>3. QED  BY <3>1, <4>2, ExceptSeq
      <3>3. QED  BY <3>1, <3>2, TypedIs, Becoming
    <2>3. QED  BY <2>1, <2>2
  <1>11. ASSUME NEW i \in Indexes, NEW j \in Indexes, Alloc(i, j) PROVE TextOK'
    <2>1. CASE i < 0 \/ j < 0 \/ i > j
      <3>1. Panic(<<>>)
        BY <1>11, <2>1 DEF Alloc
      <3>2. QED  BY <3>1, Panicking
    <2>2. CASE ~(i < 0 \/ j < 0 \/ i > j)
      <3>1. i \in Nat /\ Becomes("str", [k \in 1 .. i |-> 0])
        BY <1>3, <1>11, <2>2 DEF Alloc
      <3>2. 0 \in Byte
        BY DEF Byte
      <3>3. [k \in 1 .. i |-> 0] \in Seq(Byte)
        BY <3>1, <3>2
      <3>4. QED  BY <3>1, <3>3, TypedIs, Becoming
    <2>3. QED  BY <2>1, <2>2
  <1>12. ASSUME NEW i \in Indexes, NEW j \in Indexes, form = "str", ~OutOfRange(value, i, j)
         PROVE  i \in 0 .. Len(value) /\ j \in i .. Len(value)
    <2>1. value \in Seq(Byte) /\ i \in Int /\ j \in Int
      BY <1>2, <1>3, <1>12
    <2>2. QED  BY <1>12, <2>1 DEF OutOfRange
  <1>13. ASSUME NEW i \in Indexes, NEW j \in Indexes, Slice(i, j) PROVE TextOK'
    <2>1. CASE OutOfRange(value, i, j)
      <3>1. Panic(<<i, j>>)
        BY <1>13, <2>1 DEF Slice
      <3>2. QED  BY <3>1, Panicking
    <2>2. CASE ~OutOfRange(value, i, j)
      <3>1. form = "str" /\ value \in Seq(Byte) /\ Becomes("str", slice(value, i, j))
        BY <1>2, <1>13, <2>2 DEF Slice
      <3>2. slice(value, i, j) \in Seq(Byte)
        BY <1>12, <2>2, <3>1, SliceIs
      <3>3. QED  BY <3>1, <3>2, TypedIs, Becoming
    <2>3. QED  BY <2>1, <2>2
  <1>14. ASSUME NEW i \in Indexes, NEW j \in Indexes, MutSlice(i, j) PROVE TextOK'
    <2>1. CASE OutOfRange(value, i, j)
      <3>1. Panic(<<i, j>>)
        BY <1>14, <2>1 DEF MutSlice
      <3>2. QED  BY <3>1, Panicking
    <2>2. CASE ~OutOfRange(value, i, j)
      <3>1. form = "str" /\ value \in Seq(Byte) /\ Becomes("str", mut_slice(value, i, j))
        BY <1>2, <1>14, <2>2 DEF MutSlice
      <3>2. mut_slice(value, i, j) = slice(value, i, j) /\ slice(value, i, j) \in Seq(Byte)
        BY <1>12, <2>2, <3>1, SliceIs, MutSliceIs
      <3>3. QED  BY <3>1, <3>2, TypedIs, Becoming
    <2>3. QED  BY <2>1, <2>2
  <1>15. ASSUME ToRunes PROVE TextOK'
    BY <1>2, <1>15, DecodingFits, TypedIs, Becoming DEF ToRunes
  <1>16. ASSUME FromRunes PROVE TextOK'
    BY <1>2, <1>16, EncodingFits, TypedIs, Becoming DEF FromRunes
  <1>17. ASSUME ToUnits PROVE TextOK'
    BY <1>2, <1>17, FromStrFits, TypedIs, Becoming DEF ToUnits
  <1>18. ASSUME Encode PROVE TextOK'
    BY <1>2, <1>18, EncodeFits, TypedIs, Becoming DEF Encode
  <1>19. ASSUME Decode PROVE TextOK'
    BY <1>2, <1>19, DecodeFits, TypedIs, Becoming DEF Decode
  <1>20. ASSUME FromUnits PROVE TextOK'
    <2>1. value \in Seq(Unit) /\ Becomes("str", runes_to_utf8(utf16_decode(value)))
      BY <1>2, <1>20 DEF FromUnits, utf16_to_utf8_str
    <2>2. utf16_decode(value) \in Seq(Int)
      BY <2>1, DecodeFits
    <2>3. runes_to_utf8(utf16_decode(value)) \in Seq(Byte)
      BY <2>2, EncodingFits
    <2>4. QED  BY <2>1, <2>3, TypedIs, Becoming
  <1>21. ASSUME UNCHANGED textVars PROVE TextOK'
    BY <1>21 DEF textVars, TextOK
  <1>22. QED  BY <1>4, <1>5, <1>6, <1>7, <1>8, <1>9, <1>10, <1>11, <1>13, <1>14, <1>15, <1>16,
                 <1>17, <1>18, <1>19, <1>20, <1>21 DEF TextNext

\* A text always is what its form says: bytes, runes or units.
THEOREM TextTyped == TextSpec => []TextOK
  <1>1. TextInit => TextOK
    BY DEF TextInit, TextOK
  <1>2. TextOK /\ [TextNext]_textVars => TextOK'
    BY TypesKept
  <1>3. QED  BY <1>1, <1>2, PTL DEF TextSpec

\* The comparisons of strings agree with each other, and strings without
\* damaged bytes are ordered as their bytes are: the order of the runes is
\* that of their encodings.
THEOREM OrderAgreesHolds == TextSpec => []OrderAgrees
  <1>1. TextOK => OrderAgrees
    <2>1. ASSUME TextOK PROVE form = "str" => value \in Seq(Byte)
      BY <2>1 DEF TextOK
    <2>2. QED  BY <2>1, CutsInOrder
  <1>2. QED  BY <1>1, TextTyped, PTL
-----------------------------------------------------------------------------
(* Strings put together are read one after the other.                      *)

\* The decoder sees nothing but the bytes from where it stands.
LEMMA SameView ==
  ASSUME NEW s \in Seq(Byte), NEW t \in Seq(Byte), NEW i \in 1 .. Len(s), NEW j \in 1 .. Len(t),
         Len(s) - i = Len(t) - j, \A k \in 0 .. Len(s) - i : s[i + k] = t[j + k]
  PROVE  /\ Width(s, i) = Width(t, j) /\ RuneAt(s, i) = RuneAt(t, j)
         /\ IsNone(s, i) <=> IsNone(t, j)
  <1>1. Len(s) \in Nat /\ Len(t) \in Nat /\ i \in Int /\ j \in Int /\ i <= Len(s)
    OBVIOUS
  <1> DEFINE n == Len(s)
             m == Len(t)
  <1>2. n \in Nat /\ m \in Nat /\ i <= n /\ n - i = m - j
    BY <1>1
  <1>3. ASSUME NEW k \in {1, 2, 3} PROVE i + k <= n <=> j + k <= m
    BY <1>1, <1>2
  <1>4. s[i] = t[j]
    <2>1. 0 \in 0 .. n - i /\ i + 0 = i /\ j + 0 = j
      BY <1>1, <1>2
    <2>2. QED  BY <2>1
  <1>5. ASSUME NEW k \in {1, 2, 3}, i + k <= n PROVE s[i + k] = t[j + k]
    <2>1. k \in 0 .. Len(s) - i
      BY <1>1, <1>5
    <2>2. QED  BY <2>1
  <1>6. (i + 2 <= n => i + 1 <= n) /\ (i + 3 <= n => i + 2 <= n /\ i + 1 <= n)
    BY <1>1, <1>2
  <1>7. Is1(s, i) <=> Is1(t, j)
    BY <1>4 DEF Is1
  <1>8. Is2(s, i) <=> Is2(t, j)
    <2>1. i + 1 <= Len(s) <=> j + 1 <= Len(t)
      BY <1>3
    <2>2. i + 1 <= Len(s) => s[i + 1] = t[j + 1]
      BY <1>5
    <2>3. QED  BY <1>4, <2>1, <2>2 DEF Is2
  <1>9. Is3(s, i) <=> Is3(t, j)
    <2>1. i + 2 <= Len(s) <=> j + 2 <= Len(t)
      BY <1>3
    <2>2. i + 2 <= Len(s) => s[i + 1] = t[j + 1] /\ s[i + 2] = t[j + 2]
      BY <1>5, <1>6
    <2>3. QED  BY <1>4, <2>1, <2>2 DEF Is3
  <1>10. Is4(s, i) <=> Is4(t, j)
    <2>1. i + 3 <= Len(s) <=> j + 3 <= Len(t)
      BY <1>3
    <2>2. i + 3 <= Len(s) => s[i + 1] = t[j + 1] /\ s[i + 2] = t[j + 2] /\ s[i + 3] = t[j + 3]
      BY <1>5, <1>6
    <2>3. QED  BY <1>4, <2>1, <2>2 DEF Is4
  <1>11. IsNone(s, i) <=> IsNone(t, j)
    BY <1>7, <1>8, <1>9, <1>10 DEF IsNone
  <1>12. CASE Is1(s, i)
    BY <1>4, <1>7, <1>11, <1>12, StepIs
  <1>13. CASE Is2(s, i)
    <2>1. s[i + 1] = t[j + 1]
      BY <1>5, <1>13 DEF Is2
    <2>2. QED  BY <1>4, <1>8, <1>11, <1>13, <2>1, StepIs
  <1>14. CASE Is3(s, i)
    <2>1. s[i + 1] = t[j + 1] /\ s[i + 2] = t[j + 2]
      BY <1>5, <1>6, <1>14 DEF Is3
    <2>2. QED  BY <1>4, <1>9, <1>11, <1>14, <2>1, StepIs
  <1>15. CASE Is4(s, i)
    <2>1. s[i + 1] = t[j + 1] /\ s[i + 2] = t[j + 2] /\ s[i + 3] = t[j + 3]
      BY <1>5, <1>6, <1>15 DEF Is4
    <2>2. QED  BY <1>4, <1>10, <1>11, <1>15, <2>1, StepIs
  <1>16. CASE IsNone(s, i)
    BY <1>11, <1>16, StepIs
  <1>17. QED  BY <1>12, <1>13, <1>14, <1>15, <1>16 DEF IsNone

LEMMA Behind ==
  ASSUME NEW p \in Seq(Byte), NEW t \in Seq(Byte)
  PROVE  /\ p \o t \in Seq(Byte) /\ Len(p \o t) = Len(p) + Len(t)
         /\ \A i \in 1 .. Len(t) : /\ Len(p) + i \in 1 .. Len(p \o t)
                                   /\ Width(p \o t, Len(p) + i) = Width(t, i)
                                   /\ RuneAt(p \o t, Len(p) + i) = RuneAt(t, i)
                                   /\ IsNone(p \o t, Len(p) + i) <=> IsNone(t, i)
  <1> DEFINE s == p \o t
  <1>1. /\ s \in Seq(Byte) /\ Len(s) = Len(p) + Len(t)
        /\ \A i \in 1 .. Len(p) + Len(t) : s[i] = IF i <= Len(p) THEN p[i] ELSE t[i - Len(p)]
    BY ConcatProperties
  <1>2. Len(p) \in Nat /\ Len(t) \in Nat
    OBVIOUS
  <1> HIDE DEF s
  <1>3. ASSUME NEW i \in 1 .. Len(t)
        PROVE  /\ Len(p) + i \in 1 .. Len(s)
               /\ Width(s, Len(p) + i) = Width(t, i) /\ RuneAt(s, Len(p) + i) = RuneAt(t, i)
               /\ IsNone(s, Len(p) + i) <=> IsNone(t, i)
    <2> DEFINE j == Len(p) + i
    <2>1. j \in 1 .. Len(s) /\ Len(s) - j = Len(t) - i /\ j \in Int /\ i \in Int
      BY <1>1, <1>2
    <2>2. ASSUME NEW k \in 0 .. Len(s) - j PROVE s[j + k] = t[i + k]
      <3>1. j + k \in 1 .. Len(p) + Len(t) /\ ~(j + k <= Len(p)) /\ (j + k) - Len(p) = i + k
        BY <1>1, <1>2, <2>1
      <3>2. QED  BY <1>1, <3>1
    <2> HIDE DEF j
    <2>3. Width(s, j) = Width(t, i) /\ RuneAt(s, j) = RuneAt(t, i) /\ (IsNone(s, j) <=> IsNone(t, i))
      BY <1>1, <2>1, <2>2, SameView
    <2>4. QED  BY <2>1, <2>3 DEF j
  <1>4. QED  BY <1>1, <1>3 DEF s

LEMMA RunesShift ==
  ASSUME NEW p \in Seq(Byte), NEW t \in Seq(Byte)
  PROVE  \A i \in 1 .. Len(t) + 1 : RunesFrom(p \o t)[Len(p) + i] = RunesFrom(t)[i]
  <1> DEFINE s == p \o t
             f == RunesFrom(s)
             g == RunesFrom(t)
             N == Len(t)
             S == {i \in 1 .. N + 1 : f[Len(p) + i] = g[i]}
  <1>1. /\ s \in Seq(Byte) /\ Len(s) = Len(p) + Len(t) /\ N \in Nat /\ Len(p) \in Nat
        /\ \A i \in 1 .. N : /\ Len(p) + i \in 1 .. Len(s)
                             /\ Width(s, Len(p) + i) = Width(t, i)
                             /\ RuneAt(s, Len(p) + i) = RuneAt(t, i)
    BY Behind
  <1>2. ASSUME NEW i \in 1 .. N + 1, \A j \in i + 1 .. N + 1 : j \in S PROVE i \in S
    <2>1. CASE i = N + 1
      <3>1. f[Len(s) + 1] = <<>> /\ g[N + 1] = <<>>
        BY <1>1, RunesAre
      <3>2. Len(p) + i = Len(s) + 1
        BY <1>1, <2>1
      <3>3. QED  BY <2>1, <3>1, <3>2
    <2>2. CASE i # N + 1
      <3>1. i \in 1 .. N
        BY <1>1, <2>2
      <3> DEFINE w == Width(t, i)
      <3>2. w \in 1 .. 4 /\ i + w \in i + 1 .. N + 1
        BY <3>1, StepFits
      <3>3. Len(p) + i \in 1 .. Len(s) /\ Width(s, Len(p) + i) = w /\ RuneAt(s, Len(p) + i) = RuneAt(t, i)
        BY <1>1, <3>1
      <3>4. f[Len(p) + i] = <<RuneAt(s, Len(p) + i)>> \o f[(Len(p) + i) + w]
        BY <1>1, <3>3, RunesAre
      <3>5. g[i] = <<RuneAt(t, i)>> \o g[i + w]
        BY <3>1, RunesAre
      <3>6. i + w \in S
        BY <1>2, <3>2
      <3>7. (Len(p) + i) + w = Len(p) + (i + w)
        <4>1. w \in Int /\ i \in Int /\ Len(p) \in Int
          BY <1>1, <3>1, <3>2
        <4> HIDE DEF w
        <4>2. QED  BY <4>1
      <3> HIDE DEF f, g, s, w
      <3>8. QED  BY <3>3, <3>4, <3>5, <3>6, <3>7
    <2>3. QED  BY <2>1, <2>2
  <1>3. 1 .. N + 1 \subseteq S
    <2> HIDE DEF S, N
    <2>1. QED  BY <1>1, <1>2, Backwards
  <1>4. QED  BY <1>3

\* A rune in front of a string is read in front of the runes of the string.
LEMMA ReadOne ==
  ASSUME NEW p \in Seq(Byte), NEW t \in Seq(Byte), Len(p) >= 1, Width(p \o t, 1) = Len(p)
  PROVE  utf8_to_runes(p \o t) = <<RuneAt(p \o t, 1)>> \o utf8_to_runes(t)
  <1> DEFINE s == p \o t
  <1>1. s \in Seq(Byte) /\ Len(s) = Len(p) + Len(t) /\ Len(p) \in Nat /\ Len(t) \in Nat
    OBVIOUS
  <1>2. 1 \in 1 .. Len(s) /\ 1 \in 1 .. Len(t) + 1
    BY <1>1
  <1>3. RunesFrom(s)[1] = <<RuneAt(s, 1)>> \o RunesFrom(s)[1 + Width(s, 1)]
    BY <1>1, <1>2, RunesAre
  <1>4. RunesFrom(s)[Len(p) + 1] = RunesFrom(t)[1]
    BY <1>2, RunesShift
  <1>5. 1 + Width(s, 1) = Len(p) + 1
    BY <1>1
  <1>6. utf8_to_runes(s) = RunesFrom(s)[1] /\ utf8_to_runes(t) = RunesFrom(t)[1]
    BY <1>1, RunesAre
  <1>7. QED  BY <1>3, <1>4, <1>5, <1>6

\* A damaged byte in front of a string is read as an error.
LEMMA ReadNone ==
  ASSUME NEW b \in Byte, NEW t \in Seq(Byte), IsNone(<<b>> \o t, 1)
  PROVE  utf8_to_runes(<<b>> \o t) = <<RUNE_ERROR>> \o utf8_to_runes(t)
  <1> DEFINE p == <<b>>
  <1>1. p \in Seq(Byte) /\ Len(p) = 1
    OBVIOUS
  <1> HIDE DEF p
  <1>2. p \o t \in Seq(Byte) /\ 1 \in 1 .. Len(p \o t)
    <2>1. p \o t \in Seq(Byte) /\ Len(p \o t) = Len(p) + Len(t)
      BY <1>1, ConcatProperties
    <2>2. Len(t) \in Nat
      OBVIOUS
    <2>3. QED  BY <1>1, <2>1, <2>2
  <1>3. Width(p \o t, 1) = 1 /\ RuneAt(p \o t, 1) = RUNE_ERROR
    BY <1>2, StepIs DEF p
  <1>4. utf8_to_runes(p \o t) = <<RuneAt(p \o t, 1)>> \o utf8_to_runes(t)
    <2>1. Len(p) >= 1 /\ Width(p \o t, 1) = Len(p)
      BY <1>1, <1>3
    <2>2. QED  BY <1>1, <2>1, ReadOne
  <1>5. QED  BY <1>3, <1>4 DEF p

\* A byte that can only be in the middle is one.
LEMMA MiddleIsNone ==
  ASSUME NEW s \in Seq(Byte), NEW i \in 1 .. Len(s), NEW b \in 128 .. 191, s[i] = b
  PROVE  IsNone(s, i) /\ Width(s, i) = 1
  <1>1. b \in Int /\ 128 <= b /\ b <= 191
    OBVIOUS
  <1>2. ~(b < 128) /\ b \notin 194 .. 223 /\ b \notin 224 .. 239 /\ b \notin 240 .. 244
    BY <1>1
  <1>3. ~Is1(s, i) /\ ~Is2(s, i) /\ ~Is3(s, i) /\ ~Is4(s, i)
    BY <1>2 DEF Is1, Is2, Is3, Is4, Two, Three, Four
  <1>4. IsNone(s, i)
    BY <1>3 DEF IsNone
  <1>5. QED  BY <1>4, StepIs

LEMMA ReadMiddle ==
  ASSUME NEW b \in Byte, b \in 128 .. 191, NEW t \in Seq(Byte)
  PROVE  utf8_to_runes(<<b>> \o t) = <<RUNE_ERROR>> \o utf8_to_runes(t)
  <1>1. <<b>> \o t \in Seq(Byte) /\ 1 \in 1 .. Len(<<b>> \o t) /\ (<<b>> \o t)[1] = b
    OBVIOUS
  <1>2. IsNone(<<b>> \o t, 1)
    BY <1>1, MiddleIsNone
  <1>3. QED  BY <1>2, ReadNone
\* A window of the decoder in front of a string is read as its rune.
LEMMA ReadOf1 ==
  ASSUME NEW r \in Byte, r < 128, NEW t \in Seq(Byte)
  PROVE  utf8_to_runes(<<r>> \o t) = <<r>> \o utf8_to_runes(t)
  <1> DEFINE p == <<r>>
             s == p \o t
  <1>1. p \in Seq(Byte) /\ Len(p) = 1 /\ Len(t) \in Nat
    OBVIOUS
  <1>2. s \in Seq(Byte) /\ Len(s) = Len(p) + Len(t)
    BY <1>1, ConcatProperties
  <1>3. 1 \in 1 .. Len(s)
    BY <1>1, <1>2
  <1>4. s[1] = r
    OBVIOUS
  <1>5. Is1(s, 1)
    BY <1>4 DEF Is1
  <1> HIDE DEF s
  <1>6. Width(s, 1) = 1 /\ RuneAt(s, 1) = r
    BY <1>2, <1>3, <1>4, <1>5, StepIs
  <1>7. Len(p) >= 1 /\ Width(s, 1) = Len(p)
    BY <1>1, <1>6
  <1> HIDE DEF p
  <1>8. utf8_to_runes(s) = <<RuneAt(s, 1)>> \o utf8_to_runes(t)
    BY <1>1, <1>7, ReadOne DEF s
  <1>9. QED  BY <1>6, <1>8 DEF s, p

LEMMA ReadOf2 ==
  ASSUME NEW b \in Byte, NEW c \in Byte, Two(b, c), NEW t \in Seq(Byte)
  PROVE  utf8_to_runes(<<b, c>> \o t) = <<Of2(b, c)>> \o utf8_to_runes(t)
  <1> DEFINE p == <<b, c>>
             s == p \o t
  <1>1. p \in Seq(Byte) /\ Len(p) = 2 /\ Len(t) \in Nat
    OBVIOUS
  <1>2. s \in Seq(Byte) /\ Len(s) = Len(p) + Len(t)
    BY <1>1, ConcatProperties
  <1>3. 1 \in 1 .. Len(s) /\ 1 + 1 <= Len(s)
    BY <1>1, <1>2
  <1>4. s[1] = b /\ s[1 + 1] = c
    OBVIOUS
  <1>5. Is2(s, 1)
    BY <1>3, <1>4 DEF Is2
  <1> HIDE DEF s
  <1>6. Width(s, 1) = 2 /\ RuneAt(s, 1) = Of2(b, c)
    BY <1>2, <1>3, <1>4, <1>5, StepIs
  <1>7. Len(p) >= 1 /\ Width(s, 1) = Len(p)
    BY <1>1, <1>6
  <1> HIDE DEF p
  <1>8. utf8_to_runes(s) = <<RuneAt(s, 1)>> \o utf8_to_runes(t)
    BY <1>1, <1>7, ReadOne DEF s
  <1>9. QED  BY <1>6, <1>8 DEF s, p

LEMMA ReadOf3 ==
  ASSUME NEW b \in Byte, NEW c \in Byte, NEW d \in Byte, Three(b, c, d), NEW t \in Seq(Byte)
  PROVE  utf8_to_runes(<<b, c, d>> \o t) = <<Of3(b, c, d)>> \o utf8_to_runes(t)
  <1> DEFINE p == <<b, c, d>>
             s == p \o t
  <1>1. p \in Seq(Byte) /\ Len(p) = 3 /\ Len(t) \in Nat
    OBVIOUS
  <1>2. s \in Seq(Byte) /\ Len(s) = Len(p) + Len(t)
    BY <1>1, ConcatProperties
  <1>3. 1 \in 1 .. Len(s) /\ 1 + 2 <= Len(s)
    BY <1>1, <1>2
  <1>4. s[1] = b /\ s[1 + 1] = c /\ s[1 + 2] = d
    OBVIOUS
  <1>5. Is3(s, 1)
    BY <1>3, <1>4 DEF Is3
  <1> HIDE DEF s
  <1>6. Width(s, 1) = 3 /\ RuneAt(s, 1) = Of3(b, c, d)
    BY <1>2, <1>3, <1>4, <1>5, StepIs
  <1>7. Len(p) >= 1 /\ Width(s, 1) = Len(p)
    BY <1>1, <1>6
  <1> HIDE DEF p
  <1>8. utf8_to_runes(s) = <<RuneAt(s, 1)>> \o utf8_to_runes(t)
    BY <1>1, <1>7, ReadOne DEF s
  <1>9. QED  BY <1>6, <1>8 DEF s, p

Reads4(b, c, d, e, t) == utf8_to_runes(<<b, c, d, e>> \o t) = <<Of4(b, c, d, e)>> \o utf8_to_runes(t)

LEMMA ReadOf4 ==
  ASSUME NEW b \in Byte, NEW c \in Byte, NEW d \in Byte, NEW e \in Byte, Four(b, c, d, e), NEW t \in Seq(Byte)
  PROVE  Reads4(b, c, d, e, t)
  <1> DEFINE p == <<b, c, d, e>>
             s == p \o t
  <1>1. p \in Seq(Byte) /\ Len(p) = 4 /\ Len(t) \in Nat
    OBVIOUS
  <1>2. s \in Seq(Byte) /\ Len(s) = Len(p) + Len(t)
    BY <1>1, ConcatProperties
  <1>3. 1 \in 1 .. Len(s) /\ 1 + 3 <= Len(s)
    BY <1>1, <1>2
  <1>4. s[1] = b /\ s[1 + 1] = c /\ s[1 + 2] = d /\ s[1 + 3] = e
    OBVIOUS
  <1>5. Is4(s, 1)
    BY <1>3, <1>4 DEF Is4
  <1> HIDE DEF s
  <1>6. Width(s, 1) = 4 /\ RuneAt(s, 1) = Of4(b, c, d, e)
    BY <1>2, <1>3, <1>4, <1>5, StepIs
  <1>7. Len(p) >= 1 /\ Width(s, 1) = Len(p)
    BY <1>1, <1>6
  <1> HIDE DEF p
  <1>8. utf8_to_runes(s) = <<RuneAt(s, 1)>> \o utf8_to_runes(t)
    BY <1>1, <1>7, ReadOne DEF s
  <1>9. QED  BY <1>6, <1>8 DEF s, p, Reads4

FirstFails(b, c, t) == utf8_to_runes(<<b>> \o (<<c>> \o t)) = <<RUNE_ERROR>> \o utf8_to_runes(<<c>> \o t)

\* The first byte of U+07FF and of a number that is too large announces
\* another second byte.
LEMMA ReadFirst ==
  ASSUME NEW b, NEW c, NEW t \in Seq(Byte),
         \/ b = 224 /\ c = 159
         \/ b = 240 /\ c = 143
  PROVE  FirstFails(b, c, t)
  <1> DEFINE u == <<c>> \o t
             s == <<b>> \o u
  <1>1. b \in Byte /\ c \in Byte
    BY DEF Byte
  <1>2. <<b>> \in Seq(Byte) /\ <<c>> \in Seq(Byte) /\ Len(<<b>>) = 1 /\ Len(<<c>>) = 1
    BY <1>1
  <1>3. u \in Seq(Byte) /\ u[1] = c /\ Len(u) >= 1
    BY <1>2
  <1> HIDE DEF u
  <1>4. s \in Seq(Byte) /\ s[1] = b /\ s[1 + 1] = c
    BY <1>2, <1>3
  <1> HIDE DEF s
  <1>5. ~Is1(s, 1) /\ ~Is2(s, 1) /\ ~Is3(s, 1) /\ ~Is4(s, 1)
    <2>1. CASE b = 224 /\ c = 159
      BY <1>4, <2>1 DEF Is1, Is2, Is3, Is4, Two, Three, Four
    <2>2. CASE b = 240 /\ c = 143
      BY <1>4, <2>2 DEF Is1, Is2, Is3, Is4, Two, Three, Four
    <2>3. QED  BY <2>1, <2>2
  <1>6. IsNone(s, 1)
    BY <1>5 DEF IsNone
  <1>7. QED  BY <1>1, <1>3, <1>6, ReadNone DEF s, u, FirstFails
\* A tuple in front of a sequence is its components, one after the other.
LEMMA Unfold2 ==
  ASSUME NEW S, NEW a \in S, NEW b \in S, NEW x \in Seq(S)
  PROVE  <<a, b>> \o x = <<a>> \o (<<b>> \o x) /\ <<b>> \o x \in Seq(S)
  <1>1. <<a>> \in Seq(S) /\ <<b>> \in Seq(S)
    OBVIOUS
  <1>2. <<a, b>> = <<a>> \o <<b>>
    <2>1. Append(<<a>>, b) = <<a>> \o <<b>>
      BY <1>1, AppendIsConcat
    <2>2. <<a, b>> = Append(<<a>>, b)
      OBVIOUS
    <2>3. QED  BY <2>1, <2>2
  <1>3. (<<a>> \o <<b>>) \o x = <<a>> \o (<<b>> \o x)
    BY <1>1, ConcatAssociative
  <1>4. <<b>> \o x \in Seq(S)
    BY <1>1, ConcatProperties
  <1>5. QED  BY <1>2, <1>3, <1>4

Unfolded3(a, b, c, x) == <<a, b, c>> \o x = <<a>> \o (<<b>> \o (<<c>> \o x))

LEMMA Unfold3 ==
  ASSUME NEW S, NEW a \in S, NEW b \in S, NEW c \in S, NEW x \in Seq(S)
  PROVE  Unfolded3(a, b, c, x)
  <1>1. <<a>> \in Seq(S) /\ <<b, c>> \in Seq(S)
    OBVIOUS
  <1>2. <<a, b, c>> = <<a>> \o <<b, c>>
    OBVIOUS
  <1>3. (<<a>> \o <<b, c>>) \o x = <<a>> \o (<<b, c>> \o x)
    BY <1>1, ConcatAssociative
  <1>4. <<b, c>> \o x \in Seq(S)
    BY <1>1, ConcatProperties
  <1>5. <<b, c>> \o x = <<b>> \o (<<c>> \o x)
    BY Unfold2
  <1>6. QED  BY <1>2, <1>3, <1>5 DEF Unfolded3

Unfolded4(a, b, c, d, x) == <<a, b, c, d>> \o x = <<a>> \o (<<b>> \o (<<c>> \o (<<d>> \o x)))

LEMMA Unfold4 ==
  ASSUME NEW S, NEW a \in S, NEW b \in S, NEW c \in S, NEW d \in S, NEW x \in Seq(S)
  PROVE  Unfolded4(a, b, c, d, x)
  <1>1. <<a>> \in Seq(S) /\ <<b, c, d>> \in Seq(S)
    OBVIOUS
  <1>2. <<a, b, c, d>> = <<a>> \o <<b, c, d>>
    OBVIOUS
  <1>3. (<<a>> \o <<b, c, d>>) \o x = <<a>> \o (<<b, c, d>> \o x)
    BY <1>1, ConcatAssociative
  <1>4. <<b, c, d>> \o x = <<b>> \o (<<c>> \o (<<d>> \o x))
    BY Unfold3 DEF Unfolded3
  <1>5. QED  BY <1>2, <1>3, <1>4 DEF Unfolded4

LEMMA Unfolds ==
  /\ \A x \in Seq(Int) : /\ Unfolded3(RUNE_ERROR, RUNE_ERROR, RUNE_ERROR, x)
                         /\ Unfolded4(RUNE_ERROR, RUNE_ERROR, RUNE_ERROR, RUNE_ERROR, x)
  /\ \A x \in Seq(Byte) : Unfolded3(224, 159, 191, x) /\ Unfolded4(240, 143, 191, 189, x)
  <1>1. RUNE_ERROR \in Int
    BY Bounds, SMT
  <1>2. 224 \in Byte /\ 159 \in Byte /\ 191 \in Byte /\ 240 \in Byte /\ 143 \in Byte /\ 189 \in Byte
    BY DEF Byte
  <1>3. ASSUME NEW x \in Seq(Int)
        PROVE  Unfolded3(RUNE_ERROR, RUNE_ERROR, RUNE_ERROR, x) /\ Unfolded4(RUNE_ERROR, RUNE_ERROR, RUNE_ERROR, RUNE_ERROR, x)
    BY <1>1, Unfold3, Unfold4
  <1>4. ASSUME NEW x \in Seq(Byte)
        PROVE  Unfolded3(224, 159, 191, x) /\ Unfolded4(240, 143, 191, 189, x)
    BY <1>2, Unfold3, Unfold4
  <1>5. QED  BY <1>3, <1>4

LEMMA ReadFirsts ==
  /\ \A t \in Seq(Byte) : utf8_to_runes(<<224>> \o (<<159>> \o t)) = <<RUNE_ERROR>> \o utf8_to_runes(<<159>> \o t)
  /\ \A t \in Seq(Byte) : utf8_to_runes(<<240>> \o (<<143>> \o t)) = <<RUNE_ERROR>> \o utf8_to_runes(<<143>> \o t)
  <1>1. ASSUME NEW t \in Seq(Byte) PROVE FirstFails(224, 159, t) /\ FirstFails(240, 143, t)
    <2>1. \A b, c : b = 224 /\ c = 159 => FirstFails(b, c, t)
      BY ReadFirst
    <2>2. \A b, c : b = 240 /\ c = 143 => FirstFails(b, c, t)
      BY ReadFirst
    <2>3. QED  BY <2>1, <2>2
  <1>2. QED  BY <1>1 DEF FirstFails

LEMMA JoinBytes ==
  ASSUME NEW a \in Seq(Byte), NEW b \in Seq(Byte), NEW c \in Seq(Byte)
  PROVE  (a \o b) \o c = a \o (b \o c)
  BY ConcatAssociative

LEMMA JoinInts ==
  ASSUME NEW a \in Seq(Int), NEW b \in Seq(Int), NEW c \in Seq(Int)
  PROVE  (a \o b) \o c = a \o (b \o c)
  BY ConcatAssociative

\* What is written for a rune is read as Reads says, in front of any string.
LEMMA ReadsIs ==
  ASSUME NEW r \in Int
  PROVE  /\ r = 2047 => Reads(r) = <<RUNE_ERROR, RUNE_ERROR, RUNE_ERROR>>
         /\ r # 2047 /\ 0 <= r /\ r <= MAX_RUNE => Reads(r) = <<Written(r)>>
         /\ r < 0 \/ MAX_RUNE < r => Reads(r) = <<RUNE_ERROR, RUNE_ERROR, RUNE_ERROR, RUNE_ERROR>>
  <1> DEFINE A == r = 2047
             B == r # 2047 /\ IsValid(r)
             C == r \in Surrogates
             one == <<r>>
             error == <<RUNE_ERROR>>
             three == <<RUNE_ERROR, RUNE_ERROR, RUNE_ERROR>>
             four == <<RUNE_ERROR, RUNE_ERROR, RUNE_ERROR, RUNE_ERROR>>
  <1>1. Reads(r) = CASE A -> three [] B -> one [] C -> error [] OTHER -> four
    BY DEF Reads
  <1>2. /\ SURR1 \in Int /\ SURR3 \in Int /\ MAX_RUNE \in Int /\ 2047 < SURR1 /\ SURR1 < SURR3
        /\ SURR3 < MAX_RUNE /\ 0 <= SURR1
    BY Bounds, SMT
  <1>3. C <=> SURR1 <= r /\ r < SURR3
    BY <1>2 DEF Surrogates
  <1>4. IsValid(r) <=> 0 <= r /\ r <= MAX_RUNE /\ ~C
    BY <1>2 DEF IsValid
  <1>5. A => ~B /\ ~C
    BY <1>2, <1>3
  <1>6. B => ~A /\ ~C
    BY <1>4
  <1>7. Written(r) = IF IsValid(r) THEN r ELSE RUNE_ERROR
    BY DEF Written
  <1> HIDE DEF A, C, one, error, three, four
  <1>8. (A => Reads(r) = three) /\ (B => Reads(r) = one) /\ (C => Reads(r) = error)
        /\ (~A /\ ~B /\ ~C => Reads(r) = four)
    BY <1>1, <1>5, <1>6
  <1>9. r # 2047 /\ 0 <= r /\ r <= MAX_RUNE => Reads(r) = <<Written(r)>>
    <2>1. CASE r # 2047 /\ 0 <= r /\ r <= MAX_RUNE /\ C
      BY <1>4, <1>7, <1>8, <2>1 DEF error
    <2>2. CASE r # 2047 /\ 0 <= r /\ r <= MAX_RUNE /\ ~C
      BY <1>4, <1>7, <1>8, <2>2 DEF one
    <2>3. QED  BY <2>1, <2>2
  <1>10. r < 0 \/ MAX_RUNE < r => ~A /\ ~B /\ ~C
    BY <1>2, <1>3, <1>4 DEF A
  <1>11. QED  BY <1>8, <1>9, <1>10 DEF A, three, four

LEMMA PushReads ==
  ASSUME NEW r \in Int, NEW t \in Seq(Byte)
  PROVE  utf8_to_runes(utf8_push_rune_bytes(r) \o t) = Reads(r) \o utf8_to_runes(t)
  <1> DEFINE p == utf8_push_rune_bytes(r)
             u == utf8_to_runes(t)
  <1>1. SURR_SELF \in Int /\ MAX_RUNE \in Int /\ SURR1 \in Int /\ 0 <= MAX_RUNE /\ 2048 < SURR1
        /\ 2048 < SURR_SELF /\ SURR_SELF <= MAX_RUNE /\ RUNE_ERROR \in Int
    BY Bounds, SMT
  <1>2. u \in Seq(Int)
    BY DecodingFits
  <1> HIDE DEF p, u
  <1>3. \/ (0 <= r /\ r < 128) \/ (128 <= r /\ r < 2047) \/ r = 2047
        \/ (2048 <= r /\ r < SURR_SELF) \/ (SURR_SELF <= r /\ r <= MAX_RUNE) \/ (r < 0 \/ MAX_RUNE < r)
    BY <1>1
  <1>4. r < SURR1 \/ SURR_SELF <= r => (0 <= r /\ r <= MAX_RUNE => Written(r) = r)
    <2>1. SURR3 \in Int /\ SURR3 <= SURR_SELF
      BY Bounds, SMT
    <2>2. r < SURR1 \/ SURR_SELF <= r => (r < SURR1 \/ SURR3 <= r)
      BY <1>1, <2>1
    <2>3. QED  BY <2>2, ValidIs DEF Written
  <1>5. CASE 0 <= r /\ r < 128
    <2>1. r \in Byte
      BY <1>5 DEF Byte
    <2>2. p = <<r>>
      BY <1>5, PushIs DEF p
    <2>3. Reads(r) = <<r>>
      <3>1. r # 2047 /\ r <= MAX_RUNE /\ r < SURR1
        BY <1>1, <1>5
      <3>2. QED  BY <1>4, <1>5, <3>1, ReadsIs
    <2>4. utf8_to_runes(<<r>> \o t) = <<r>> \o u
      BY <1>5, <2>1, ReadOf1 DEF u
    <2>5. QED  BY <2>2, <2>3, <2>4 DEF p, u
  <1>6. CASE 128 <= r /\ r < 2047
    <2>1. PICK b, c \in Byte : p = <<b, c>> /\ Two(b, c) /\ Of2(b, c) = r
      BY <1>6, PushIs DEF p
    <2>2. Reads(r) = <<r>>
      <3>1. r # 2047 /\ 0 <= r /\ r <= MAX_RUNE /\ r < SURR1
        BY <1>1, <1>6
      <3>2. QED  BY <1>4, <1>6, <3>1, ReadsIs
    <2>3. utf8_to_runes(<<b, c>> \o t) = <<Of2(b, c)>> \o u
      BY <2>1, ReadOf2 DEF u
    <2>4. QED  BY <2>1, <2>2, <2>3 DEF p, u
  <1>7. CASE r = 2047
    <2>1. p = <<224, 159, 191>>
      BY <1>7, PushIs DEF p
    <2>2. 224 \in Byte /\ 159 \in Byte /\ 191 \in Byte
      BY DEF Byte
    <2>3. p \o t = <<224>> \o (<<159>> \o (<<191>> \o t)) /\ <<191>> \o t \in Seq(Byte)
      <3>1. <<224, 159, 191>> \o t = <<224>> \o (<<159>> \o (<<191>> \o t))
        BY Unfolds DEF Unfolded3, Unfolded4
      <3>2. <<191>> \o t \in Seq(Byte)
        BY <2>2, Unfold2
      <3>3. QED  BY <2>1, <3>1, <3>2
    <2> DEFINE t1 == <<191>> \o t
    <2>4. t1 \in Seq(Byte) /\ utf8_to_runes(t1) = <<RUNE_ERROR>> \o u
      <3>1. 191 \in 128 .. 191
        OBVIOUS
      <3>2. QED  BY <2>2, <2>3, <3>1, ReadMiddle DEF u
    <2> HIDE DEF t1
    <2>5. utf8_to_runes(<<159>> \o t1) = <<RUNE_ERROR>> \o utf8_to_runes(t1)
      <3>1. 159 \in 128 .. 191
        OBVIOUS
      <3>2. QED  BY <2>2, <2>4, <3>1, ReadMiddle
    <2>6. utf8_to_runes(<<224>> \o (<<159>> \o t1)) = <<RUNE_ERROR>> \o utf8_to_runes(<<159>> \o t1)
      BY <2>4, ReadFirsts
    <2>7. Reads(r) \o u = <<RUNE_ERROR>> \o (<<RUNE_ERROR>> \o (<<RUNE_ERROR>> \o u))
      <3>1. Reads(r) = <<RUNE_ERROR, RUNE_ERROR, RUNE_ERROR>>
        BY <1>7, ReadsIs
      <3>2. <<RUNE_ERROR, RUNE_ERROR, RUNE_ERROR>> \o u = <<RUNE_ERROR>> \o (<<RUNE_ERROR>> \o (<<RUNE_ERROR>> \o u))
        BY <1>2, Unfolds DEF Unfolded3, Unfolded4
      <3>3. QED  BY <3>1, <3>2
    <2>8. utf8_to_runes(p \o t) = Reads(r) \o u
      BY <2>3, <2>4, <2>5, <2>6, <2>7, ZenonT(60) DEF t1
    <2>9. QED  BY <2>8 DEF p, u
  <1>8. CASE 2048 <= r /\ r < SURR_SELF
    <2>1. PICK b, c, d \in Byte : p = <<b, c, d>> /\ Three(b, c, d) /\ Of3(b, c, d) = Written(r)
      BY <1>8, PushIs DEF p
    <2>2. Reads(r) = <<Written(r)>>
      <3>1. r # 2047 /\ 0 <= r /\ r <= MAX_RUNE
        BY <1>1, <1>8
      <3>2. QED  BY <3>1, ReadsIs
    <2>3. utf8_to_runes(<<b, c, d>> \o t) = <<Of3(b, c, d)>> \o u
      BY <2>1, ReadOf3 DEF u
    <2>4. QED  BY <2>1, <2>2, <2>3 DEF p, u
  <1>9. CASE SURR_SELF <= r /\ r <= MAX_RUNE
    <2>1. PICK b, c, d, e \in Byte : p = <<b, c, d, e>> /\ Four(b, c, d, e) /\ Of4(b, c, d, e) = r
      BY <1>9, PushIs DEF p
    <2>2. Reads(r) = <<r>>
      <3>1. r # 2047 /\ 0 <= r
        BY <1>1, <1>9
      <3>2. QED  BY <1>4, <1>9, <3>1, ReadsIs
    <2>3. utf8_to_runes(<<b, c, d, e>> \o t) = <<Of4(b, c, d, e)>> \o u
      <3>1. Four(b, c, d, e) /\ b \in Byte /\ c \in Byte /\ d \in Byte /\ e \in Byte
        BY <2>1
      <3>2. Reads4(b, c, d, e, t)
        BY <3>1, ReadOf4
      <3>3. QED  BY <3>2 DEF Reads4, u
    <2>4. QED  BY <2>1, <2>2, <2>3 DEF p, u
  <1>10. CASE r < 0 \/ MAX_RUNE < r
    <2>1. p = <<240, 143, 191, 189>>
      BY <1>10, PushIs DEF p
    <2>2. 240 \in Byte /\ 143 \in Byte /\ 191 \in Byte /\ 189 \in Byte
      BY DEF Byte
    <2>3. p \o t = <<240>> \o (<<143>> \o (<<191>> \o (<<189>> \o t)))
      <3>1. <<240, 143, 191, 189>> \o t = <<240>> \o (<<143>> \o (<<191>> \o (<<189>> \o t)))
        BY Unfolds DEF Unfolded3, Unfolded4
      <3>2. QED  BY <2>1, <3>1
    <2> DEFINE t1 == <<189>> \o t
               t2 == <<191>> \o t1
    <2>4. t1 \in Seq(Byte) /\ utf8_to_runes(t1) = <<RUNE_ERROR>> \o u
      <3>1. 189 \in 128 .. 191
        OBVIOUS
      <3>2. QED  BY <2>2, <3>1, Unfold2, ReadMiddle DEF u
    <2> HIDE DEF t1
    <2>5. t2 \in Seq(Byte) /\ utf8_to_runes(t2) = <<RUNE_ERROR>> \o utf8_to_runes(t1)
      <3>1. 191 \in 128 .. 191
        OBVIOUS
      <3>2. QED  BY <2>2, <2>4, <3>1, Unfold2, ReadMiddle, ZenonT(60)
    <2> HIDE DEF t2
    <2>6. utf8_to_runes(<<143>> \o t2) = <<RUNE_ERROR>> \o utf8_to_runes(t2)
      <3>1. 143 \in 128 .. 191
        OBVIOUS
      <3>2. QED  BY <2>2, <2>5, <3>1, ReadMiddle
    <2>7. utf8_to_runes(<<240>> \o (<<143>> \o t2)) = <<RUNE_ERROR>> \o utf8_to_runes(<<143>> \o t2)
      BY <2>5, ReadFirsts
    <2>8. Reads(r) \o u = <<RUNE_ERROR>> \o (<<RUNE_ERROR>> \o (<<RUNE_ERROR>> \o (<<RUNE_ERROR>> \o u)))
      <3>1. Reads(r) = <<RUNE_ERROR, RUNE_ERROR, RUNE_ERROR, RUNE_ERROR>>
        BY <1>10, ReadsIs
      <3>2. <<RUNE_ERROR, RUNE_ERROR, RUNE_ERROR, RUNE_ERROR>> \o u
              = <<RUNE_ERROR>> \o (<<RUNE_ERROR>> \o (<<RUNE_ERROR>> \o (<<RUNE_ERROR>> \o u)))
        BY <1>2, Unfolds DEF Unfolded3, Unfolded4
      <3>3. QED  BY <3>1, <3>2
    <2>9. p \o t = <<240>> \o (<<143>> \o t2)
      BY <2>3 DEF t1, t2
    <2>10. utf8_to_runes(p \o t) = Reads(r) \o u
      BY <2>4, <2>5, <2>6, <2>7, <2>8, <2>9, ZenonT(60)
    <2>11. QED  BY <2>10 DEF p, u
  <1>11. QED  BY <1>3, <1>5, <1>6, <1>7, <1>8, <1>9, <1>10

\* The runes written to a string are read back one by one, in front of any
\* string.
LEMMA AllRead ==
  ASSUME NEW s \in Seq(Int)
  PROVE  utf8_to_runes(runes_to_utf8(s)) = ReadsAll(s)
  <1> DEFINE N == Len(s)
             e == Encoded(s)
             q == ReadUpTo(s)
             T == {n \in 0 .. N : \A t \in Seq(Byte) : utf8_to_runes(e[n] \o t) = q[n] \o utf8_to_runes(t)}
  <1>1. /\ N \in Nat /\ e \in [0 .. N -> Seq(Byte)] /\ e[0] = <<>> /\ runes_to_utf8(s) = e[N]
        /\ \A n \in 1 .. N : e[n] = e[n - 1] \o utf8_push_rune_bytes(s[n])
    <2>1. N \in Nat
      OBVIOUS
    <2>2. QED  BY <2>1, EncodedIs
  <1>2. /\ q \in [0 .. N -> Seq(Int)] /\ q[0] = <<>> /\ ReadsAll(s) = q[N]
        /\ \A n \in 1 .. N : q[n] = q[n - 1] \o Reads(s[n])
    BY ReadUpToIs
  <1>3. \A n \in 1 .. N : s[n] \in Int
    OBVIOUS
  <1> HIDE DEF e, q, N
  <1>4. 0 \in T
    <2>1. ASSUME NEW t \in Seq(Byte) PROVE utf8_to_runes(e[0] \o t) = q[0] \o utf8_to_runes(t)
      <3>1. utf8_to_runes(t) \in Seq(Int)
        BY DecodingFits
      <3>2. <<>> \o t = t /\ <<>> \o utf8_to_runes(t) = utf8_to_runes(t)
        BY <3>1, ConcatEmptySeq
      <3>3. QED  BY <1>1, <1>2, <3>2
    <2>2. 0 \in 0 .. N
      BY <1>1
    <2>3. QED  BY <2>1, <2>2
  <1>5. ASSUME NEW n \in 0 .. N - 1, n \in T PROVE n + 1 \in T
    <2>1. n \in 0 .. N /\ n + 1 \in 1 .. N /\ (n + 1) - 1 = n /\ n + 1 \in 0 .. N
      BY <1>1
    <2> DEFINE r == s[n + 1]
    <2>2. r \in Int /\ e[n] \in Seq(Byte) /\ q[n] \in Seq(Int)
      BY <1>1, <1>2, <1>3, <2>1
    <2>3. e[n + 1] = e[n] \o utf8_push_rune_bytes(r) /\ q[n + 1] = q[n] \o Reads(r)
      BY <1>1, <1>2, <2>1
    <2> HIDE DEF r
    <2>4. utf8_push_rune_bytes(r) \in Seq(Byte) /\ Reads(r) \in Seq(Int)
      BY <2>2, PushFits, ReadsFit
    <2>5. ASSUME NEW t \in Seq(Byte) PROVE utf8_to_runes(e[n + 1] \o t) = q[n + 1] \o utf8_to_runes(t)
      <3> DEFINE p == utf8_push_rune_bytes(r)
                 u == utf8_to_runes(t)
      <3>1. u \in Seq(Int) /\ p \o t \in Seq(Byte)
        BY <2>4, DecodingFits, ConcatProperties
      <3>2. (e[n] \o p) \o t = e[n] \o (p \o t)
        <4>1. p \in Seq(Byte) /\ e[n] \in Seq(Byte)
          BY <2>2, <2>4
        <4> HIDE DEF p
        <4>2. QED  BY <4>1, JoinBytes
      <3>3. utf8_to_runes(e[n] \o (p \o t)) = q[n] \o utf8_to_runes(p \o t)
        BY <1>5, <3>1
      <3>4. utf8_to_runes(p \o t) = Reads(r) \o u
        BY <2>2, PushReads
      <3> HIDE DEF p, u
      <3>5. (q[n] \o Reads(r)) \o u = q[n] \o (Reads(r) \o u)
        <4>1. q[n] \in Seq(Int) /\ Reads(r) \in Seq(Int) /\ u \in Seq(Int)
          BY <2>2, <2>4, <3>1
        <4>2. QED  BY <4>1, JoinInts
      <3>6. QED  BY <2>3, <3>2, <3>3, <3>4, <3>5 DEF p, u
    <2>6. QED  BY <2>1, <2>5
  <1>6. 0 .. N \subseteq T
    <2> HIDE DEF T
    <2>1. QED  BY <1>1, <1>4, <1>5, UpTo
  <1>7. N \in 0 .. N /\ <<>> \in Seq(Byte)
    BY <1>1
  <1>8. utf8_to_runes(e[N] \o <<>>) = q[N] \o utf8_to_runes(<<>>)
    BY <1>6, <1>7
  <1>9. utf8_to_runes(<<>>) = <<>>
    <2> DEFINE w == <<>>
    <2>1. w \in Seq(Byte) /\ Len(w) + 1 = 1
      OBVIOUS
    <2> HIDE DEF w
    <2>2. utf8_to_runes(w) = RunesFrom(w)[1] /\ RunesFrom(w)[Len(w) + 1] = <<>>
      BY <2>1, RunesAre
    <2>3. QED  BY <2>1, <2>2 DEF w
  <1>10. e[N] \o <<>> = e[N] /\ q[N] \o <<>> = q[N]
    <2>1. e[N] \in Seq(Byte) /\ q[N] \in Seq(Int)
      BY <1>1, <1>2, <1>7
    <2>2. QED  BY <2>1, ConcatEmptySeq
  <1>11. QED  BY <1>1, <1>2, <1>8, <1>9, <1>10
-----------------------------------------------------------------------------
(* Units that come from the system.                                        *)

LEMMA ConsIs ==
  ASSUME NEW S, NEW v \in S, NEW x \in Seq(S)
  PROVE  /\ <<v>> \o x \in Seq(S) /\ Len(<<v>> \o x) = Len(x) + 1 /\ (<<v>> \o x)[1] = v
         /\ \A k \in 2 .. Len(x) + 1 : (<<v>> \o x)[k] = x[k - 1]
  <1> DEFINE p == <<v>>
             s == p \o x
  <1>1. p \in Seq(S) /\ Len(p) = 1 /\ p[1] = v /\ Len(x) \in Nat
    OBVIOUS
  <1> HIDE DEF p
  <1>2. /\ s \in Seq(S) /\ Len(s) = Len(p) + Len(x)
        /\ \A i \in 1 .. Len(p) + Len(x) : s[i] = IF i <= Len(p) THEN p[i] ELSE x[i - Len(p)]
    BY <1>1, ConcatProperties
  <1> HIDE DEF s
  <1>3. s \in Seq(S) /\ Len(s) = Len(x) + 1 /\ s[1] = v
    BY <1>1, <1>2
  <1>4. ASSUME NEW k \in 2 .. Len(x) + 1 PROVE s[k] = x[k - 1]
    <2>1. k \in 1 .. Len(p) + Len(x) /\ ~(k <= Len(p)) /\ k - Len(p) = k - 1
      BY <1>1
    <2>2. QED  BY <1>2, <2>1
  <1>5. QED  BY <1>3, <1>4 DEF s, p

LEMMA UnitRunesValid ==
  ASSUME NEW w \in Seq(Unit)
  PROVE  \A k \in 1 .. Len(utf16_decode(w)) : IsValid(utf16_decode(w)[k])
  <1> DEFINE N == Len(w)
             g == UnitRunesFrom(w)
             S == {i \in 1 .. N + 1 : \A k \in 1 .. Len(g[i]) : IsValid(g[i][k])}
  <1>1. /\ N \in Nat
        /\ g \in [1 .. N + 1 -> Seq(Int)] /\ g[N + 1] = <<>>
        /\ \A i \in 1 .. N : g[i] = <<UnitRune(w, i)>> \o g[i + UnitWidth(w, i)]
        /\ utf16_decode(w) = g[1]
    <2>1. N \in Nat
      OBVIOUS
    <2>2. QED  BY <2>1, UnitRunesAre
  <1>2. \A i \in 1 .. N : /\ i + UnitWidth(w, i) \in i + 1 .. N + 1
                          /\ UnitRune(w, i) \in Int /\ IsValid(UnitRune(w, i))
    BY UnitStepFits
  <1> HIDE DEF g, N
  <1>3. ASSUME NEW i \in 1 .. N + 1, \A j \in i + 1 .. N + 1 : j \in S PROVE i \in S
    <2>1. CASE i = N + 1
      BY <1>1, <2>1
    <2>2. CASE i # N + 1
      <3>1. i \in 1 .. N
        BY <1>1, <2>2
      <3> DEFINE j == i + UnitWidth(w, i)
                 r == UnitRune(w, i)
                 x == g[j]
      <3>2. j \in i + 1 .. N + 1 /\ r \in Int /\ IsValid(r) /\ g[i] = <<r>> \o x
        BY <1>1, <1>2, <3>1
      <3> HIDE DEF j, r
      <3>3. j \in S /\ x \in Seq(Int)
        <4>1. j \in 1 .. N + 1
          BY <1>1, <3>1, <3>2
        <4>2. QED  BY <1>1, <1>3, <3>2, <4>1
      <3>4. \A k \in 1 .. Len(x) : IsValid(x[k])
        BY <3>3
      <3> HIDE DEF x, S
      <3>5. /\ Len(g[i]) = Len(x) + 1 /\ g[i][1] = r
            /\ \A k \in 2 .. Len(x) + 1 : g[i][k] = x[k - 1]
        BY <3>2, <3>3, ConsIs
      <3>6. ASSUME NEW k \in 1 .. Len(g[i]) PROVE IsValid(g[i][k])
        <4>1. CASE k = 1
          BY <3>2, <3>5, <4>1
        <4>2. CASE k # 1
          <5>1. Len(x) \in Nat
            BY <3>3
          <5>2. k \in 2 .. Len(x) + 1 /\ k - 1 \in 1 .. Len(x)
            BY <3>5, <4>2, <5>1
          <5>3. QED  BY <3>4, <3>5, <5>2
        <4>3. QED  BY <4>1, <4>2
      <3>7. QED  BY <3>6 DEF S
    <2>3. QED  BY <2>1, <2>2
  <1>4. 1 .. N + 1 \subseteq S
    <2> HIDE DEF S
    <2>1. QED  BY <1>1, <1>3, Backwards
  <1>5. 1 \in 1 .. N + 1
    BY <1>1
  <1>6. 1 \in S
    BY <1>4, <1>5
  <1>7. QED  BY <1>1, <1>6

LEMMA UnitsReadBackIs ==
  ASSUME form = "units" => value \in Seq(Unit)
  PROVE  UnitsReadBack
  <1>1. SUFFICES ASSUME form = "units"
                 PROVE  /\ utf8_to_runes(utf16_to_utf8_str(value)) = ReadsAll(utf16_decode(value))
                        /\ \A r \in Range(utf16_decode(value)) : IsValid(r)
    BY DEF UnitsReadBack
  <1>2. value \in Seq(Unit)
    BY <1>1
  <1> DEFINE d == utf16_decode(value)
  <1>3. d \in Seq(Int) /\ \A k \in 1 .. Len(d) : IsValid(d[k])
    BY <1>2, DecodeFits, UnitRunesValid
  <1>4. utf8_to_runes(runes_to_utf8(d)) = ReadsAll(d)
    BY <1>3, AllRead
  <1>5. \A r \in Range(d) : IsValid(r)
    <2> HIDE DEF d
    <2>1. DOMAIN d = 1 .. Len(d)
      BY <1>3
    <2>2. QED  BY <1>3, <2>1 DEF Range
  <1>6. QED  BY <1>4, <1>5 DEF utf16_to_utf8_str

LEMMA RunesReadBackIs ==
  ASSUME form = "runes" => value \in Seq(Int)
  PROVE  RunesReadBack
  BY AllRead DEF RunesReadBack
-----------------------------------------------------------------------------
(* The digits in a message.                                                *)

NumberUpTo(digits) == CHOOSE upto : upto = [n \in 0 .. Len(digits) |->
  IF n = 0 THEN 0 ELSE 10 * upto[n - 1] + digits[n]]

LEMMA NumberIs ==
  ASSUME NEW s \in Seq(Nat)
  PROVE  /\ NumberUpTo(s) \in [0 .. Len(s) -> Nat] /\ NumberUpTo(s)[0] = 0
         /\ \A n \in 1 .. Len(s) : NumberUpTo(s)[n] = 10 * NumberUpTo(s)[n - 1] + s[n]
         /\ Number(s) = NumberUpTo(s)[Len(s)]
  <1> DEFINE N == Len(s)
             D == 0 .. N
             V == Nat
             rank == [n \in D |-> n]
             base == [n \in D |-> 0]
             Ends0 == {0}
             before == [n \in D |-> n - 1]
             next == [n \in D |-> [v \in V |-> IF n = 0 THEN v ELSE 10 * v + s[n]]]
  <1>0. N \in Nat /\ \A n \in 1 .. N : s[n] \in Nat
    OBVIOUS
  <1> HIDE DEF N
  <1>1. rank \in [D -> 0 .. N] /\ Ends0 \in SUBSET D /\ base \in [D -> V]
    BY <1>0
  <1>2. next \in [D -> [V -> V]]
    <2>1. \A n \in D : n # 0 => n \in 1 .. N
      BY <1>0
    <2>2. \A n \in D, v \in V : (IF n = 0 THEN v ELSE 10 * v + s[n]) \in V
      BY <1>0, <2>1
    <2>3. QED  BY <2>2
  <1>3. \A n \in D \ Ends0 : before[n] \in D /\ before[n] = n - 1 /\ rank[before[n]] < rank[n]
    BY <1>0
  <1>4. \E f \in [D -> V] : \A n \in D : f[n] = IF n \in Ends0 THEN base[n] ELSE next[n][f[before[n]]]
    <2> HIDE DEF D, V, rank, base, Ends0, before, next
    <2>1. ByRecursion(D, N, rank, V, base, Ends0, before, next)
      BY <1>0, <1>1, <1>2, <1>3 DEF ByRecursion
    <2>2. QED  BY <2>1, RecursionExists
  <1>5. PICK f \in [D -> V] : \A n \in D : f[n] = IF n \in Ends0 THEN base[n] ELSE next[n][f[before[n]]]
    BY <1>4
  <1>6. ASSUME NEW n \in D PROVE f[n] = IF n = 0 THEN 0 ELSE 10 * f[n - 1] + s[n]
    <2>1. CASE n = 0
      BY <1>5, <2>1
    <2>2. CASE n # 0
      <3>1. n \in D \ Ends0 /\ before[n] = n - 1 /\ before[n] \in D
        BY <1>3, <2>2
      <3>2. f[n - 1] \in V
        BY <1>5, <3>1
      <3>3. next[n][f[n - 1]] = 10 * f[n - 1] + s[n]
        BY <2>2, <3>2
      <3> HIDE DEF before, next, D, Ends0, base
      <3>4. f[n] = next[n][f[before[n]]]
        BY <1>5, <3>1
      <3>5. QED  BY <2>2, <3>1, <3>3, <3>4
    <2>3. QED  BY <2>1, <2>2
  <1> DEFINE Rec(h) == h = [n \in 0 .. Len(s) |-> IF n = 0 THEN 0 ELSE 10 * h[n - 1] + s[n]]
  <1>7. Rec(f)
    <2>1. f = [n \in D |-> IF n = 0 THEN 0 ELSE 10 * f[n - 1] + s[n]]
      BY <1>5, <1>6
    <2>2. QED  BY <2>1 DEF N
  <1>8. Rec(NumberUpTo(s))
    BY <1>7 DEF NumberUpTo
  <1>9. Number(s) = NumberUpTo(s)[Len(s)]
    BY DEF Number, NumberUpTo
  <1> DEFINE g == NumberUpTo(s)
  <1>10. g = [n \in D |-> IF n = 0 THEN 0 ELSE 10 * g[n - 1] + s[n]]
    BY <1>8 DEF N
  <1> HIDE DEF g, Rec
  <1>11. g[0] = 0 /\ \A n \in 1 .. N : g[n] = 10 * g[n - 1] + s[n]
    <2>1. 0 \in D /\ \A n \in 1 .. N : n \in D /\ n # 0
      BY <1>0
    <2>2. \A n \in D : g[n] = IF n = 0 THEN 0 ELSE 10 * g[n - 1] + s[n]
      BY <1>10
    <2>3. QED  BY <2>1, <2>2
  <1> DEFINE T == {n \in D : g[n] \in Nat}
  <1>12. ASSUME NEW n \in 0 .. N - 1, n \in T PROVE n + 1 \in T
    <2>1. n + 1 \in 1 .. N /\ (n + 1) - 1 = n /\ n + 1 \in D
      BY <1>0
    <2>2. g[n] \in Nat /\ s[n + 1] \in Nat /\ g[n + 1] = 10 * g[n] + s[n + 1]
      BY <1>0, <1>11, <1>12, <2>1
    <2>3. QED  BY <2>1, <2>2
  <1>13. 0 \in T
    BY <1>0, <1>11
  <1>14. D \subseteq T
    <2> HIDE DEF T
    <2>1. QED  BY <1>0, <1>12, <1>13, UpTo
  <1>15. g \in [D -> Nat]
    <2>1. \A n \in D : g[n] \in Nat
      BY <1>14
    <2>2. g = [n \in D |-> g[n]]
      BY <1>10
    <2>3. QED  BY <2>1, <2>2
  <1>16. QED  BY <1>9, <1>11, <1>15 DEF g, N

\* A digit more.
LEMMA NumberGrows ==
  ASSUME NEW s \in Seq(Nat), NEW d \in Nat
  PROVE  /\ Number(<<>>) = 0 /\ Number(s) \in Nat
         /\ Append(s, d) \in Seq(Nat) /\ Number(Append(s, d)) = 10 * Number(s) + d
  <1> DEFINE N == Len(s)
             t == Append(s, d)
             f == NumberUpTo(s)
             g == NumberUpTo(t)
             T == {n \in 0 .. N : g[n] = f[n]}
  <1>1. /\ N \in Nat /\ t \in Seq(Nat) /\ Len(t) = N + 1 /\ t[N + 1] = d
        /\ \A n \in 1 .. N : t[n] = s[n]
    OBVIOUS
  <1>2. /\ f \in [0 .. N -> Nat] /\ f[0] = 0 /\ Number(s) = f[N]
        /\ \A n \in 1 .. N : f[n] = 10 * f[n - 1] + s[n]
    BY NumberIs
  <1>3. /\ g[0] = 0 /\ Number(t) = g[N + 1]
        /\ \A n \in 1 .. N + 1 : g[n] = 10 * g[n - 1] + t[n]
    <2>1. /\ g[0] = 0 /\ Number(t) = g[Len(t)]
          /\ \A n \in 1 .. Len(t) : g[n] = 10 * g[n - 1] + t[n]
      BY <1>1, NumberIs
    <2> HIDE DEF g, t, N
    <2>2. QED  BY <1>1, <2>1
  <1>4. Number(<<>>) = 0
    <2> DEFINE w == <<>>
    <2>1. w \in Seq(Nat) /\ Len(w) = 0
      OBVIOUS
    <2> HIDE DEF w
    <2>2. Number(w) = NumberUpTo(w)[Len(w)] /\ NumberUpTo(w)[0] = 0
      BY <2>1, NumberIs
    <2>3. QED  BY <2>1, <2>2 DEF w
  <1> HIDE DEF f, g, t, N
  <1>5. 0 \in T
    BY <1>1, <1>2, <1>3
  <1>6. ASSUME NEW n \in 0 .. N - 1, n \in T PROVE n + 1 \in T
    <2>1. n + 1 \in 1 .. N /\ (n + 1) - 1 = n /\ n + 1 \in 0 .. N /\ n + 1 \in 1 .. N + 1
      BY <1>1
    <2>2. g[n + 1] = 10 * g[n] + t[n + 1] /\ f[n + 1] = 10 * f[n] + s[n + 1] /\ t[n + 1] = s[n + 1]
      BY <1>1, <1>2, <1>3, <2>1
    <2>3. QED  BY <1>6, <2>1, <2>2
  <1>7. 0 .. N \subseteq T
    <2> HIDE DEF T
    <2>1. QED  BY <1>1, <1>5, <1>6, UpTo
  <1>8. g[N] = f[N] /\ f[N] \in Nat
    BY <1>1, <1>2, <1>7
  <1>9. g[N + 1] = 10 * g[N] + d
    <2>1. N + 1 \in 1 .. N + 1 /\ (N + 1) - 1 = N
      BY <1>1
    <2>2. QED  BY <1>1, <1>3, <2>1
  <1>10. QED  BY <1>1, <1>2, <1>3, <1>4, <1>8, <1>9 DEF t
DigitsUpTo(left) == CHOOSE digits : digits = [k \in 0 .. left |->
  IF k = 0 THEN <<>> ELSE Append(digits[k \div 10], k % 10)]

LEMMA Tens ==
  ASSUME NEW k \in Nat
  PROVE  /\ k \div 10 \in Nat /\ k % 10 \in Nat /\ k = 10 * (k \div 10) + (k % 10)
         /\ k # 0 => k \div 10 < k
  OBVIOUS

LEMMA DigitsAre ==
  ASSUME NEW left \in Nat
  PROVE  \A k \in 0 .. left : /\ DigitsUpTo(left)[k] \in Seq(Nat)
                              /\ Number(DigitsUpTo(left)[k]) = k
                              /\ k = 0 => DigitsUpTo(left)[k] = <<>>
  <1> DEFINE D == 0 .. left
             V == Seq(Nat)
             rank == [k \in D |-> k]
             base == [k \in D |-> <<>>]
             Ends0 == {0}
             before == [k \in D |-> k \div 10]
             next == [k \in D |-> [v \in V |-> Append(v, k % 10)]]
  <1>1. rank \in [D -> 0 .. left] /\ Ends0 \in SUBSET D /\ base \in [D -> V]
    OBVIOUS
  <1>2. next \in [D -> [V -> V]]
    <2>1. \A k \in D : k % 10 \in Nat
      BY Tens
    <2>2. \A k \in D, v \in V : Append(v, k % 10) \in V
      BY <2>1
    <2>3. QED  BY <2>2
  <1>3. \A k \in D \ Ends0 : /\ k \div 10 \in D /\ before[k] = k \div 10 /\ before[k] \in D
                             /\ k \div 10 < k /\ rank[before[k]] < rank[k]
    <2>1. ASSUME NEW k \in D \ Ends0
          PROVE  /\ k \div 10 \in D /\ before[k] = k \div 10 /\ before[k] \in D
                 /\ k \div 10 < k /\ rank[before[k]] < rank[k]
      <3>1. k \in Nat /\ k <= left /\ k # 0
        BY <2>1
      <3>2. k \div 10 \in Nat /\ k \div 10 < k
        BY <3>1, Tens
      <3>3. k \div 10 \in D
        BY <3>1, <3>2
      <3>4. QED  BY <2>1, <3>2, <3>3
    <2>2. QED  BY <2>1
  <1>4. \E f \in [D -> V] : \A k \in D : f[k] = IF k \in Ends0 THEN base[k] ELSE next[k][f[before[k]]]
    <2> HIDE DEF D, V, rank, base, Ends0, before, next
    <2>1. ByRecursion(D, left, rank, V, base, Ends0, before, next)
      BY <1>1, <1>2, <1>3 DEF ByRecursion
    <2>2. QED  BY <2>1, RecursionExists
  <1>5. PICK f \in [D -> V] : \A k \in D : f[k] = IF k \in Ends0 THEN base[k] ELSE next[k][f[before[k]]]
    BY <1>4
  <1>6. ASSUME NEW k \in D PROVE f[k] = IF k = 0 THEN <<>> ELSE Append(f[k \div 10], k % 10)
    <2>1. CASE k = 0
      BY <1>5, <2>1
    <2>2. CASE k # 0
      <3>1. k \in D \ Ends0 /\ before[k] = k \div 10 /\ before[k] \in D
        BY <1>3, <2>2
      <3>2. f[k \div 10] \in V
        BY <1>5, <3>1
      <3>3. next[k][f[k \div 10]] = Append(f[k \div 10], k % 10)
        BY <3>2
      <3> HIDE DEF before, next, D, Ends0, base
      <3>4. f[k] = next[k][f[before[k]]]
        BY <1>5, <3>1
      <3>5. QED  BY <2>2, <3>1, <3>3, <3>4
    <2>3. QED  BY <2>1, <2>2
  <1> DEFINE Rec(h) == h = [k \in 0 .. left |-> IF k = 0 THEN <<>> ELSE Append(h[k \div 10], k % 10)]
  <1>7. Rec(f)
    BY <1>5, <1>6
  <1>8. Rec(DigitsUpTo(left))
    BY <1>7 DEF DigitsUpTo
  <1> DEFINE g == DigitsUpTo(left)
  <1> HIDE DEF g
  <1>9. \A k \in D : g[k] = IF k = 0 THEN <<>> ELSE Append(g[k \div 10], k % 10)
    <2>1. g = [k \in 0 .. left |-> IF k = 0 THEN <<>> ELSE Append(g[k \div 10], k % 10)]
      BY <1>8 DEF g
    <2>2. QED  BY <2>1
  <1> HIDE DEF Rec
  <1> DEFINE T == {k \in D : g[k] \in Seq(Nat) /\ Number(g[k]) = k /\ (k = 0 => g[k] = <<>>)}
  <1>10. ASSUME NEW k \in D, \A m \in 0 .. k - 1 : m \in T PROVE k \in T
    <2>1. CASE k = 0
      <3>1. g[k] = <<>>
        BY <1>9, <2>1
      <3>2. <<>> \in Seq(Nat) /\ Number(<<>>) = 0
        <4>1. <<>> \in Seq(Nat) /\ 0 \in Nat
          OBVIOUS
        <4>2. QED  BY <4>1, NumberGrows
      <3>3. QED  BY <2>1, <3>1, <3>2
    <2>2. CASE k # 0
      <3> DEFINE m == k \div 10
                 d == k % 10
      <3>1. k \in D \ Ends0 /\ k \in Nat
        BY <2>2
      <3>2. m \in Nat /\ d \in Nat /\ k = 10 * m + d /\ m < k
        BY <2>2, <3>1, Tens
      <3>3. g[k] = Append(g[m], d)
        BY <1>9, <2>2
      <3> HIDE DEF m, d
      <3>4. m \in T
        <4>1. m \in 0 .. k - 1
          BY <3>1, <3>2
        <4>2. QED  BY <1>10, <4>1
      <3>5. g[m] \in Seq(Nat) /\ Number(g[m]) = m
        BY <3>4
      <3>6. Append(g[m], d) \in Seq(Nat) /\ Number(Append(g[m], d)) = 10 * Number(g[m]) + d
        BY <3>2, <3>5, NumberGrows
      <3>7. QED  BY <2>2, <3>2, <3>3, <3>5, <3>6
    <2>3. QED  BY <2>1, <2>2
  <1>11. 0 .. left \subseteq T
    <2> HIDE DEF T
    <2>1. QED  BY <1>10, Strongly
  <1>12. QED  BY <1>11 DEF g

\* The number whose digits are written for an index.
Left(i) == IF i < 0 /\ i # MIN_INT THEN -i ELSE IF i < 0 THEN 0 ELSE i

LEMMA IndexText ==
  ASSUME NEW i \in Indexes
  PROVE  /\ __jule_push_int_to_str(i).minus <=> i < 0
         /\ IF i \in {0, MIN_INT} THEN __jule_push_int_to_str(i).digits = <<>>
            ELSE Number(__jule_push_int_to_str(i).digits) = IF i < 0 THEN -i ELSE i
  <1>1. i \in Int /\ MIN_INT \in Int /\ MIN_INT < 0 /\ MIN_INT <= i
    BY TextAssumption
  <1> DEFINE n == IF i < 0 /\ i # MIN_INT THEN -i ELSE i
             left == IF n < 0 THEN 0 ELSE n
             said == __jule_push_int_to_str(i)
  <1>2. left = Left(i) /\ left \in Nat
    BY <1>1 DEF Left
  <1>3. said = [minus |-> i < 0, digits |-> DigitsUpTo(left)[left]]
    BY DEF __jule_push_int_to_str, DigitsUpTo
  <1> HIDE DEF left, n
  <1>4. left \in 0 .. left
    BY <1>2
  <1>5. Number(DigitsUpTo(left)[left]) = left /\ (left = 0 => DigitsUpTo(left)[left] = <<>>)
    BY <1>2, <1>4, DigitsAre
  <1>6. said.minus = (i < 0) /\ said.digits = DigitsUpTo(left)[left]
    BY <1>3
  <1> HIDE DEF said
  <1>7. CASE i \in {0, MIN_INT}
    <2>1. left = 0
      BY <1>1, <1>2, <1>7 DEF Left
    <2>2. QED  BY <1>5, <1>6, <1>7, <2>1 DEF said
  <1>8. CASE i \notin {0, MIN_INT}
    <2>1. left = IF i < 0 THEN -i ELSE i
      BY <1>1, <1>2, <1>8 DEF Left
    <2>2. QED  BY <1>5, <1>6, <1>8, <2>1 DEF said
  <1>9. QED  BY <1>7, <1>8

\* Every part of a message is an index with its text.
PanicOK == \A k \in DOMAIN panic : \E i \in Indexes : panic[k] = <<i, __jule_push_int_to_str(i)>>

LEMMA Naming ==
  ASSUME PanicOK
  PROVE  MessageNamesIndex
  <1>1. ASSUME NEW k \in DOMAIN panic
        PROVE  LET index == panic[k][1]  said == panic[k][2]
                   size == IF index < 0 THEN -index ELSE index
               IN  /\ said.minus <=> index < 0
                   /\ IF index \in {0, MIN_INT} THEN said.digits = <<>>
                      ELSE Number(said.digits) = size
    <2>1. PICK i \in Indexes : panic[k] = <<i, __jule_push_int_to_str(i)>>
      BY <1>1 DEF PanicOK
    <2>2. panic[k][1] = i /\ panic[k][2] = __jule_push_int_to_str(i)
      BY <2>1
    <2>3. QED  BY <2>2, IndexText
  <1>2. QED  BY <1>1 DEF MessageNamesIndex

LEMMA PanicKept ==
  ASSUME PanicOK, [TextNext]_textVars
  PROVE  PanicOK'
  <1>1. ASSUME panic' = panic PROVE PanicOK'
    BY <1>1 DEF PanicOK
  <1>2. ASSUME NEW indexes, Panic(indexes), \A k \in DOMAIN indexes : indexes[k] \in Indexes PROVE PanicOK'
    <2>1. panic' = [k \in DOMAIN indexes |-> <<indexes[k], __jule_push_int_to_str(indexes[k])>>]
      BY <1>2 DEF Panic
    <2>2. DOMAIN panic' = DOMAIN indexes
      BY <2>1
    <2>3. ASSUME NEW k \in DOMAIN indexes
          PROVE  \E i \in Indexes : panic'[k] = <<i, __jule_push_int_to_str(i)>>
      <3>1. panic'[k] = <<indexes[k], __jule_push_int_to_str(indexes[k])>> /\ indexes[k] \in Indexes
        BY <1>2, <2>1
      <3>2. QED  BY <3>1
    <2>4. QED  BY <2>2, <2>3 DEF PanicOK
  <1>3. ASSUME NEW i \in Indexes, Panic(<<i>>) PROVE PanicOK'
    <2>1. \A k \in DOMAIN <<i>> : <<i>>[k] \in Indexes
      OBVIOUS
    <2>2. QED  BY <1>2, <1>3, <2>1
  <1>4. ASSUME NEW i \in Indexes, NEW j \in Indexes, Panic(<<i, j>>) PROVE PanicOK'
    <2>1. \A k \in DOMAIN <<i, j>> : <<i, j>>[k] \in Indexes
      OBVIOUS
    <2>2. QED  BY <1>2, <1>4, <2>1
  <1>5. ASSUME Panic(<<>>) PROVE PanicOK'
    <2>1. \A k \in DOMAIN <<>> : <<>>[k] \in Indexes
      OBVIOUS
    <2>2. QED  BY <1>2, <1>5, <2>1
  <1>6. ASSUME NEW i \in Indexes, NEW b \in BytesUsed, At(i, b) PROVE PanicOK'
    BY <1>1, <1>3, <1>6 DEF At, Becomes
  <1>7. ASSUME NEW i \in Indexes, NEW j \in Indexes, Alloc(i, j) \/ Slice(i, j) \/ MutSlice(i, j) PROVE PanicOK'
    BY <1>1, <1>4, <1>5, <1>7 DEF Alloc, Slice, MutSlice, Becomes
  <1>8. ASSUME NEW r \in RunesUsed, AppendRune(r) \/ PushRune(r) PROVE PanicOK'
    BY <1>1, <1>8 DEF AppendRune, PushRune, Becomes
  <1>9. ASSUME NEW b \in BytesUsed, AppendByte(b) PROVE PanicOK'
    BY <1>1, <1>9 DEF AppendByte, Becomes
  <1>10. ASSUME NEW u \in UnitsUsed, PushUnit(u) PROVE PanicOK'
    BY <1>1, <1>10 DEF PushUnit, Becomes
  <1>11. ASSUME Double \/ DropUnit \/ ToRunes \/ FromRunes \/ ToUnits \/ Encode \/ Decode \/ FromUnits
                \/ UNCHANGED textVars
         PROVE  PanicOK'
    BY <1>1, <1>11 DEF Double, DropUnit, ToRunes, FromRunes, ToUnits, Encode, Decode, FromUnits, Becomes, textVars
  <1>12. QED  BY <1>6, <1>7, <1>8, <1>9, <1>10, <1>11 DEF TextNext

-----------------------------------------------------------------------------
(* A string that is cut.                                                   *)

\* In front of a boundary ends the rune of the boundary before.
LEMMA Previous ==
  ASSUME NEW s \in Seq(Byte), NEW i \in Boundaries(s), i # 0
  PROVE  \E h \in Boundaries(s) : h < i /\ h # Len(s) /\ h + Width(s, h + 1) = i
  <1> DEFINE B == Boundaries(s)
             N == Len(s)
             T == {i - k : k \in {k \in B : k < i}}
  <1>1. /\ B \subseteq 0 .. N /\ 0 \in B /\ N \in Nat
        /\ \A h \in B \ {N} : /\ h + Width(s, h + 1) \in B
                              /\ \A k \in B : k <= h \/ h + Width(s, h + 1) <= k
    <2>1. N \in Nat
      OBVIOUS
    <2>2. QED  BY <2>1, NextBoundary
  <1>2. \A h \in B \ {N} : Width(s, h + 1) \in 1 .. 4
    <2>1. ASSUME NEW h \in B \ {N} PROVE Width(s, h + 1) \in 1 .. 4
      <3>1. h + 1 \in 1 .. Len(s)
        BY <1>1
      <3>2. QED  BY <3>1, StepFits
    <2>2. QED  BY <2>1
  <1>3. i \in B /\ i \in Int /\ i <= N
    BY <1>1
  <1> HIDE DEF B, N
  <1>4. T \in SUBSET Nat /\ T # {}
    BY <1>1, <1>3
  <1>5. PICK t \in T : \A u \in T : t <= u
    <2> HIDE DEF T
    <2>1. QED  BY <1>4, LeastNat
  <1>6. PICK h \in B : h < i /\ t = i - h
    BY <1>5
  <1>7. \A k \in B : k < i => k <= h
    <2>1. ASSUME NEW k \in B, k < i PROVE k <= h
      <3>1. i - k \in T
        BY <2>1
      <3>2. t <= i - k
        BY <1>5, <3>1
      <3>3. k \in Int /\ h \in Int
        BY <1>1
      <3>4. QED  BY <1>3, <1>6, <3>2, <3>3
    <2>2. QED  BY <2>1
  <1>8. h \in Int /\ h # N /\ h \in B \ {N}
    BY <1>1, <1>3, <1>6
  <1> DEFINE w == Width(s, h + 1)
  <1>9. w \in 1 .. 4 /\ h + w \in B /\ (i <= h \/ h + w <= i)
    BY <1>1, <1>2, <1>3, <1>8
  <1> HIDE DEF w
  <1>10. h + w <= i
    BY <1>3, <1>6, <1>8, <1>9
  <1>11. h + w = i
    <2>1. SUFFICES ASSUME h + w < i PROVE FALSE
      BY <1>3, <1>8, <1>9, <1>10
    <2>2. h + w <= h
      BY <1>7, <1>9, <2>1
    <2>3. QED  BY <1>8, <1>9, <2>2
  <1>12. QED  BY <1>6, <1>8, <1>11 DEF w, B, N

\* A rune that ends before the cut is read in front of the cut as well.
LEMMA Within ==
  ASSUME NEW s \in Seq(Byte), NEW p \in Seq(Byte), Len(p) <= Len(s),
         \A k \in 1 .. Len(p) : p[k] = s[k],
         NEW i \in 1 .. Len(p), i + Width(s, i) <= Len(p) + 1
  PROVE  Width(p, i) = Width(s, i)
  <1>1. Len(p) \in Nat /\ Len(s) \in Nat /\ i \in 1 .. Len(s) /\ i \in Int
    OBVIOUS
  <1>2. p[i] = s[i]
    OBVIOUS
  <1>3. ASSUME NEW k \in {1, 2, 3}, i + k <= Len(p) PROVE p[i + k] = s[i + k] /\ i + k <= Len(s)
    <2>1. i + k \in 1 .. Len(p)
      BY <1>1, <1>3
    <2>2. QED  BY <1>1, <1>3, <2>1
  <1>4. (i + 2 <= Len(p) => i + 1 <= Len(p)) /\ (i + 3 <= Len(p) => i + 2 <= Len(p) /\ i + 1 <= Len(p))
    BY <1>1
  <1>5. Is1(p, i) <=> Is1(s, i)
    BY <1>2 DEF Is1
  <1>6. Is2(p, i) => Is2(s, i)
    BY <1>2, <1>3 DEF Is2
  <1>7. Is3(p, i) => Is3(s, i)
    BY <1>2, <1>3, <1>4 DEF Is3
  <1>8. Is4(p, i) => Is4(s, i)
    BY <1>2, <1>3, <1>4 DEF Is4
  <1>9. CASE Is1(s, i)
    BY <1>1, <1>5, <1>9, StepIs
  <1>10. CASE Is2(s, i)
    <2>1. Width(s, i) = 2
      BY <1>1, <1>10, StepIs
    <2>2. i + 1 <= Len(p)
      BY <1>1, <2>1
    <2>3. Is2(p, i)
      BY <1>2, <1>3, <1>10, <2>2 DEF Is2
    <2>4. QED  BY <2>1, <2>3, StepIs
  <1>11. CASE Is3(s, i)
    <2>1. Width(s, i) = 3
      BY <1>1, <1>11, StepIs
    <2>2. i + 2 <= Len(p)
      BY <1>1, <2>1
    <2>3. Is3(p, i)
      BY <1>2, <1>3, <1>4, <1>11, <2>2 DEF Is3
    <2>4. QED  BY <2>1, <2>3, StepIs
  <1>12. CASE Is4(s, i)
    <2>1. Width(s, i) = 4
      BY <1>1, <1>12, StepIs
    <2>2. i + 3 <= Len(p)
      BY <1>1, <2>1
    <2>3. Is4(p, i)
      BY <1>2, <1>3, <1>4, <1>12, <2>2 DEF Is4
    <2>4. QED  BY <2>1, <2>3, StepIs
  <1>13. CASE IsNone(s, i)
    <2>1. IsNone(p, i)
      BY <1>5, <1>6, <1>7, <1>8, <1>13 DEF IsNone
    <2>2. QED  BY <1>1, <1>13, <2>1, StepIs
  <1>14. QED  BY <1>9, <1>10, <1>11, <1>12, <1>13 DEF IsNone

\* The boundaries up to a cut are boundaries of the string in front of it.
LEMMA CutInFront ==
  ASSUME NEW s \in Seq(Byte), NEW p \in Seq(Byte), Len(p) <= Len(s),
         \A k \in 1 .. Len(p) : p[k] = s[k]
  PROVE  \A i \in Boundaries(s) : i <= Len(p) => i \in Boundaries(p)
  <1> DEFINE N == Len(s)
             S == {i \in 0 .. N : i \in Boundaries(s) /\ i <= Len(p) => i \in Boundaries(p)}
  <1>1. N \in Nat /\ Len(p) \in Nat /\ Boundaries(s) \subseteq 0 .. N
    <2>1. N \in Nat /\ Len(p) \in Nat
      OBVIOUS
    <2>2. QED  BY <2>1, NextBoundary
  <1>2. ASSUME NEW i \in 0 .. N, \A k \in 0 .. i - 1 : k \in S PROVE i \in S
    <2>1. SUFFICES ASSUME i \in Boundaries(s), i <= Len(p) PROVE i \in Boundaries(p)
      BY <1>2
    <2>2. CASE i = 0
      BY <2>2, NextBoundary
    <2>3. CASE i # 0
      <3>1. PICK h \in Boundaries(s) : h < i /\ h # Len(s) /\ h + Width(s, h + 1) = i
        BY <2>1, <2>3, Previous
      <3>2. h \in 0 .. i - 1 /\ h <= Len(p) /\ h # Len(p) /\ h + 1 \in 1 .. Len(p)
        BY <1>1, <2>1, <3>1
      <3>3. h \in Boundaries(p)
        BY <1>2, <3>2
      <3>4. h + 1 \in 1 .. Len(s)
        BY <1>1, <3>2
      <3>5. Width(s, h + 1) \in 1 .. 4
        BY <3>4, StepFits
      <3>6. (h + 1) + Width(s, h + 1) <= Len(p) + 1
        BY <1>1, <2>1, <3>1, <3>2, <3>5
      <3>7. Width(p, h + 1) = Width(s, h + 1)
        BY <3>2, <3>6, Within
      <3>8. h + Width(p, h + 1) \in Boundaries(p)
        BY <3>2, <3>3, NextBoundary
      <3>9. QED  BY <3>1, <3>7, <3>8
    <2>4. QED  BY <2>2, <2>3
  <1>3. 0 .. N \subseteq S
    <2> HIDE DEF S, N
    <2>1. QED  BY <1>1, <1>2, Strongly
  <1>4. QED  BY <1>1, <1>3

\* Behind its first byte a rune has only bytes that can only be in the middle.
LEMMA MiddleOf ==
  ASSUME NEW s \in Seq(Byte), NEW i \in 1 .. Len(s), NEW j \in i + 1 .. i + Width(s, i) - 1
  PROVE  s[j] \in 128 .. 191
  <1> DEFINE w == Width(s, i)
  <1>1. w \in 1 .. 4 /\ i \in Int /\ j \in Int /\ i + 1 <= j /\ j <= i + w - 1
    BY StepFits
  <1>2. CASE IsNone(s, i)
    <2>1. w = 1
      BY <1>2, StepIs
    <2> HIDE DEF w
    <2>2. QED  BY <1>1, <2>1
  <1>3. CASE ~IsNone(s, i)
    <2>1. \/ w = 1
          \/ w = 2 /\ Two(s[i], s[i + 1])
          \/ w = 3 /\ Three(s[i], s[i + 1], s[i + 2])
          \/ w = 4 /\ Four(s[i], s[i + 1], s[i + 2], s[i + 3])
      BY <1>3, WindowIs
    <2> HIDE DEF w
    <2>2. CASE w = 1
      BY <1>1, <2>2
    <2>3. CASE w = 2 /\ Two(s[i], s[i + 1])
      <3>1. j = i + 1
        BY <1>1, <2>3
      <3>2. QED  BY <2>3, <3>1 DEF Two
    <2>4. CASE w = 3 /\ Three(s[i], s[i + 1], s[i + 2])
      <3>1. j = i + 1 \/ j = i + 2
        BY <1>1, <2>4
      <3>2. QED  BY <2>4, <3>1 DEF Three
    <2>5. CASE w = 4 /\ Four(s[i], s[i + 1], s[i + 2], s[i + 3])
      <3>1. j = i + 1 \/ j = i + 2 \/ j = i + 3
        BY <1>1, <2>5
      <3>2. s[i + 1] \in 128 .. 191 /\ s[i + 2] \in 128 .. 191 /\ s[i + 3] \in 128 .. 191
        BY <2>5 DEF Four
      <3>3. QED  BY <3>1, <3>2
    <2>6. QED  BY <2>1, <2>2, <2>3, <2>4, <2>5
  <1>4. QED  BY <1>2, <1>3

\* From a boundary of the string behind a cut on, its boundaries are those of
\* the whole string; bytes that can only be in the middle are skipped one by one.
LEMMA CutBehind ==
  ASSUME NEW s \in Seq(Byte), NEW t \in Seq(Byte), NEW k \in Nat, Len(s) = k + Len(t),
         \A j \in 1 .. Len(t) : t[j] = s[k + j]
  PROVE  \A i \in Boundaries(s) : i >= k => i - k \in Boundaries(t)
  <1> DEFINE N == Len(s)
             S == {i \in 0 .. N : i \in Boundaries(s) /\ i >= k => i - k \in Boundaries(t)}
  <1>1. N \in Nat /\ Len(t) \in Nat /\ Boundaries(s) \subseteq 0 .. N
    <2>1. N \in Nat /\ Len(t) \in Nat
      OBVIOUS
    <2>2. QED  BY <2>1, NextBoundary
  <1>2. ASSUME NEW i \in 0 .. N, \A j \in 0 .. i - 1 : j \in S PROVE i \in S
    <2>1. SUFFICES ASSUME i \in Boundaries(s), i >= k PROVE i - k \in Boundaries(t)
      BY <1>2
    <2>2. CASE i = k
      <3>1. i - k = 0
        BY <1>1, <2>2
      <3>2. QED  BY <3>1, NextBoundary
    <2>3. CASE i # k
      <3>1. i # 0
        BY <1>1, <2>1, <2>3
      <3>2. PICK h \in Boundaries(s) : h < i /\ h # Len(s) /\ h + Width(s, h + 1) = i
        BY <2>1, <3>1, Previous
      <3>3. h \in 0 .. i - 1 /\ h + 1 \in 1 .. Len(s)
        BY <1>1, <3>2
      <3>4. CASE h >= k
        <4> DEFINE m == h - k
        <4>1. m \in Boundaries(t)
          BY <1>2, <3>2, <3>3, <3>4
        <4>2. m + 1 \in 1 .. Len(t) /\ m \in Nat /\ Len(s) - (h + 1) = Len(t) - (m + 1) /\ m # Len(t)
          BY <1>1, <3>3, <3>4
        <4>3. ASSUME NEW j \in 0 .. Len(s) - (h + 1) PROVE s[(h + 1) + j] = t[(m + 1) + j]
          <5>1. (m + 1) + j \in 1 .. Len(t) /\ k + ((m + 1) + j) = (h + 1) + j
            BY <1>1, <3>3, <4>2
          <5>2. QED  BY <5>1
        <4> HIDE DEF m
        <4>4. Width(s, h + 1) = Width(t, m + 1)
          <5> DEFINE a == h + 1
                     b == m + 1
          <5>1. /\ a \in 1 .. Len(s) /\ b \in 1 .. Len(t) /\ Len(s) - a = Len(t) - b
                /\ \A j \in 0 .. Len(s) - a : s[a + j] = t[b + j]
            BY <3>3, <4>2, <4>3
          <5> HIDE DEF a, b
          <5>2. Width(s, a) = Width(t, b) /\ RuneAt(s, a) = RuneAt(t, b) /\ (IsNone(s, a) <=> IsNone(t, b))
            BY ONLY <5>1, s \in Seq(Byte), t \in Seq(Byte), SameView
          <5>3. QED  BY <5>2 DEF a, b
        <4>5. m + Width(t, m + 1) \in Boundaries(t)
          BY <4>1, <4>2, NextBoundary
        <4>6. Width(s, h + 1) \in 1 .. 4
          BY <3>3, StepFits
        <4>7. m + Width(t, m + 1) = i - k
          BY <1>1, <3>2, <3>3, <4>4, <4>6 DEF m
        <4>8. QED  BY <4>5, <4>7
      <3>5. CASE ~(h >= k)
        <4> DEFINE e == i - k
                   U == {j \in 0 .. e : j \in Boundaries(t)}
        <4>1. e \in Nat /\ e <= Len(t) /\ i \in Int /\ h \in Int
          BY <1>1, <2>1, <3>3
        <4>2. 0 \in U
          BY <4>1, NextBoundary
        <4>3. ASSUME NEW j \in 0 .. e - 1, j \in U PROVE j + 1 \in U
          <5>1. j + 1 \in 1 .. Len(t) /\ j # Len(t) /\ j + 1 \in 0 .. e
            BY <1>1, <4>1
          <5>2. k + (j + 1) \in (h + 1) + 1 .. (h + 1) + Width(s, h + 1) - 1
            <6>1. Width(s, h + 1) \in 1 .. 4
              BY <3>3, StepFits
            <6>2. k + (j + 1) <= i /\ k + (j + 1) >= h + 2
              BY <3>5, <4>1
            <6>3. QED  BY <3>2, <4>1, <6>1, <6>2
          <5>3. s[k + (j + 1)] \in 128 .. 191
            BY <3>3, <5>2, MiddleOf
          <5>4. t[j + 1] \in 128 .. 191
            BY <5>1, <5>3
          <5>5. Width(t, j + 1) = 1
            BY <5>1, <5>4, MiddleIsNone
          <5>6. j + Width(t, j + 1) \in Boundaries(t)
            BY <4>3, <5>1, NextBoundary
          <5>7. QED  BY <5>1, <5>5, <5>6
        <4>4. 0 .. e \subseteq U
          <5> HIDE DEF U, e
          <5>1. QED  BY <4>1, <4>2, <4>3, UpTo
        <4>5. e \in U
          BY <4>1, <4>4
        <4>6. QED  BY <4>5
      <3>6. QED  BY <3>4, <3>5
    <2>4. QED  BY <2>2, <2>3
  <1>3. 0 .. N \subseteq S
    <2> HIDE DEF S, N
    <2>1. QED  BY <1>1, <1>2, Strongly
  <1>4. QED  BY <1>1, <1>3

LEMMA Cutting ==
  ASSUME form = "str" => value \in Seq(Byte)
  PROVE  Resynchronises /\ MutSliceIsSlice
  <1>1. SUFFICES ASSUME form = "str" PROVE Resynchronises /\ MutSliceIsSlice
    BY DEF Resynchronises, MutSliceIsSlice
  <1>2. value \in Seq(Byte) /\ Len(value) \in Nat
    BY <1>1
  <1>3. ASSUME NEW k \in 0 .. Len(value)
        PROVE  /\ {i \in Boundaries(value) : i <= k} \subseteq Boundaries(slice(value, 0, k))
               /\ {i - k : i \in {i \in Boundaries(value) : i >= k}}
                    \subseteq Boundaries(slice(value, k, Len(value)))
    <2> DEFINE p == slice(value, 0, k)
               t == slice(value, k, Len(value))
    <2>1. 0 \in 0 .. Len(value) /\ k \in 0 .. Len(value) /\ Len(value) \in k .. Len(value) /\ k \in Nat
      BY <1>2
    <2>2. p \in Seq(Byte) /\ Len(p) = k - 0 /\ \A j \in 1 .. k - 0 : p[j] = value[0 + j]
      BY <1>2, <2>1, SliceIs
    <2>3. t \in Seq(Byte) /\ Len(t) = Len(value) - k /\ \A j \in 1 .. Len(value) - k : t[j] = value[k + j]
      BY <1>2, <2>1, SliceIs
    <2> HIDE DEF p, t
    <2>4. Len(p) = k /\ \A j \in 1 .. Len(p) : p[j] = value[j]
      <3>1. k - 0 = k /\ \A j \in 1 .. k : 0 + j = j
        BY <2>1
      <3>2. QED  BY <2>2, <3>1
    <2>5. Len(value) = k + Len(t)
      BY <1>2, <2>1, <2>3
    <2>6. \A i \in Boundaries(value) : i <= k => i \in Boundaries(p)
      <3>1. Len(p) <= Len(value)
        BY <2>1, <2>4
      <3>2. QED  BY <1>2, <2>2, <2>4, <3>1, CutInFront
    <2>7. \A i \in Boundaries(value) : i >= k => i - k \in Boundaries(t)
      BY <1>2, <2>1, <2>3, <2>5, CutBehind
    <2>8. QED  BY <2>6, <2>7 DEF p, t
  <1>4. Resynchronises
    BY <1>3 DEF Resynchronises
  <1>5. MutSliceIsSlice
    <2>1. ASSUME NEW i \in 0 .. Len(value), NEW j \in 0 .. Len(value), i <= j
          PROVE  mut_slice(value, i, j) = slice(value, i, j)
      <3>1. j \in i .. Len(value)
        BY <2>1
      <3>2. QED  BY <1>2, <3>1, MutSliceIs
    <2>2. QED  BY <2>1 DEF MutSliceIsSlice
  <1>6. QED  BY <1>4, <1>5

-----------------------------------------------------------------------------
(* A str on its way through []rune.                                        *)

\* The bytes of runes behind a rune are written behind its bytes.
LEMMA EncodeCons ==
  ASSUME NEW r \in Int, NEW t \in Seq(Int)
  PROVE  runes_to_utf8(<<r>> \o t) = utf8_push_rune_bytes(r) \o runes_to_utf8(t)
  <1> DEFINE s == <<r>> \o t
             N == Len(t)
             g == Encoded(s)
             h == Encoded(t)
             p == utf8_push_rune_bytes(r)
             T == {n \in 0 .. N : g[n + 1] = p \o h[n]}
  <1>1. /\ N \in Nat /\ s \in Seq(Int) /\ Len(s) = N + 1 /\ s[1] = r
        /\ \A k \in 2 .. N + 1 : s[k] = t[k - 1]
    <2>1. N \in Nat
      OBVIOUS
    <2>2. QED  BY <2>1, ConsIs
  <1> HIDE DEF s
  <1>2. /\ h \in [0 .. N -> Seq(Byte)] /\ h[0] = <<>> /\ runes_to_utf8(t) = h[N]
        /\ \A n \in 1 .. N : h[n] = h[n - 1] \o utf8_push_rune_bytes(t[n])
    BY EncodedIs
  <1>3. /\ g[0] = <<>> /\ runes_to_utf8(s) = g[Len(s)]
        /\ \A n \in 1 .. Len(s) : g[n] = g[n - 1] \o utf8_push_rune_bytes(s[n])
    BY <1>1, EncodedIs
  <1>4. p \in Seq(Byte)
    BY PushFits
  <1>5. \A n \in 1 .. N : t[n] \in Int
    OBVIOUS
  <1> HIDE DEF g, h, N
  <1>6. g[1] = p
    <2>1. 1 \in 1 .. Len(s) /\ 1 - 1 = 0
      BY <1>1
    <2>2. g[1] = <<>> \o p
      BY <1>1, <1>3, <2>1
    <2> HIDE DEF p
    <2>3. <<>> \o p = p
      BY <1>4, ConcatEmptySeq
    <2>4. QED  BY <2>2, <2>3
  <1> HIDE DEF p
  <1>7. 0 \in T
    <2>1. 0 \in 0 .. N /\ 0 + 1 = 1
      BY <1>1
    <2>2. p \o <<>> = p
      BY <1>4, ConcatEmptySeq
    <2>3. QED  BY <1>2, <1>6, <2>1, <2>2
  <1>8. ASSUME NEW n \in 0 .. N - 1, n \in T PROVE n + 1 \in T
    <2> DEFINE m == n + 1
               q == utf8_push_rune_bytes(t[m])
    <2>1. m \in 1 .. N /\ m - 1 = n /\ n \in 0 .. N /\ m \in 0 .. N
      BY <1>1
    <2>2. m + 1 \in 1 .. Len(s) /\ (m + 1) - 1 = m /\ m + 1 \in 2 .. N + 1 /\ m = n + 1
      BY <1>1, <2>1
    <2>3. q \in Seq(Byte) /\ h[n] \in Seq(Byte)
      BY <1>2, <1>5, <2>1, PushFits
    <2> HIDE DEF m
    <2>4. h[m] = h[n] \o q
      BY <1>2, <2>1
    <2>5. g[m + 1] = g[m] \o q
      <3>1. s[m + 1] = t[m]
        BY <1>1, <2>2
      <3>2. QED  BY <1>3, <2>2, <3>1
    <2>6. g[m] = p \o h[n]
      BY <1>8, <2>2
    <2> HIDE DEF q
    <2>7. (p \o h[n]) \o q = p \o (h[n] \o q)
      BY <1>4, <2>3, JoinBytes
    <2>8. g[m + 1] = p \o h[m]
      BY <2>4, <2>5, <2>6, <2>7
    <2>9. QED  BY <2>1, <2>2, <2>8
  <1>9. 0 .. N \subseteq T
    <2> HIDE DEF T
    <2>1. QED  BY <1>1, <1>7, <1>8, UpTo
  <1>10. N \in T
    <2> HIDE DEF T
    <2>1. N \in 0 .. N
      BY <1>1
    <2>2. QED  BY ONLY <1>9, <2>1
  <1>11. runes_to_utf8(s) = p \o h[N]
    BY <1>1, <1>3, <1>10
  <1>12. QED  BY <1>2, <1>11 DEF s, p

\* A rune has one window only.
LEMMA OneWindow ==
  /\ \A b, c, p, q : Two(b, c) /\ Two(p, q) /\ Of2(b, c) = Of2(p, q) => b = p /\ c = q
  /\ \A b, c, d, p, q, r : Three(b, c, d) /\ Three(p, q, r) /\ Of3(b, c, d) = Of3(p, q, r)
                             => b = p /\ c = q /\ d = r
  /\ \A b, c, d, e, p, q, r, t : Four(b, c, d, e) /\ Four(p, q, r, t) /\ Of4(b, c, d, e) = Of4(p, q, r, t)
                                   => b = p /\ c = q /\ d = r /\ e = t
  <1>1. ASSUME NEW b, NEW c, NEW p, NEW q, Two(b, c), Two(p, q), Of2(b, c) = Of2(p, q)
        PROVE  b = p /\ c = q
    BY <1>1, SMT DEF Two, Of2
  <1>2. ASSUME NEW b, NEW c, NEW d, NEW p, NEW q, NEW r, Three(b, c, d), Three(p, q, r),
               Of3(b, c, d) = Of3(p, q, r)
        PROVE  b = p /\ c = q /\ d = r
    BY <1>2, SMT DEF Three, Of3
  <1>3. ASSUME NEW b, NEW c, NEW d, NEW e, NEW p, NEW q, NEW r, NEW t, Four(b, c, d, e), Four(p, q, r, t),
               Of4(b, c, d, e) = Of4(p, q, r, t)
        PROVE  b = p /\ c = q /\ d = r /\ e = t
    BY <1>3, SMT DEF Four, Of4
  <1>4. QED  BY <1>1, <1>2, <1>3

\* The bytes of the rune at byte i.
LEMMA PartIs ==
  ASSUME NEW s \in Seq(Byte), NEW i \in 1 .. Len(s)
  PROVE  /\ SubSeq(s, i, i) = <<s[i]>>
         /\ i + 1 <= Len(s) => SubSeq(s, i, i + 1) = <<s[i], s[i + 1]>>
         /\ i + 2 <= Len(s) => SubSeq(s, i, i + 2) = <<s[i], s[i + 1], s[i + 2]>>
         /\ i + 3 <= Len(s) => SubSeq(s, i, i + 3) = <<s[i], s[i + 1], s[i + 2], s[i + 3]>>
  <1>1. Len(s) \in Nat /\ i \in Nat /\ 1 <= i /\ i <= Len(s)
    OBVIOUS
  <1>2. ASSUME NEW k \in 0 .. 3, i + k <= Len(s)
        PROVE  /\ SubSeq(s, i, i + k) \in Seq(Byte) /\ Len(SubSeq(s, i, i + k)) = k + 1
               /\ \A j \in 1 .. k + 1 : SubSeq(s, i, i + k)[j] = s[i + j - 1]
    <2>1. i \in 1 .. Len(s) + 1 /\ i + k \in i - 1 .. Len(s) /\ (i + k) - i + 1 = k + 1
      BY <1>1, <1>2
    <2>2. i + k \in 1 .. Len(s) /\ i <= i + k
      BY <1>1, <1>2
    <2>3. /\ SubSeq(s, i, i + k) \in Seq(Byte) /\ Len(SubSeq(s, i, i + k)) = (i + k) - i + 1
          /\ \A j \in 1 .. (i + k) - i + 1 : SubSeq(s, i, i + k)[j] = s[i + j - 1]
      BY <2>2, SubSeqProperties
    <2>4. QED  BY <2>1, <2>3
  <1>3. i + 0 = i /\ i + 1 - 1 = i /\ i + 2 - 1 = i + 1 /\ i + 3 - 1 = i + 2 /\ i + 4 - 1 = i + 3
    BY <1>1
  <1>4. SubSeq(s, i, i) = <<s[i]>>
    <2> DEFINE d == SubSeq(s, i, i)
    <2>1. d \in Seq(Byte) /\ Len(d) = 1 /\ d[1] = s[i]
      BY <1>1, <1>2, <1>3
    <2> HIDE DEF d
    <2>2. d = <<d[1]>>
      BY <2>1
    <2>3. QED  BY <2>1, <2>2 DEF d
  <1>5. ASSUME i + 1 <= Len(s) PROVE SubSeq(s, i, i + 1) = <<s[i], s[i + 1]>>
    <2> DEFINE d == SubSeq(s, i, i + 1)
    <2>1. d \in Seq(Byte) /\ Len(d) = 2 /\ d[1] = s[i] /\ d[2] = s[i + 1]
      BY <1>1, <1>2, <1>3, <1>5
    <2> HIDE DEF d
    <2>2. d = <<d[1], d[2]>>
      BY <2>1
    <2>3. QED  BY <2>1, <2>2 DEF d
  <1>6. ASSUME i + 2 <= Len(s) PROVE SubSeq(s, i, i + 2) = <<s[i], s[i + 1], s[i + 2]>>
    <2> DEFINE d == SubSeq(s, i, i + 2)
    <2>1. d \in Seq(Byte) /\ Len(d) = 3 /\ d[1] = s[i] /\ d[2] = s[i + 1] /\ d[3] = s[i + 2]
      BY <1>1, <1>2, <1>3, <1>6
    <2> HIDE DEF d
    <2>2. d = <<d[1], d[2], d[3]>>
      BY <2>1
    <2>3. QED  BY <2>1, <2>2 DEF d
  <1>7. ASSUME i + 3 <= Len(s) PROVE SubSeq(s, i, i + 3) = <<s[i], s[i + 1], s[i + 2], s[i + 3]>>
    <2> DEFINE d == SubSeq(s, i, i + 3)
    <2>1. d \in Seq(Byte) /\ Len(d) = 4 /\ d[1] = s[i] /\ d[2] = s[i + 1] /\ d[3] = s[i + 2] /\ d[4] = s[i + 3]
      BY <1>1, <1>2, <1>3, <1>7
    <2> HIDE DEF d
    <2>2. d = <<d[1], d[2], d[3], d[4]>>
      BY <2>1
    <2>3. QED  BY <2>1, <2>2 DEF d
  <1>8. QED  BY <1>4, <1>5, <1>6, <1>7

\* A rune other than U+07FF is written as it was read.
LEMMA PushBack ==
  ASSUME NEW s \in Seq(Byte), NEW i \in 1 .. Len(s), ~IsNone(s, i), RuneAt(s, i) # 2047
  PROVE  utf8_push_rune_bytes(RuneAt(s, i)) = SubSeq(s, i, i + Width(s, i) - 1)
  <1> DEFINE r == RuneAt(s, i)
             w == Width(s, i)
  <1>1. r \in Int /\ IsValid(r) /\ w \in 1 .. 4 /\ i + w <= Len(s) + 1 /\ i \in Int /\ Len(s) \in Nat
    BY StepFits
  <1>2. Written(r) = r
    BY <1>1 DEF Written
  <1>3. \/ w = 1 /\ s[i] \in 0 .. 127 /\ r = s[i]
        \/ w = 2 /\ Two(s[i], s[i + 1]) /\ r = Of2(s[i], s[i + 1])
        \/ w = 3 /\ Three(s[i], s[i + 1], s[i + 2]) /\ r = Of3(s[i], s[i + 1], s[i + 2])
        \/ /\ w = 4 /\ Four(s[i], s[i + 1], s[i + 2], s[i + 3])
           /\ r = Of4(s[i], s[i + 1], s[i + 2], s[i + 3])
    BY WindowIs
  <1>4. r # 2047
    OBVIOUS
  <1> HIDE DEF r, w
  <1>5. CASE w = 1 /\ s[i] \in 0 .. 127 /\ r = s[i]
    <2>1. 0 <= r /\ r < 128
      <3>1. r \in 0 .. 127
        BY <1>5
      <3>2. QED  BY <1>1, <3>1
    <2>2. utf8_push_rune_bytes(r) = <<r>>
      BY <1>1, <2>1, PushIs
    <2>3. i + w - 1 = i
      BY <1>1, <1>5
    <2>4. QED  BY <1>5, <2>2, <2>3, PartIs DEF r, w
  <1>6. CASE w = 2 /\ Two(s[i], s[i + 1]) /\ r = Of2(s[i], s[i + 1])
    <2>1. 128 <= r /\ r < 2047
      BY <1>1, <1>4, <1>6, Of2Is
    <2>2. PICK b, c \in Byte : utf8_push_rune_bytes(r) = <<b, c>> /\ Two(b, c) /\ Of2(b, c) = r
      BY <1>1, <2>1, PushIs
    <2>3. b = s[i] /\ c = s[i + 1]
      BY <1>6, <2>2, OneWindow
    <2>4. i + w - 1 = i + 1 /\ i + 1 <= Len(s)
      BY <1>1, <1>6
    <2>5. SubSeq(s, i, i + 1) = <<s[i], s[i + 1]>>
      BY <2>4, PartIs
    <2>6. QED  BY <2>2, <2>3, <2>4, <2>5, SMTT(60) DEF r, w
  <1>7. CASE w = 3 /\ Three(s[i], s[i + 1], s[i + 2]) /\ r = Of3(s[i], s[i + 1], s[i + 2])
    <2>1. 2048 <= r /\ r < SURR_SELF
      BY <1>7, Of3Is
    <2>2. PICK b, c, d \in Byte : utf8_push_rune_bytes(r) = <<b, c, d>> /\ Three(b, c, d) /\ Of3(b, c, d) = r
      BY <1>1, <1>2, <2>1, PushIs
    <2>3. b = s[i] /\ c = s[i + 1] /\ d = s[i + 2]
      BY <1>7, <2>2, OneWindow
    <2>4. i + w - 1 = i + 2 /\ i + 2 <= Len(s)
      BY <1>1, <1>7
    <2>5. SubSeq(s, i, i + 2) = <<s[i], s[i + 1], s[i + 2]>>
      BY <2>4, PartIs
    <2>6. QED  BY <2>2, <2>3, <2>4, <2>5 DEF r, w
  <1>8. CASE w = 4 /\ Four(s[i], s[i + 1], s[i + 2], s[i + 3]) /\ r = Of4(s[i], s[i + 1], s[i + 2], s[i + 3])
    <2>1. SURR_SELF <= r /\ r <= MAX_RUNE
      BY <1>8, Of4Is
    <2>2. PICK b, c, d, e \in Byte : utf8_push_rune_bytes(r) = <<b, c, d, e>> /\ Four(b, c, d, e) /\ Of4(b, c, d, e) = r
      BY <1>1, <2>1, PushIs
    <2>3. b = s[i] /\ c = s[i + 1] /\ d = s[i + 2] /\ e = s[i + 3]
      BY <1>8, <2>2, OneWindow
    <2>4. i + w - 1 = i + 3 /\ i + 3 <= Len(s)
      BY <1>1, <1>8
    <2>5. SubSeq(s, i, i + 3) = <<s[i], s[i + 1], s[i + 2], s[i + 3]>>
      BY <2>4, PartIs
    <2>6. <<b, c, d, e>> = <<s[i], s[i + 1], s[i + 2], s[i + 3]>>
      BY <2>3
    <2>7. utf8_push_rune_bytes(r) = SubSeq(s, i, i + w - 1)
      <3> DEFINE u == <<s[i], s[i + 1], s[i + 2], s[i + 3]>>
                 v == <<b, c, d, e>>
      <3>1. utf8_push_rune_bytes(r) = v /\ v = u /\ SubSeq(s, i, i + 3) = u
        BY <2>2, <2>5, <2>6
      <3> HIDE DEF u, v
      <3>2. QED  BY <2>4, <3>1
    <2>8. QED  BY <2>7 DEF r, w
  <1>9. QED  BY <1>3, <1>5, <1>6, <1>7, <1>8

\* A part of a string and the part behind it.
LEMMA PartsJoin ==
  ASSUME NEW s \in Seq(Byte), NEW i \in 1 .. Len(s), NEW n \in i + 1 .. Len(s) + 1
  PROVE  SubSeq(s, i, n - 1) \o SubSeq(s, n, Len(s)) = SubSeq(s, i, Len(s))
  OBVIOUS

LEMMA FromBoundary ==
  ASSUME NEW s \in Seq(Byte), WellFormed(s)
  PROVE  \A i \in 1 .. Len(s) + 1 :
           i - 1 \in Boundaries(s) /\ 2047 \notin Range(RunesFrom(s)[i])
             => runes_to_utf8(RunesFrom(s)[i]) = SubSeq(s, i, Len(s))
  <1> DEFINE N == Len(s)
             g == RunesFrom(s)
             Back(i) == i - 1 \in Boundaries(s) /\ 2047 \notin Range(g[i])
                        => runes_to_utf8(g[i]) = SubSeq(s, i, N)
             S == {i \in 1 .. N + 1 : Back(i)}
  <1>1. /\ N \in Nat /\ g \in [1 .. N + 1 -> Seq(Int)] /\ g[N + 1] = <<>>
        /\ \A i \in 1 .. N : g[i] = <<RuneAt(s, i)>> \o g[i + Width(s, i)]
    <2>1. N \in Nat
      OBVIOUS
    <2>2. QED  BY <2>1, RunesAre
  <1> HIDE DEF g
  <1>2. ASSUME NEW i \in 1 .. N + 1, \A j \in i + 1 .. N + 1 : j \in S PROVE Back(i)
    <2>1. SUFFICES ASSUME i - 1 \in Boundaries(s), 2047 \notin Range(g[i])
                   PROVE  runes_to_utf8(g[i]) = SubSeq(s, i, N)
      OBVIOUS
    <2>2. CASE i = N + 1
      <3>1. runes_to_utf8(<<>>) = <<>>
        <4> DEFINE e == <<>>
        <4>1. e \in Seq(Int) /\ Len(e) = 0
          OBVIOUS
        <4> HIDE DEF e
        <4>2. runes_to_utf8(e) = Encoded(e)[Len(e)] /\ Encoded(e)[0] = <<>>
          BY <4>1, EncodedIs
        <4>3. QED  BY <4>1, <4>2 DEF e
      <3>2. SubSeq(s, i, N) = <<>>
        BY <1>1, <2>2
      <3>3. QED  BY <1>1, <2>2, <3>1, <3>2
    <2>3. CASE i # N + 1
      <3> DEFINE r == RuneAt(s, i)
                 n == i + Width(s, i)
                 x == g[n]
      <3>1. i \in 1 .. Len(s) /\ i - 1 # Len(s) /\ (i - 1) + 1 = i
        BY <1>1, <2>3
      <3>2. ~IsNone(s, i) /\ (i - 1) + Width(s, i) \in Boundaries(s)
        BY <2>1, <3>1, WellFormedStep, NextBoundary
      <3>3. n \in i + 1 .. N + 1 /\ r \in Int /\ Width(s, i) \in Int
        BY <3>1, StepFits
      <3>4. n - 1 \in Boundaries(s)
        <4>1. n - 1 = (i - 1) + Width(s, i)
          BY <3>1, <3>3
        <4>2. QED  BY <3>2, <4>1
      <3>5. g[i] = <<r>> \o x /\ x \in Seq(Int)
        <4>1. n \in 1 .. N + 1
          BY <1>1, <3>1, <3>3
        <4>2. QED  BY <1>1, <3>1, <4>1
      <3> HIDE DEF r
      <3>6. n \in S
        BY <1>2, <3>3
      <3> HIDE DEF n
      <3>7. r # 2047 /\ 2047 \notin Range(x)
        <4>1. /\ Len(g[i]) = Len(x) + 1 /\ g[i][1] = r /\ g[i] \in Seq(Int) /\ Len(x) \in Nat
              /\ \A k \in 2 .. Len(x) + 1 : g[i][k] = x[k - 1]
          BY <3>3, <3>5, ConsIs
        <4>2. DOMAIN g[i] = 1 .. Len(x) + 1 /\ DOMAIN x = 1 .. Len(x)
          BY <3>5, <4>1
        <4>3. \A k \in 1 .. Len(x) + 1 : g[i][k] # 2047
          BY <2>1, <4>2 DEF Range
        <4>4. r # 2047
          <5>1. 1 \in 1 .. Len(x) + 1
            BY <4>1
          <5>2. QED  BY <4>1, <4>3, <5>1
        <4>5. \A k \in 1 .. Len(x) : x[k] # 2047
          <5>1. \A k \in 1 .. Len(x) : k + 1 \in 2 .. Len(x) + 1 /\ k + 1 \in 1 .. Len(x) + 1 /\ (k + 1) - 1 = k
            BY <4>1
          <5>2. ASSUME NEW k \in 1 .. Len(x) PROVE x[k] # 2047
            <6>1. g[i][k + 1] = x[(k + 1) - 1] /\ g[i][k + 1] # 2047
              BY <4>1, <4>3, <5>1
            <6>2. QED  BY <5>1, <6>1
          <5>3. QED  BY <5>2
        <4>6. QED  BY <4>2, <4>4, <4>5 DEF Range
      <3>8. runes_to_utf8(x) = SubSeq(s, n, N)
        BY <3>4, <3>6, <3>7
      <3>9. utf8_push_rune_bytes(r) = SubSeq(s, i, n - 1)
        <4>1. i \in 1 .. Len(s) /\ ~IsNone(s, i) /\ RuneAt(s, i) # 2047
          BY <3>1, <3>2, <3>7 DEF r
        <4>2. utf8_push_rune_bytes(RuneAt(s, i)) = SubSeq(s, i, i + Width(s, i) - 1)
          BY <4>1, PushBack
        <4>3. i + Width(s, i) - 1 = n - 1
          BY <3>3 DEF n
        <4>4. QED  BY <4>2, <4>3 DEF r
      <3>10. SubSeq(s, i, n - 1) \o SubSeq(s, n, N) = SubSeq(s, i, N)
        BY <3>1, <3>3, PartsJoin
      <3> HIDE DEF x, N
      <3>11. runes_to_utf8(<<r>> \o x) = utf8_push_rune_bytes(r) \o runes_to_utf8(x)
        BY <3>3, <3>5, EncodeCons
      <3>12. QED  BY <3>5, <3>8, <3>9, <3>10, <3>11
    <2>4. QED  BY <2>2, <2>3
  <1>3. 1 .. N + 1 \subseteq S
    <2>1. \A i \in 1 .. N + 1 : (\A j \in i + 1 .. N + 1 : j \in S) => i \in S
      BY <1>2
    <2> HIDE DEF S, N
    <2>2. QED  BY <1>1, <2>1, Backwards
  <1>4. QED  BY <1>3 DEF g

LEMMA TextReadsBackIs ==
  ASSUME form = "str" => value \in Seq(Byte)
  PROVE  TextReadsBack
  <1>1. SUFFICES ASSUME form = "str", WellFormed(value), 2047 \notin Range(utf8_to_runes(value))
                 PROVE  runes_to_utf8(utf8_to_runes(value)) = value
    BY DEF TextReadsBack
  <1>2. value \in Seq(Byte)
    BY <1>1
  <1>3. 1 \in 1 .. Len(value) + 1 /\ 1 - 1 = 0
    BY <1>2
  <1>4. utf8_to_runes(value) = RunesFrom(value)[1] /\ 0 \in Boundaries(value)
    BY <1>2, RunesAre, NextBoundary
  <1>5. runes_to_utf8(RunesFrom(value)[1]) = SubSeq(value, 1, Len(value))
    BY <1>1, <1>2, <1>3, <1>4, FromBoundary
  <1>6. SubSeq(value, 1, Len(value)) = value
    BY <1>2
  <1>7. QED  BY <1>4, <1>5, <1>6

-----------------------------------------------------------------------------
(* Runes on their way through UTF-16.                                      *)

LEMMA UnitsBehind ==
  ASSUME NEW p \in Seq(Unit), NEW t \in Seq(Unit)
  PROVE  /\ p \o t \in Seq(Unit) /\ Len(p \o t) = Len(p) + Len(t)
         /\ \A i \in 1 .. Len(t) : /\ Len(p) + i \in 1 .. Len(p \o t)
                                   /\ UnitWidth(p \o t, Len(p) + i) = UnitWidth(t, i)
                                   /\ UnitRune(p \o t, Len(p) + i) = UnitRune(t, i)
  <1> DEFINE s == p \o t
  <1>1. /\ s \in Seq(Unit) /\ Len(s) = Len(p) + Len(t)
        /\ \A i \in 1 .. Len(p) + Len(t) : s[i] = IF i <= Len(p) THEN p[i] ELSE t[i - Len(p)]
    BY ConcatProperties
  <1>2. Len(p) \in Nat /\ Len(t) \in Nat
    OBVIOUS
  <1> HIDE DEF s
  <1>3. ASSUME NEW i \in 1 .. Len(t)
        PROVE  /\ Len(p) + i \in 1 .. Len(s)
               /\ UnitWidth(s, Len(p) + i) = UnitWidth(t, i) /\ UnitRune(s, Len(p) + i) = UnitRune(t, i)
    <2> DEFINE j == Len(p) + i
    <2>1. /\ j \in 1 .. Len(s) /\ j \in 1 .. Len(p) + Len(t) /\ ~(j <= Len(p)) /\ j - Len(p) = i
          /\ j < Len(s) <=> i < Len(t)
      BY <1>1, <1>2
    <2>2. s[j] = t[i]
      BY <1>1, <2>1
    <2>3. j < Len(s) => s[j + 1] = t[i + 1]
      <3>1. SUFFICES ASSUME j < Len(s) PROVE s[j + 1] = t[i + 1]
        OBVIOUS
      <3>2. j + 1 \in 1 .. Len(p) + Len(t) /\ ~(j + 1 <= Len(p)) /\ (j + 1) - Len(p) = i + 1
        BY <1>1, <1>2, <2>1, <3>1
      <3>3. QED  BY <1>1, <3>2
    <2> HIDE DEF j
    <2>4. Paired(s, j) <=> Paired(t, i)
      BY <2>1, <2>2, <2>3 DEF Paired
    <2>5. UnitWidth(s, j) = UnitWidth(t, i)
      BY <2>4 DEF UnitWidth
    <2>6. UnitRune(s, j) = UnitRune(t, i)
      <3>1. CASE Paired(t, i)
        <4>1. s[j + 1] = t[i + 1]
          BY <2>1, <2>3, <3>1 DEF Paired
        <4>2. QED  BY <2>2, <2>4, <3>1, <4>1 DEF UnitRune
      <3>2. CASE ~Paired(t, i)
        BY <2>2, <2>4, <3>2 DEF UnitRune
      <3>3. QED  BY <3>1, <3>2
    <2>7. QED  BY <2>1, <2>5, <2>6 DEF j
  <1>4. QED  BY <1>1, <1>3 DEF s

LEMMA UnitsShift ==
  ASSUME NEW p \in Seq(Unit), NEW t \in Seq(Unit)
  PROVE  \A i \in 1 .. Len(t) + 1 : UnitRunesFrom(p \o t)[Len(p) + i] = UnitRunesFrom(t)[i]
  <1> DEFINE s == p \o t
             f == UnitRunesFrom(s)
             g == UnitRunesFrom(t)
             N == Len(t)
             S == {i \in 1 .. N + 1 : f[Len(p) + i] = g[i]}
  <1>1. /\ s \in Seq(Unit) /\ Len(s) = Len(p) + Len(t) /\ N \in Nat /\ Len(p) \in Nat
        /\ \A i \in 1 .. N : /\ Len(p) + i \in 1 .. Len(s)
                             /\ UnitWidth(s, Len(p) + i) = UnitWidth(t, i)
                             /\ UnitRune(s, Len(p) + i) = UnitRune(t, i)
    BY UnitsBehind
  <1>2. ASSUME NEW i \in 1 .. N + 1, \A j \in i + 1 .. N + 1 : j \in S PROVE i \in S
    <2>1. CASE i = N + 1
      <3>1. f[Len(s) + 1] = <<>> /\ g[N + 1] = <<>>
        BY <1>1, UnitRunesAre
      <3>2. Len(p) + i = Len(s) + 1
        BY <1>1, <2>1
      <3>3. QED  BY <2>1, <3>1, <3>2
    <2>2. CASE i # N + 1
      <3>1. i \in 1 .. N
        BY <1>1, <2>2
      <3> DEFINE w == UnitWidth(t, i)
      <3>2. w \in {1, 2} /\ i + w \in i + 1 .. N + 1
        <4>1. i + w \in i + 1 .. N + 1
          BY <3>1, UnitStepFits
        <4>2. QED  BY <4>1 DEF UnitWidth
      <3>3. Len(p) + i \in 1 .. Len(s) /\ UnitWidth(s, Len(p) + i) = w /\ UnitRune(s, Len(p) + i) = UnitRune(t, i)
        BY <1>1, <3>1
      <3>4. f[Len(p) + i] = <<UnitRune(s, Len(p) + i)>> \o f[(Len(p) + i) + w]
        BY <1>1, <3>3, UnitRunesAre
      <3>5. g[i] = <<UnitRune(t, i)>> \o g[i + w]
        BY <3>1, UnitRunesAre
      <3>6. i + w \in S
        BY <1>2, <3>2
      <3>7. (Len(p) + i) + w = Len(p) + (i + w)
        <4>1. w \in Int /\ i \in Int /\ Len(p) \in Int
          BY <1>1, <3>1, <3>2
        <4> HIDE DEF w
        <4>2. QED  BY <4>1
      <3> HIDE DEF f, g, s, w
      <3>8. QED  BY <3>3, <3>4, <3>5, <3>6, <3>7
    <2>3. QED  BY <2>1, <2>2
  <1>3. 1 .. N + 1 \subseteq S
    <2> HIDE DEF S, N
    <2>1. QED  BY <1>1, <1>2, Backwards
  <1>4. QED  BY <1>3

\* Units in front of others that are read as one rune.
LEMMA ReadUnits ==
  ASSUME NEW p \in Seq(Unit), NEW t \in Seq(Unit), Len(p) >= 1, UnitWidth(p \o t, 1) = Len(p)
  PROVE  utf16_decode(p \o t) = <<UnitRune(p \o t, 1)>> \o utf16_decode(t)
  <1> DEFINE s == p \o t
  <1>1. s \in Seq(Unit) /\ Len(s) = Len(p) + Len(t) /\ Len(p) \in Nat /\ Len(t) \in Nat
    OBVIOUS
  <1>2. 1 \in 1 .. Len(s) /\ 1 \in 1 .. Len(t) + 1
    BY <1>1
  <1>3. UnitRunesFrom(s)[1] = <<UnitRune(s, 1)>> \o UnitRunesFrom(s)[1 + UnitWidth(s, 1)]
    BY <1>1, <1>2, UnitRunesAre
  <1>4. UnitRunesFrom(s)[Len(p) + 1] = UnitRunesFrom(t)[1]
    BY <1>2, UnitsShift
  <1>5. 1 + UnitWidth(s, 1) = Len(p) + 1
    BY <1>1
  <1>6. utf16_decode(s) = UnitRunesFrom(s)[1] /\ utf16_decode(t) = UnitRunesFrom(t)[1]
    BY <1>1, UnitRunesAre
  <1>7. QED  BY <1>3, <1>4, <1>5, <1>6

\* The bit of SURR_SELF is lost in every second plane from the third on.
LEMMA LostIs ==
  ASSUME NEW r \in Int, SURR_SELF <= r, r <= MAX_RUNE, NEW h \in Half, NEW l \in Half,
         r - SURR_SELF = 1024 * h + l
  PROVE  LostBit(h) <=> ~(r < 131072 \/ (r \div 65536) % 2 = 1)
  <1>1. h \in Int /\ l \in Int /\ 0 <= h /\ h <= 1023 /\ 0 <= l /\ l <= 1023
    BY SMT DEF Half
  <1>2. PICK a \in Nat, b \in 0 .. 63 : h = 64 * a + b /\ h \div 64 = a
    <2>1. h \in Nat
      BY <1>1
    <2>2. QED  BY <2>1, Shift
  <1>3. r = 65536 + 1024 * h + l
    BY <1>1, Bounds, SMT
  <1>4. r = 65536 * (a + 1) + (1024 * b + l) /\ 1024 * b + l >= 0 /\ 1024 * b + l < 65536
    BY <1>1, <1>2, <1>3, SMT
  <1>5. r \div 65536 = a + 1
    BY <1>2, <1>4, SMT
  <1>6. r < 131072 <=> a = 0
    BY <1>2, <1>4, SMT
  <1>7. LostBit(h) <=> a % 2 = 1
    BY <1>2 DEF LostBit
  <1>8. (a + 1) % 2 = 1 <=> ~(a % 2 = 1)
    BY <1>2, SMT
  <1>9. a = 0 => ~(a % 2 = 1)
    BY SMT
  <1>10. QED  BY <1>5, <1>6, <1>7, <1>8, <1>9

LEMMA ReadsWideIs ==
  ASSUME NEW r \in Int
  PROVE  /\ ~IsValid(r) => ReadsWide(r) = RUNE_ERROR
         /\ IsValid(r) /\ r < SURR_SELF => ReadsWide(r) = r
         /\ \A h, l \in Half : SURR_SELF <= r /\ r <= MAX_RUNE /\ r - SURR_SELF = 1024 * h + l
              => ReadsWide(r) = 1024 * h + l + (IF LostBit(h) THEN 0 ELSE SURR_SELF)
         /\ ReadsWide(r) \in Int
  <1> DEFINE A == r < 131072 \/ (r \div 65536) % 2 = 1
             B == r >= 131072 /\ (r \div 65536) % 2 = 0
  <1>1. ReadsWide(r) = CASE IsValid(r) /\ A -> r [] IsValid(r) /\ B -> r - 65536 [] OTHER -> RUNE_ERROR
    BY DEF ReadsWide
  <1>2. B <=> ~A
    BY SMT
  <1>3. r < SURR_SELF => A
    BY Bounds, SMT
  <1>4. SURR_SELF <= r /\ r <= MAX_RUNE => IsValid(r)
    BY ValidIs, Bounds, SMT
  <1>5. \A h, l \in Half : SURR_SELF <= r /\ r <= MAX_RUNE /\ r - SURR_SELF = 1024 * h + l
          => (LostBit(h) <=> ~A)
    BY LostIs
  <1> DEFINE c == r - 65536
  <1>6. c = r - SURR_SELF /\ c \in Int /\ RUNE_ERROR \in Int /\ SURR_SELF \in Int
    BY Bounds, SMT
  <1> HIDE DEF A, B, c
  <1>7. /\ IsValid(r) /\ A => ReadsWide(r) = r
        /\ IsValid(r) /\ ~A => ReadsWide(r) = c
        /\ ~IsValid(r) => ReadsWide(r) = RUNE_ERROR
    BY <1>1, <1>2 DEF c
  <1>8. ASSUME NEW h \in Half, NEW l \in Half, SURR_SELF <= r, r <= MAX_RUNE, r - SURR_SELF = 1024 * h + l
        PROVE  ReadsWide(r) = 1024 * h + l + (IF LostBit(h) THEN 0 ELSE SURR_SELF)
    <2>1. CASE LostBit(h)
      <3>1. ReadsWide(r) = r - SURR_SELF
        BY <1>4, <1>5, <1>6, <1>7, <1>8, <2>1
      <3>2. h \in Int /\ l \in Int
        BY SMT DEF Half
      <3>3. 1024 * h + l + 0 = 1024 * h + l
        BY <3>2
      <3>4. QED  BY <1>8, <2>1, <3>1, <3>3
    <2>2. CASE ~LostBit(h)
      <3>1. ReadsWide(r) = r
        BY <1>4, <1>5, <1>7, <1>8, <2>2
      <3>2. h \in Int /\ l \in Int
        BY SMT DEF Half
      <3>3. 1024 * h + l + SURR_SELF = r
        BY <1>6, <1>8, <3>2
      <3>4. QED  BY <2>2, <3>1, <3>3
    <2>3. QED  BY <2>1, <2>2
  <1>9. ReadsWide(r) \in Int
    BY <1>6, <1>7
  <1>10. QED  BY <1>3, <1>7, <1>8, <1>9

\* A unit that is no half of a pair is read as itself.
LEMMA ReadUnit ==
  ASSUME NEW u \in Unit, IsValid(u), NEW x \in Seq(Unit)
  PROVE  utf16_decode(<<u>> \o x) = <<u>> \o utf16_decode(x)
  <1> DEFINE p == <<u>>
             s == p \o x
  <1>1. p \in Seq(Unit) /\ Len(p) = 1
    OBVIOUS
  <1>2. s[1] = u
    BY ConsIs
  <1>3. u \in Int /\ u \notin Surrogates
    BY UnitIs DEF IsValid
  <1>4. u \notin SURR1 .. (SURR2 - 1)
    <2>1. SURR1 \in Int /\ SURR2 \in Int /\ SURR3 \in Int /\ SURR2 < SURR3
      BY Bounds, SMT
    <2>2. ~(SURR1 <= u /\ u < SURR3)
      BY <1>3, <2>1 DEF Surrogates
    <2>3. QED  BY <1>3, <2>1, <2>2
  <1> HIDE DEF p
  <1>5. ~Paired(s, 1)
    BY <1>2, <1>4 DEF Paired
  <1>6. UnitWidth(s, 1) = 1 /\ UnitRune(s, 1) = u
    BY <1>2, <1>3, <1>5 DEF UnitWidth, UnitRune
  <1>7. utf16_decode(p \o x) = <<UnitRune(p \o x, 1)>> \o utf16_decode(x)
    <2>1. Len(p) >= 1 /\ UnitWidth(p \o x, 1) = Len(p)
      BY <1>1, <1>6
    <2>2. QED  BY <1>1, <2>1, ReadUnits
  <1>8. QED  BY <1>6, <1>7 DEF p

\* A pair is read as one rune.
LEMMA ReadPair ==
  ASSUME NEW h \in Half, NEW l \in Half, NEW x \in Seq(Unit)
  PROVE  utf16_decode(<<SURR1 + h, SURR2 + l>> \o x)
           = <<utf16_decode_rune(SURR1 + h, SURR2 + l)>> \o utf16_decode(x)
  <1> DEFINE u == SURR1 + h
             v == SURR2 + l
             p == <<u, v>>
             s == p \o x
  <1>1. u \in SURR1 .. (SURR2 - 1) /\ v \in SURR2 .. (SURR3 - 1)
    BY PairReads
  <1>2. u \in Unit /\ v \in Unit
    <2>1. u \in Int /\ v \in Int /\ 0 <= u /\ 0 <= v /\ u < SURR_SELF /\ v < SURR_SELF
      BY Bounds, SMT DEF Half
    <2> HIDE DEF u, v
    <2>2. QED  BY <2>1, UnitIs
  <1> HIDE DEF u, v
  <1>3. p \in Seq(Unit) /\ Len(p) = 2 /\ p[1] = u /\ p[2] = v
    BY <1>2
  <1> HIDE DEF p
  <1>4. /\ s \in Seq(Unit) /\ Len(s) = Len(p) + Len(x) /\ Len(x) \in Nat
        /\ \A i \in 1 .. Len(p) + Len(x) : s[i] = IF i <= Len(p) THEN p[i] ELSE x[i - Len(p)]
    <2>1. Len(x) \in Nat
      OBVIOUS
    <2>2. QED  BY <1>3, <2>1, ConcatProperties
  <1>5. s[1] = u /\ s[2] = v /\ 1 < Len(s)
    <2>1. 1 \in 1 .. Len(p) + Len(x) /\ 2 \in 1 .. Len(p) + Len(x) /\ 1 <= Len(p) /\ 2 <= Len(p)
      BY <1>3, <1>4
    <2>2. QED  BY <1>3, <1>4, <2>1
  <1> HIDE DEF s
  <1>6. 1 + 1 = 2
    OBVIOUS
  <1>7. Paired(s, 1)
    BY <1>1, <1>5, <1>6 DEF Paired
  <1>8. UnitWidth(s, 1) = 2 /\ UnitRune(s, 1) = utf16_decode_rune(u, v)
    BY <1>5, <1>6, <1>7 DEF UnitWidth, UnitRune
  <1>9. utf16_decode(p \o x) = <<UnitRune(p \o x, 1)>> \o utf16_decode(x)
    <2>1. Len(p) >= 1 /\ UnitWidth(p \o x, 1) = Len(p)
      BY <1>3, <1>8 DEF s
    <2>2. QED  BY <1>3, <2>1, ReadUnits
  <1>10. QED  BY <1>8, <1>9 DEF s, p, u, v

LEMMA ReadUnitsOf ==
  ASSUME NEW r \in Int, NEW x \in Seq(Unit)
  PROVE  utf16_decode(UnitsOf(r) \o x) = <<ReadsWide(r)>> \o utf16_decode(x)
  <1>1. CASE SURR_SELF <= r /\ r <= MAX_RUNE
    <2>1. PICK h, l \in Half : utf16_encode_rune(r) = <<SURR1 + h, SURR2 + l>> /\ r - SURR_SELF = 1024 * h + l
      BY <1>1, PairIs
    <2>2. UnitsOf(r) = <<SURR1 + h, SURR2 + l>>
      BY <1>1, <2>1 DEF UnitsOf
    <2>3. ReadsWide(r) = utf16_decode_rune(SURR1 + h, SURR2 + l)
      <3>1. ReadsWide(r) = 1024 * h + l + (IF LostBit(h) THEN 0 ELSE SURR_SELF)
        BY <1>1, <2>1, ReadsWideIs
      <3>2. utf16_decode_rune(SURR1 + h, SURR2 + l) = 1024 * h + l + (IF LostBit(h) THEN 0 ELSE SURR_SELF)
        BY PairReads
      <3>3. QED  BY <3>1, <3>2
    <2>4. utf16_decode(<<SURR1 + h, SURR2 + l>> \o x)
            = <<utf16_decode_rune(SURR1 + h, SURR2 + l)>> \o utf16_decode(x)
      BY ReadPair
    <2>5. QED  BY <2>2, <2>3, <2>4
  <1>2. CASE ~(SURR_SELF <= r /\ r <= MAX_RUNE) /\ IsValid(r)
    <2>1. 0 <= r /\ r < SURR_SELF
      BY <1>2, ValidIs, Bounds, SMT
    <2>2. r \in Unit /\ ReadsWide(r) = r
      BY <1>2, <2>1, UnitIs, ReadsWideIs
    <2>3. utf16_decode(<<r>> \o x) = <<r>> \o utf16_decode(x)
      BY <1>2, <2>2, ReadUnit
    <2>4. UnitsOf(r) = <<r>>
      BY <1>2 DEF UnitsOf
    <2>5. QED  BY <2>2, <2>3, <2>4
  <1>3. CASE ~(SURR_SELF <= r /\ r <= MAX_RUNE) /\ ~IsValid(r)
    <2>1. RUNE_ERROR \in Int /\ 0 <= RUNE_ERROR /\ RUNE_ERROR < SURR_SELF /\ IsValid(RUNE_ERROR)
      BY ValidIs, Bounds, SMT
    <2>2. RUNE_ERROR \in Unit /\ ReadsWide(r) = RUNE_ERROR
      BY <1>3, <2>1, UnitIs, ReadsWideIs
    <2>3. utf16_decode(<<RUNE_ERROR>> \o x) = <<RUNE_ERROR>> \o utf16_decode(x)
      BY <2>1, <2>2, ReadUnit
    <2>4. UnitsOf(r) = <<RUNE_ERROR>>
      BY <1>3 DEF UnitsOf
    <2>5. QED  BY <2>2, <2>3, <2>4
  <1>4. QED  BY <1>1, <1>2, <1>3

\* What is read of the first n runes of s.
Wides(s, n) == [i \in 1 .. n |-> ReadsWide(s[i])]

LEMMA WidesFit ==
  ASSUME NEW s \in Seq(Int), NEW n \in 0 .. Len(s)
  PROVE  /\ Wides(s, n) \in Seq(Int) /\ Wides(s, 0) = <<>>
         /\ n # Len(s) => Wides(s, n + 1) = Wides(s, n) \o <<ReadsWide(s[n + 1])>>
  <1>1. Len(s) \in Nat /\ n \in Nat /\ n <= Len(s)
    OBVIOUS
  <1>2. \A i \in 1 .. Len(s) : ReadsWide(s[i]) \in Int
    <2>1. ASSUME NEW i \in 1 .. Len(s) PROVE ReadsWide(s[i]) \in Int
      <3>1. s[i] \in Int
        OBVIOUS
      <3>2. QED  BY <3>1, ReadsWideIs, SMTT(60)
    <2>2. QED  BY <2>1
  <1> DEFINE f == [i \in 1 .. Len(s) |-> ReadsWide(s[i])]
  <1>3. \A i \in 1 .. Len(s) : f[i] = ReadsWide(s[i]) /\ f[i] \in Int
    BY <1>2
  <1> HIDE DEF f
  <1>4. Wides(s, n) = [i \in 1 .. n |-> f[i]]
    BY <1>1, <1>3 DEF Wides
  <1>5. Wides(s, n) \in Seq(Int)
    <2>1. \A i \in 1 .. n : f[i] \in Int
      BY <1>1, <1>3
    <2>2. [i \in 1 .. n |-> f[i]] \in Seq(Int)
      BY <1>1, <2>1
    <2>3. QED  BY <1>4, <2>2
  <1>6. Wides(s, 0) = <<>>
    BY DEF Wides
  <1>7. ASSUME n # Len(s) PROVE Wides(s, n + 1) = Wides(s, n) \o <<ReadsWide(s[n + 1])>>
    <2>1. n + 1 \in 1 .. Len(s) /\ n + 1 \in Nat
      BY <1>1, <1>7
    <2>2. Wides(s, n + 1) = [i \in 1 .. n + 1 |-> f[i]]
      BY <1>3, <2>1 DEF Wides
    <2> DEFINE v == ReadsWide(s[n + 1])
               a == Wides(s, n)
    <2>3. v = f[n + 1] /\ v \in Int
      BY <1>3, <2>1
    <2>4. a \in Seq(Int) /\ Len(a) = n /\ \A i \in 1 .. n : a[i] = f[i]
      <3>1. Len([i \in 1 .. n |-> f[i]]) = n
        BY <1>1
      <3>2. QED  BY <1>4, <1>5, <3>1
    <2> HIDE DEF v, a
    <2>5. [i \in 1 .. n + 1 |-> f[i]] = a \o <<v>>
      <3>1. Append(a, v) = a \o <<v>>
        BY <2>3, <2>4, AppendIsConcat
      <3>2. Append(a, v) = [i \in 1 .. n + 1 |-> f[i]]
        BY <1>1, <2>3, <2>4
      <3>3. QED  BY <3>1, <3>2
    <2>6. QED  BY <2>2, <2>5 DEF a, v
  <1>8. QED  BY <1>5, <1>6, <1>7

LEMMA JoinUnits ==
  ASSUME NEW a \in Seq(Unit), NEW b \in Seq(Unit), NEW c \in Seq(Unit)
  PROVE  (a \o b) \o c = a \o (b \o c)
  BY ConcatAssociative

\* The runes written as units are read back one by one.
LEMMA WidesRead ==
  ASSUME NEW s \in Seq(Int)
  PROVE  utf16_decode(utf16_append_runes(s)) = Wides(s, Len(s))
  <1> DEFINE N == Len(s)
             e == UnitsUpTo(s)
             T == {n \in 0 .. N : \A t \in Seq(Unit) : utf16_decode(e[n] \o t) = Wides(s, n) \o utf16_decode(t)}
  <1>1. /\ N \in Nat /\ e \in [0 .. N -> Seq(Unit)] /\ e[0] = <<>> /\ utf16_append_runes(s) = e[N]
        /\ \A n \in 1 .. N : e[n] = e[n - 1] \o UnitsOf(s[n])
    <2>1. N \in Nat
      OBVIOUS
    <2>2. QED  BY <2>1, UnitsAre
  <1>2. \A n \in 1 .. N : s[n] \in Int
    OBVIOUS
  <1>3. \A n \in 0 .. N : Wides(s, n) \in Seq(Int)
    BY WidesFit
  <1>4. \A n \in 0 .. N - 1 : Wides(s, n + 1) = Wides(s, n) \o <<ReadsWide(s[n + 1])>>
    <2>1. ASSUME NEW n \in 0 .. N - 1 PROVE Wides(s, n + 1) = Wides(s, n) \o <<ReadsWide(s[n + 1])>>
      <3>1. n \in 0 .. Len(s) /\ n # Len(s)
        BY <1>1
      <3>2. QED  BY <3>1, WidesFit
    <2>2. QED  BY <2>1
  <1>5. Wides(s, 0) = <<>>
    <2>1. 0 \in 0 .. Len(s)
      BY <1>1
    <2>2. QED  BY <2>1, WidesFit
  <1> HIDE DEF e, N
  <1>6. 0 \in T
    <2>1. ASSUME NEW t \in Seq(Unit) PROVE utf16_decode(e[0] \o t) = Wides(s, 0) \o utf16_decode(t)
      <3>1. utf16_decode(t) \in Seq(Int)
        BY DecodeFits
      <3>2. <<>> \o t = t /\ <<>> \o utf16_decode(t) = utf16_decode(t)
        BY <3>1, ConcatEmptySeq
      <3>3. QED  BY <1>1, <1>5, <3>2
    <2>2. 0 \in 0 .. N
      BY <1>1
    <2>3. QED  BY <2>1, <2>2
  <1>7. ASSUME NEW n \in 0 .. N - 1, n \in T PROVE n + 1 \in T
    <2>1. n \in 0 .. N /\ n + 1 \in 1 .. N /\ (n + 1) - 1 = n /\ n + 1 \in 0 .. N
      BY <1>1
    <2> DEFINE r == s[n + 1]
               q == <<ReadsWide(r)>>
    <2>2. r \in Int /\ e[n] \in Seq(Unit) /\ Wides(s, n) \in Seq(Int)
      BY <1>1, <1>2, <1>3, <2>1
    <2>3. e[n + 1] = e[n] \o UnitsOf(r) /\ Wides(s, n + 1) = Wides(s, n) \o q
      BY <1>1, <1>4, <2>1
    <2> HIDE DEF r
    <2>4. UnitsOf(r) \in Seq(Unit) /\ q \in Seq(Int)
      <3>1. ReadsWide(r) \in Int
        BY <2>2, ReadsWideIs
      <3>2. QED  BY <2>2, <3>1, UnitsOfFit
    <2>5. ASSUME NEW t \in Seq(Unit) PROVE utf16_decode(e[n + 1] \o t) = Wides(s, n + 1) \o utf16_decode(t)
      <3> DEFINE p == UnitsOf(r)
                 u == utf16_decode(t)
                 a == Wides(s, n)
      <3>1. u \in Seq(Int) /\ p \o t \in Seq(Unit)
        BY <2>4, DecodeFits, ConcatProperties
      <3>2. (e[n] \o p) \o t = e[n] \o (p \o t)
        <4>1. p \in Seq(Unit) /\ e[n] \in Seq(Unit)
          BY <2>2, <2>4
        <4> HIDE DEF p
        <4>2. QED  BY <4>1, JoinUnits
      <3>3. utf16_decode(e[n] \o (p \o t)) = a \o utf16_decode(p \o t)
        BY <1>7, <3>1
      <3>4. utf16_decode(p \o t) = q \o u
        BY <2>2, ReadUnitsOf
      <3>5. a \in Seq(Int) /\ q \in Seq(Int)
        BY <2>2, <2>4
      <3> HIDE DEF p, u, q, a
      <3>6. (a \o q) \o u = a \o (q \o u)
        BY <3>1, <3>5, JoinInts
      <3>7. QED  BY <2>3, <3>2, <3>3, <3>4, <3>6 DEF p, u, a
    <2>6. QED  BY <2>1, <2>5
  <1>8. 0 .. N \subseteq T
    <2> HIDE DEF T
    <2>1. QED  BY <1>1, <1>6, <1>7, UpTo
  <1>9. N \in 0 .. N /\ <<>> \in Seq(Unit)
    BY <1>1
  <1>10. utf16_decode(e[N] \o <<>>) = Wides(s, N) \o utf16_decode(<<>>)
    BY <1>8, <1>9
  <1>11. utf16_decode(<<>>) = <<>>
    <2> DEFINE w == <<>>
    <2>1. w \in Seq(Unit) /\ Len(w) + 1 = 1
      OBVIOUS
    <2> HIDE DEF w
    <2>2. utf16_decode(w) = UnitRunesFrom(w)[1] /\ UnitRunesFrom(w)[Len(w) + 1] = <<>>
      BY <2>1, UnitRunesAre
    <2>3. QED  BY <2>1, <2>2 DEF w
  <1>12. e[N] \o <<>> = e[N] /\ Wides(s, N) \o <<>> = Wides(s, N)
    <2>1. e[N] \in Seq(Unit) /\ Wides(s, N) \in Seq(Int)
      BY <1>1, <1>3, <1>9
    <2>2. QED  BY <2>1, ConcatEmptySeq
  <1>13. QED  BY <1>1, <1>10, <1>11, <1>12 DEF N

\* The array made for the units of some runes is long enough.
LEMMA RoomSuffices ==
  ASSUME NEW s \in Seq(Int)
  PROVE  Len(utf16_append_runes(s)) <= Len(s) + Cardinality({i \in DOMAIN s : s[i] >= SURR_SELF})
  <1> DEFINE N == Len(s)
             e == UnitsUpTo(s)
             P(n) == {i \in 1 .. n : s[i] >= SURR_SELF}
             C(n) == Cardinality(P(n))
             T == {n \in 0 .. N : Len(e[n]) <= n + C(n)}
  <1>1. /\ N \in Nat /\ e \in [0 .. N -> Seq(Unit)] /\ e[0] = <<>> /\ utf16_append_runes(s) = e[N]
        /\ \A n \in 1 .. N : e[n] = e[n - 1] \o UnitsOf(s[n])
    <2>1. N \in Nat
      OBVIOUS
    <2>2. QED  BY <2>1, UnitsAre
  <1>2. \A n \in 1 .. N : s[n] \in Int
    OBVIOUS
  <1>3. DOMAIN s = 1 .. N
    OBVIOUS
  <1> HIDE DEF e, N
  <1>4. \A n \in Nat : IsFiniteSet(P(n)) /\ C(n) \in Nat
    <2>1. ASSUME NEW n \in Nat PROVE IsFiniteSet(P(n))
      <3>1. IsFiniteSet(1 .. n) /\ P(n) \subseteq 1 .. n
        BY FS_Interval
      <3> HIDE DEF P
      <3>2. QED  BY <3>1, FS_Subset
    <2> HIDE DEF P
    <2>2. QED  BY <2>1, FS_CardinalityType
  <1>5. 0 \in T
    <2>1. Len(e[0]) = 0 /\ 0 \in Nat /\ 0 \in 0 .. N
      BY <1>1
    <2>2. C(0) \in Nat
      BY <1>4, <2>1
    <2> HIDE DEF C
    <2>3. QED  BY <2>1, <2>2
  <1>6. ASSUME NEW n \in 0 .. N - 1, n \in T PROVE n + 1 \in T
    <2> DEFINE m == n + 1
               r == s[m]
    <2>1. m \in 1 .. N /\ m - 1 = n /\ n \in 0 .. N /\ m \in 0 .. N /\ n \in Nat /\ m = n + 1 /\ m \in Nat
      BY <1>1
    <2> HIDE DEF m
    <2>2. r \in Int /\ e[n] \in Seq(Unit) /\ e[m] = e[n] \o UnitsOf(r)
      BY <1>1, <1>2, <2>1
    <2>3. P(m) = IF r >= SURR_SELF THEN P(n) \cup {m} ELSE P(n)
      <3>1. 1 .. m = (1 .. n) \cup {m}
        BY <2>1
      <3>2. QED  BY <3>1
    <2>4. m \notin P(n)
      BY <2>1
    <2>5. SURR_SELF \in Int
      BY Bounds, SMT
    <2> HIDE DEF r, P
    <2>6. C(n) \in Nat /\ C(m) = IF r >= SURR_SELF THEN C(n) + 1 ELSE C(n)
      <3>1. IsFiniteSet(P(n)) /\ C(n) \in Nat
        BY <1>4, <2>1
      <3>2. Cardinality(P(n) \cup {m}) = C(n) + 1
        BY <2>4, <3>1, FS_AddElement
      <3>3. QED  BY <2>3, <3>1, <3>2
    <2>7. UnitsOf(r) \in Seq(Unit) /\ Len(UnitsOf(r)) \in Nat
          /\ Len(UnitsOf(r)) <= IF r >= SURR_SELF THEN 2 ELSE 1
      <3>1. UnitsOf(r) \in Seq(Unit)
        BY <2>2, UnitsOfFit
      <3>2. CASE SURR_SELF <= r /\ r <= MAX_RUNE
        <4>1. PICK h, l \in Half : utf16_encode_rune(r) = <<SURR1 + h, SURR2 + l>>
          BY <2>2, <3>2, PairIs
        <4>2. UnitsOf(r) = <<SURR1 + h, SURR2 + l>>
          BY <3>2, <4>1 DEF UnitsOf
        <4>3. Len(UnitsOf(r)) = 2
          BY <4>2
        <4>4. r >= SURR_SELF
          BY <2>2, <2>5, <3>2
        <4>5. QED  BY <3>1, <4>3, <4>4
      <3>3. CASE ~(SURR_SELF <= r /\ r <= MAX_RUNE)
        <4>1. UnitsOf(r) = <<r>> \/ UnitsOf(r) = <<RUNE_ERROR>>
          BY <3>3 DEF UnitsOf
        <4>2. Len(UnitsOf(r)) = 1
          BY <4>1
        <4>3. QED  BY <3>1, <4>2
      <3>4. QED  BY <3>2, <3>3
    <2>8. Len(e[m]) = Len(e[n]) + Len(UnitsOf(r)) /\ Len(e[n]) \in Nat
      BY <2>2, <2>7, ConcatProperties
    <2>9. Len(e[n]) <= n + C(n)
      BY <1>6
    <2> HIDE DEF C
    <2>10. Len(e[m]) <= m + C(m)
      BY <2>1, <2>6, <2>7, <2>8, <2>9
    <2>11. QED  BY <2>1, <2>10
  <1>7. 0 .. N \subseteq T
    <2> HIDE DEF T
    <2>1. QED  BY <1>1, <1>5, <1>6, UpTo
  <1>8. N \in T
    BY <1>1, <1>7
  <1>9. QED  BY <1>1, <1>3, <1>8 DEF N

LEMMA WideReadsBackIs ==
  ASSUME form = "runes" => value \in Seq(Int)
  PROVE  WideReadsBack
  <1>1. SUFFICES ASSUME form = "runes"
                 PROVE  utf16_decode(utf16_encode(value)) = [i \in DOMAIN value |-> ReadsWide(value[i])]
    BY DEF WideReadsBack
  <1>2. value \in Seq(Int)
    BY <1>1
  <1> DEFINE T == {i \in DOMAIN value : value[i] >= SURR_SELF}
             room == Len(value) + Cardinality(T)
             units == utf16_append_runes(value)
             n == IF Len(units) < room THEN Len(units) ELSE room
  <1>3. Cardinality(T) \in Nat
    <2>1. IsFiniteSet(1 .. Len(value))
      BY FS_Interval
    <2>2. T \subseteq 1 .. Len(value)
      BY <1>2
    <2>3. IsFiniteSet(T)
      BY <2>1, <2>2, FS_Subset
    <2>4. QED  BY <2>3, FS_CardinalityType
  <1>4. units \in Seq(Unit) /\ Len(units) <= room
    BY <1>2, UnitsFit, RoomSuffices
  <1>5. utf16_encode(value) = SubSeq(units, 1, n)
    BY DEF utf16_encode
  <1>6. room \in Nat
    <2> HIDE DEF T
    <2>1. QED  BY <1>2, <1>3
  <1> HIDE DEF room, units
  <1>7. n = Len(units)
    BY <1>4, <1>6
  <1>8. SubSeq(units, 1, Len(units)) = units
    BY <1>4
  <1>9. utf16_encode(value) = units
    BY <1>5, <1>7, <1>8
  <1>10. utf16_decode(units) = Wides(value, Len(value))
    BY <1>2, WidesRead DEF units
  <1>11. DOMAIN value = 1 .. Len(value)
    BY <1>2
  <1>12. QED  BY <1>9, <1>10, <1>11 DEF Wides

\* The units of a rune that is not zero are not zero.
LEMMA NoZeroOf ==
  ASSUME NEW r \in Int, r # 0
  PROVE  \A k \in 1 .. Len(UnitsOf(r)) : UnitsOf(r)[k] # 0
  <1>1. CASE SURR_SELF <= r /\ r <= MAX_RUNE
    <2>1. PICK h, l \in Half : utf16_encode_rune(r) = <<SURR1 + h, SURR2 + l>>
      BY <1>1, PairIs
    <2> DEFINE u == SURR1 + h
               v == SURR2 + l
    <2>2. u # 0 /\ v # 0
      BY Bounds, SMT DEF Half
    <2>3. UnitsOf(r) = <<u, v>>
      BY <1>1, <2>1 DEF UnitsOf
    <2> HIDE DEF u, v
    <2>4. \A k \in 1 .. 2 : <<u, v>>[k] # 0
      BY <2>2
    <2>5. Len(<<u, v>>) = 2
      OBVIOUS
    <2>6. QED  BY <2>3, <2>4, <2>5
  <1>2. CASE ~(SURR_SELF <= r /\ r <= MAX_RUNE)
    <2>1. RUNE_ERROR # 0
      BY Bounds, SMT
    <2>2. PICK u : UnitsOf(r) = <<u>> /\ u # 0
      BY <1>2, <2>1 DEF UnitsOf
    <2>3. Len(<<u>>) = 1 /\ \A k \in 1 .. 1 : <<u>>[k] = u
      OBVIOUS
    <2>4. QED  BY <2>2, <2>3
  <1>3. QED  BY <1>1, <1>2

LEMMA NoZero ==
  ASSUME NEW s \in Seq(Int), \A i \in 1 .. Len(s) : s[i] # 0
  PROVE  \A k \in 1 .. Len(utf16_append_runes(s)) : utf16_append_runes(s)[k] # 0
  <1> DEFINE N == Len(s)
             e == UnitsUpTo(s)
             T == {n \in 0 .. N : \A k \in 1 .. Len(e[n]) : e[n][k] # 0}
  <1>1. /\ N \in Nat /\ e \in [0 .. N -> Seq(Unit)] /\ e[0] = <<>> /\ utf16_append_runes(s) = e[N]
        /\ \A n \in 1 .. N : e[n] = e[n - 1] \o UnitsOf(s[n])
    <2>1. N \in Nat
      OBVIOUS
    <2>2. QED  BY <2>1, UnitsAre
  <1>2. \A n \in 1 .. N : s[n] \in Int /\ s[n] # 0
    OBVIOUS
  <1> HIDE DEF e, N
  <1>3. 0 \in T
    <2>1. Len(e[0]) = 0 /\ 0 \in 0 .. N
      BY <1>1
    <2>2. QED  BY <2>1
  <1>4. ASSUME NEW n \in 0 .. N - 1, n \in T PROVE n + 1 \in T
    <2> DEFINE m == n + 1
               q == UnitsOf(s[m])
               p == e[n]
    <2>1. m \in 1 .. N /\ m - 1 = n /\ n \in 0 .. N /\ m \in 0 .. N
      BY <1>1
    <2> HIDE DEF m
    <2>2. /\ q \in Seq(Unit) /\ p \in Seq(Unit) /\ e[m] = p \o q
          /\ \A k \in 1 .. Len(q) : q[k] # 0
      BY <1>1, <1>2, <2>1, UnitsOfFit, NoZeroOf
    <2>3. \A k \in 1 .. Len(p) : p[k] # 0
      BY <1>4
    <2> HIDE DEF p, q
    <2>4. /\ Len(p \o q) = Len(p) + Len(q) /\ Len(p) \in Nat /\ Len(q) \in Nat
          /\ \A i \in 1 .. Len(p) + Len(q) : (p \o q)[i] = IF i <= Len(p) THEN p[i] ELSE q[i - Len(p)]
      <3>1. Len(p) \in Nat /\ Len(q) \in Nat
        BY <2>2
      <3>2. QED  BY <2>2, <3>1, ConcatProperties
    <2>5. ASSUME NEW k \in 1 .. Len(p \o q) PROVE (p \o q)[k] # 0
      <3>1. CASE k <= Len(p)
        <4>1. k \in 1 .. Len(p) /\ k \in 1 .. Len(p) + Len(q)
          BY <2>4, <3>1
        <4>2. QED  BY <2>3, <2>4, <3>1, <4>1
      <3>2. CASE ~(k <= Len(p))
        <4>1. k - Len(p) \in 1 .. Len(q) /\ k \in 1 .. Len(p) + Len(q)
          BY <2>4, <3>2
        <4>2. QED  BY <2>2, <2>4, <3>2, <4>1
      <3>3. QED  BY <3>1, <3>2
    <2>6. m \in T
      BY <2>1, <2>2, <2>5
    <2>7. QED  BY <2>6 DEF m
  <1>5. 0 .. N \subseteq T
    <2> HIDE DEF T
    <2>1. QED  BY <1>1, <1>3, <1>4, UpTo
  <1>6. N \in T
    BY <1>1, <1>5
  <1>7. QED  BY <1>1, <1>6

\* The runes in front of the first zero, counted as UnitsEndOnce counts them.
LEMMA BeforeIs ==
  ASSUME NEW runes \in Seq(Int)
  PROVE  Min({i \in 1 .. (Len(runes) + 1) : (runes \o <<0>>)[i] = 0}) - 1 = Ahead(runes)
  <1> DEFINE n == Ahead(runes)
             N == Len(runes)
             z == <<0>>
             x == runes \o z
             Z == {i \in 1 .. (N + 1) : x[i] = 0}
  <1>1. /\ n \in 0 .. N /\ N \in Nat
        /\ n < N => runes[n + 1] = 0
        /\ \A k \in 1 .. n : k \in 1 .. N /\ runes[k] # 0
    <2>1. N \in Nat
      OBVIOUS
    <2>2. QED  BY <2>1, AheadIs
  <1>2. z \in Seq(Int) /\ Len(z) = 1 /\ z[1] = 0
    OBVIOUS
  <1> HIDE DEF z
  <1>3. \A i \in 1 .. N + 1 : x[i] = IF i <= N THEN runes[i] ELSE z[i - N]
    <2>1. \A i \in 1 .. Len(runes) + Len(z) : x[i] = IF i <= Len(runes) THEN runes[i] ELSE z[i - Len(runes)]
      BY <1>2, ConcatProperties
    <2>2. QED  BY <1>2, <2>1
  <1> HIDE DEF n, N, x
  <1>4. n + 1 \in Z
    <2>1. n + 1 \in 1 .. N + 1
      BY <1>1
    <2>2. CASE n < N
      <3>1. n + 1 <= N
        BY <1>1, <2>2
      <3>2. QED  BY <1>1, <1>3, <2>1, <2>2, <3>1
    <2>3. CASE ~(n < N)
      <3>1. ~(n + 1 <= N) /\ (n + 1) - N = 1
        BY <1>1, <2>3
      <3>2. QED  BY <1>2, <1>3, <2>1, <3>1
    <2>4. QED  BY <2>2, <2>3
  <1>5. ASSUME NEW k \in Z PROVE n + 1 <= k
    <2>1. SUFFICES ASSUME ~(n + 1 <= k) PROVE FALSE
      OBVIOUS
    <2>2. k \in 1 .. N + 1 /\ x[k] = 0
      OBVIOUS
    <2>3. k \in 1 .. n /\ k <= N
      BY <1>1, <2>1, <2>2
    <2>4. x[k] = runes[k] /\ runes[k] # 0
      BY <1>1, <1>3, <2>2, <2>3
    <2>5. QED  BY <2>2, <2>4
  <1> DEFINE m == Min(Z)
  <1>6. m = CHOOSE i \in Z : \A j \in Z : i <= j
    BY DEF Min
  <1>7. \E i \in Z : \A j \in Z : i <= j
    BY <1>4, <1>5
  <1>8. m \in Z /\ \A j \in Z : m <= j
    <2> HIDE DEF Z
    <2>1. QED  BY <1>6, <1>7
  <1>9. m <= n + 1 /\ n + 1 <= m /\ m \in Int
    BY <1>4, <1>5, <1>8
  <1> HIDE DEF m
  <1>10. m - 1 = n
    BY <1>1, <1>9
  <1>11. QED  BY <1>10 DEF m, n, x, z, N

LEMMA UnitsEndOnceIs ==
  ASSUME form = "str" => value \in Seq(Byte)
  PROVE  UnitsEndOnce
  <1> DEFINE runes == utf8_to_runes(value)
             w == utf16_from_str(value)
             n == Ahead(runes)
             front == SubSeq(runes, 1, n)
             u == utf16_append_runes(front)
             z == <<0>>
  <1>1. SUFFICES ASSUME form = "str"
                 PROVE  /\ {i \in DOMAIN w : w[i] = 0} = {Len(w)}
                        /\ utf16_decode(Front(w)) = [i \in 1 .. n |-> ReadsWide(runes[i])]
    <2>1. runes \in Seq(Int) \/ form # "str"
      BY DecodingFits
    <2>2. form = "str" => Min({i \in 1 .. (Len(runes) + 1) : (runes \o <<0>>)[i] = 0}) - 1 = n
      BY <2>1, BeforeIs
    <2> HIDE DEF n, w, runes
    <2>3. QED  BY <2>2 DEF UnitsEndOnce, w, runes
  <1>2. value \in Seq(Byte) /\ runes \in Seq(Int)
    BY <1>1, DecodingFits
  <1>3. w = u \o z
    BY <1>2, FromStrIs
  <1> HIDE DEF w, runes
  <1>4. n \in Nat /\ n <= Len(runes) /\ \A k \in 1 .. n : runes[k] # 0
    BY <1>2, AheadIs
  <1>5. front \in Seq(Int) /\ Len(front) = n /\ \A i \in 1 .. n : front[i] = runes[i]
    BY <1>2, FirstRunes
  <1> HIDE DEF n, front
  <1>6. \A i \in 1 .. Len(front) : front[i] # 0
    BY <1>4, <1>5
  <1>7. u \in Seq(Unit) /\ \A k \in 1 .. Len(u) : u[k] # 0
    BY <1>5, <1>6, UnitsFit, NoZero
  <1>8. utf16_decode(u) = [i \in 1 .. n |-> ReadsWide(runes[i])]
    <2>1. utf16_decode(u) = Wides(front, n)
      BY <1>5, WidesRead
    <2>2. QED  BY <1>5, <2>1 DEF Wides
  <1> HIDE DEF u
  <1>9. 0 \in Unit
    BY UnitIs, Bounds, SMT
  <1>10. z \in Seq(Unit) /\ Len(z) = 1 /\ z[1] = 0
    BY <1>9
  <1> HIDE DEF z
  <1>11. /\ w \in Seq(Unit) /\ Len(w) = Len(u) + 1 /\ Len(u) \in Nat
         /\ \A i \in 1 .. Len(u) + 1 : w[i] = IF i <= Len(u) THEN u[i] ELSE z[i - Len(u)]
    <2>1. Len(u) \in Nat
      BY <1>7
    <2>2. /\ w \in Seq(Unit) /\ Len(w) = Len(u) + Len(z)
          /\ \A i \in 1 .. Len(u) + Len(z) : w[i] = IF i <= Len(u) THEN u[i] ELSE z[i - Len(u)]
      BY <1>3, <1>7, <1>10, ConcatProperties
    <2>3. QED  BY <1>10, <2>1, <2>2
  <1>12. \A i \in 1 .. Len(u) : w[i] = u[i]
    BY <1>11
  <1>13. w[Len(u) + 1] = 0
    <2>1. Len(u) + 1 \in 1 .. Len(u) + 1 /\ ~(Len(u) + 1 <= Len(u)) /\ (Len(u) + 1) - Len(u) = 1
      BY <1>11
    <2>2. QED  BY <1>10, <1>11, <2>1
  <1>14. {i \in DOMAIN w : w[i] = 0} = {Len(w)}
    <2>1. DOMAIN w = 1 .. Len(u) + 1
      BY <1>11
    <2>2. \A i \in 1 .. Len(u) + 1 : i \in 1 .. Len(u) \/ i = Len(u) + 1
      BY <1>11
    <2>3. Len(u) + 1 \in 1 .. Len(u) + 1
      BY <1>11
    <2>4. QED  BY <1>7, <1>11, <1>12, <1>13, <2>1, <2>2, <2>3
  <1>15. Front(w) = u
    <2>1. Front(w) = SubSeq(w, 1, Len(u))
      <3>1. Len(w) - 1 = Len(u)
        BY <1>11
      <3>2. QED  BY <3>1 DEF Front
    <2>2. SubSeq(w, 1, Len(u)) = u
      BY <1>7, <1>11, <1>12
    <2>3. QED  BY <2>1, <2>2
  <1>16. QED  BY <1>8, <1>14, <1>15

-----------------------------------------------------------------------------
(* The forms of a text agree.                                              *)

\* Every form holds what it may hold, and every message names its indexes;
\* the rest of FormsAgree is true of every such state.
LEMMA FormsDo ==
  ASSUME TextOK, PanicOK
  PROVE  FormsAgree
  <1>1. /\ form = "str" => value \in Seq(Byte)
        /\ form = "runes" => value \in Seq(Int)
        /\ form = "units" => value \in Seq(Unit)
    BY TypedIs DEF TextOK, Typed
  <1>2. RunesReadBack
    BY <1>1, RunesReadBackIs
  <1>3. TextReadsBack
    BY <1>1, TextReadsBackIs
  <1>4. Resynchronises /\ MutSliceIsSlice
    BY <1>1, Cutting
  <1>5. WideReadsBack
    BY <1>1, WideReadsBackIs
  <1>6. UnitsEndOnce
    BY <1>1, UnitsEndOnceIs
  <1>7. UnitsReadBack
    BY <1>1, UnitsReadBackIs
  <1>8. MessageNamesIndex
    BY Naming
  <1>9. QED  BY <1>2, <1>3, <1>4, <1>5, <1>6, <1>7, <1>8 DEF FormsAgree, WideAgrees

\* A text says the same as bytes, as runes and as UTF-16, whole, cut and
\* joined, with no loss but those that Reads and ReadsWide list; and so does
\* the index in a message.
THEOREM FormsAgreeHolds == TextSpec => []FormsAgree
  <1> DEFINE TextInv == TextOK /\ PanicOK
  <1>1. TextInit => TextInv
    <2>1. TextInit => TextOK
      BY DEF TextInit, TextOK
    <2>2. TextInit => PanicOK
      BY DEF TextInit, PanicOK
    <2>3. QED  BY <2>1, <2>2
  <1>2. TextInv /\ [TextNext]_textVars => TextInv'
    BY TypesKept, PanicKept
  <1>3. TextInv => FormsAgree
    BY FormsDo
  <1>4. QED  BY <1>1, <1>2, <1>3, PTL DEF TextSpec
=============================================================================
