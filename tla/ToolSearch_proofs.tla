------------------------- MODULE ToolSearch_proofs -------------------------
(***************************************************************************)
(* Proofs about ToolSearch for any tools, queries, messages a client may   *)
(* compose, and shortened names: a request is answered once, its client    *)
(* sees no name but its own, every tool a search found is on offer under   *)
(* the name the model has been told, and the turns of a payload alternate, *)
(* each result behind its use.  The last three follow the words, names and *)
(* results of a conversation through everything RequestConversion does to  *)
(* it, so most lemmas say of an operator of it what its result may contain *)
(* or how it is ordered.                                                   *)
(***************************************************************************)
EXTENDS ToolSearch, Iteration, SequenceTheorems, TLAPS

-----------------------------------------------------------------------------
(* Folds                                                                   *)

(* There is a fold of every sequence.                                       *)
IsFold(S, step, x, s, f) ==
  /\ f \in [0 .. Len(s) -> S] /\ f[0] = x
  /\ \A n \in 1 .. Len(s) : f[n] = step[<<f[n - 1], s[n]>>]

(* The recursive functions the conversion is written with are folds of     *)
(* their sequence.                                                         *)
LEMMA FoldExists ==
  ASSUME NEW S, NEW X, NEW step \in [S \X X -> S], NEW x \in S, NEW s \in Seq(X)
  PROVE  \E f : IsFold(S, step, x, s, f)
<1> DEFINE o == Len(s)
           next == [p \in Nat \X S |-> IF p[1] \in 1 .. o THEN step[<<p[2], s[p[1]]>>] ELSE p[2]]
<1>1. o \in Nat /\ \A n \in 1 .. o : s[n] \in X
  OBVIOUS
<1> HIDE DEF o
<1>2. next \in [Nat \X S -> S]
  <2>1. ASSUME NEW p \in Nat \X S
        PROVE  (IF p[1] \in 1 .. o THEN step[<<p[2], s[p[1]]>>] ELSE p[2]) \in S
    BY <1>1
  <2> QED BY <2>1
<1>3. PICK g : Recurs(S, next, x, g)
  <2> HIDE DEF next
  <2> QED BY <1>2, RecursionExists
<1>4. g \in [Nat -> S] /\ g[0] = x /\ \A n \in Nat : g[n + 1] = next[<<n + 1, g[n]>>]
  BY <1>3 DEF Recurs
<1> DEFINE f == [n \in 0 .. o |-> g[n]]
<1>5. f \in [0 .. o -> S] /\ f[0] = x
  BY <1>1, <1>4
<1>6. ASSUME NEW n \in 1 .. o
      PROVE  f[n] = step[<<f[n - 1], s[n]>>]
  <2>1. n - 1 \in Nat /\ (n - 1) + 1 = n /\ n - 1 \in 0 .. o /\ n \in 0 .. o /\ n \in Nat
    BY <1>1
  <2>2. g[n] = next[<<n, g[n - 1]>>] /\ g[n - 1] \in S
    BY <1>4, <2>1
  <2>3. next[<<n, g[n - 1]>>] = step[<<g[n - 1], s[n]>>]
    BY <2>1, <2>2
  <2> QED BY <2>1, <2>2, <2>3
<1> HIDE DEF f
<1> QED BY <1>5, <1>6 DEF o, IsFold

-----------------------------------------------------------------------------
(* Only takes some of the elements of a sequence, *)
IsOnly(s, T, f) ==
  /\ f[0] = <<>>
  /\ \A n \in 1 .. Len(s) : f[n] = IF s[n] \in T THEN Append(f[n - 1], s[n]) ELSE f[n - 1]
  /\ Only(s, T) = f[Len(s)]

(* Only takes the elements in one behind the other.                        *)
LEMMA OnlySteps ==
  ASSUME NEW X, NEW s \in Seq(X), NEW T
  PROVE  \E f : IsOnly(s, T, f)
<1> DEFINE o == Len(s)
           step == [p \in Seq(X) \X X |-> IF p[2] \in T THEN Append(p[1], p[2]) ELSE p[1]]
           Loop(f) == f = [n \in 0 .. o |->
                             IF n = 0 THEN <<>>
                             ELSE IF s[n] \in T THEN Append(f[n - 1], s[n]) ELSE f[n - 1]]
<1>1. step \in [Seq(X) \X X -> Seq(X)]
  <2>1. ASSUME NEW p \in Seq(X) \X X
        PROVE  (IF p[2] \in T THEN Append(p[1], p[2]) ELSE p[1]) \in Seq(X)
    OBVIOUS
  <2> QED BY <2>1
<1>2. <<>> \in Seq(X)
  OBVIOUS
<1>3. PICK g : IsFold(Seq(X), step, <<>>, s, g)
  <2> HIDE DEF step
  <2> QED BY <1>1, <1>2, FoldExists
<1>4. o \in Nat /\ g \in [0 .. o -> Seq(X)] /\ g[0] = <<>> /\ \A n \in 1 .. o : s[n] \in X
  BY <1>3 DEF IsFold
<1>5. \A n \in 1 .. o : g[n] = step[<<g[n - 1], s[n]>>]
  BY <1>3 DEF IsFold
<1> HIDE DEF o
<1>6. ASSUME NEW n \in 1 .. o
      PROVE  g[n] = IF s[n] \in T THEN Append(g[n - 1], s[n]) ELSE g[n - 1]
  <2>1. n - 1 \in 0 .. o
    BY <1>4
  <2>2. g[n - 1] \in Seq(X) /\ s[n] \in X
    BY <1>4, <2>1
  <2>3. step[<<g[n - 1], s[n]>>] = IF s[n] \in T THEN Append(g[n - 1], s[n]) ELSE g[n - 1]
    BY <2>2
  <2> QED BY <1>5, <2>3
<1>7. Loop(g)
  <2>1. g = [n \in 0 .. o |-> g[n]]
    BY <1>4
  <2>2. ASSUME NEW n \in 0 .. o
        PROVE  g[n] = IF n = 0 THEN <<>> ELSE IF s[n] \in T THEN Append(g[n - 1], s[n]) ELSE g[n - 1]
    <3>1. n = 0 \/ n \in 1 .. o
      BY <1>4
    <3> QED BY <1>4, <1>6, <3>1
  <2> QED BY <2>1, <2>2
<1> DEFINE f == CHOOSE r : Loop(r)
<1>8. Loop(f)
  <2> HIDE DEF Loop
  <2> QED BY <1>7
<1>9. Only(s, T) = f[o]
  BY DEF Only, o
<1>10. f[0] = <<>> /\ \A n \in 1 .. o : f[n] = IF s[n] \in T THEN Append(f[n - 1], s[n]) ELSE f[n - 1]
  <2> HIDE DEF f
  <2>1. ASSUME NEW n \in 0 .. o
        PROVE  f[n] = IF n = 0 THEN <<>> ELSE IF s[n] \in T THEN Append(f[n - 1], s[n]) ELSE f[n - 1]
    BY <1>8
  <2> QED BY <1>4, <2>1
<1> HIDE DEF f
<1> QED BY <1>9, <1>10 DEF o, IsOnly

(* What Only keeps is in the set.                                          *)
LEMMA OnlyIn ==
  ASSUME NEW X, NEW s \in Seq(X), NEW T
  PROVE  Only(s, T) \in Seq(X \cap T)
<1>1. PICK f : IsOnly(s, T, f)
  BY OnlySteps
<1> DEFINE o == Len(s)
           Good == {n \in Nat : n <= o => f[n] \in Seq(X \cap T)}
<1>2. /\ o \in Nat /\ \A n \in 1 .. o : s[n] \in X
      /\ f[0] = <<>> /\ Only(s, T) = f[o]
      /\ \A n \in 1 .. o : f[n] = IF s[n] \in T THEN Append(f[n - 1], s[n]) ELSE f[n - 1]
  BY <1>1 DEF IsOnly
<1> HIDE DEF o
<1>3. 0 \in Good
  <2>1. <<>> \in Seq(X \cap T)
    OBVIOUS
  <2> QED BY <1>2, <2>1
<1>4. ASSUME NEW n \in Nat, n \in Good
      PROVE  n + 1 \in Good
  <2> SUFFICES ASSUME n + 1 <= o PROVE f[n + 1] \in Seq(X \cap T)
    OBVIOUS
  <2>1. n + 1 \in 1 .. o /\ (n + 1) - 1 = n /\ n <= o
    BY <1>2
  <2>2. f[n] \in Seq(X \cap T)
    BY <1>4, <2>1
  <2>3. f[n + 1] = IF s[n + 1] \in T THEN Append(f[n], s[n + 1]) ELSE f[n]
    BY <1>2, <2>1
  <2>4. s[n + 1] \in X
    BY <1>2, <2>1
  <2> QED BY <2>2, <2>3, <2>4
<1>5. Nat \subseteq Good
  <2> HIDE DEF Good
  <2> QED BY <1>3, <1>4, Induction
<1> QED BY <1>2, <1>5

Contexts(N, D) == [active : Seq(N), deferred : SUBSET D]

(* A tool promoted is one more of the active ones.                         *)
LEMMA PromoteIn ==
  ASSUME NEW N, NEW D, NEW c \in Contexts(N, D), NEW name \in N
  PROVE  Promote(c, name) \in Contexts(N, D)
BY DEF Contexts, Promote

(* PromoteTools promotes one tool behind the other.                         *)
IsPromoting(ctx, s, f) ==
  /\ f[0] = ctx
  /\ \A n \in 1 .. Len(s) : f[n] = Promote(f[n - 1], s[n])
  /\ PromoteTools(ctx, s) = f[Len(s)]

(* PromoteTools is the end of such steps (context.go PromoteTools).        *)
LEMMA PromoteSteps ==
  ASSUME NEW N, NEW D, NEW ctx \in Contexts(N, D), NEW s \in Seq(N)
  PROVE  \E f : IsPromoting(ctx, s, f)
<1> DEFINE o == Len(s)
           S == Contexts(N, D)
           step == [p \in S \X N |-> Promote(p[1], p[2])]
           Loop(f) == f = [n \in 0 .. o |-> IF n = 0 THEN ctx ELSE Promote(f[n - 1], s[n])]
<1>1. step \in [S \X N -> S]
  <2>1. ASSUME NEW p \in S \X N
        PROVE  (Promote(p[1], p[2])) \in S
    BY PromoteIn
  <2> QED BY <2>1
<1>2. ctx \in S
  OBVIOUS
<1>3. PICK g : IsFold(S, step, ctx, s, g)
  <2> HIDE DEF step, S
  <2> QED BY <1>1, <1>2, FoldExists
<1> HIDE DEF S
<1>4. o \in Nat /\ g \in [0 .. o -> S] /\ g[0] = ctx /\ \A n \in 1 .. o : s[n] \in N
  BY <1>3 DEF IsFold
<1>5. \A n \in 1 .. o : g[n] = step[<<g[n - 1], s[n]>>]
  BY <1>3 DEF IsFold
<1> HIDE DEF o
<1>6. ASSUME NEW n \in 1 .. o
      PROVE  g[n] = Promote(g[n - 1], s[n])
  <2>1. n - 1 \in 0 .. o
    BY <1>4
  <2>2. g[n - 1] \in S /\ s[n] \in N
    BY <1>4, <2>1
  <2>3. step[<<g[n - 1], s[n]>>] = Promote(g[n - 1], s[n])
    BY <2>2
  <2> QED BY <1>5, <2>3
<1>7. Loop(g)
  <2>1. g = [n \in 0 .. o |-> g[n]]
    BY <1>4
  <2>2. ASSUME NEW n \in 0 .. o
        PROVE  g[n] = IF n = 0 THEN ctx ELSE Promote(g[n - 1], s[n])
    <3>1. n = 0 \/ n \in 1 .. o
      BY <1>4
    <3> QED BY <1>4, <1>6, <3>1
  <2> QED BY <2>1, <2>2
<1> DEFINE f == CHOOSE r : Loop(r)
<1>8. Loop(f)
  <2> HIDE DEF Loop
  <2> QED BY <1>7
<1>9. PromoteTools(ctx, s) = f[o]
  BY DEF PromoteTools, o
<1>10. f[0] = ctx /\ \A n \in 1 .. o : f[n] = Promote(f[n - 1], s[n])
  <2> HIDE DEF f
  <2>1. ASSUME NEW n \in 0 .. o
        PROVE  f[n] = IF n = 0 THEN ctx ELSE Promote(f[n - 1], s[n])
    BY <1>8
  <2> QED BY <1>4, <2>1
<1> HIDE DEF f
<1> QED BY <1>9, <1>10 DEF o, IsPromoting

IsFlat(ss, f) ==
  /\ f[1] = ss[1]
  /\ \A n \in 2 .. Len(ss) : f[n] = f[n - 1] \o ss[n]
  /\ FlattenSeq(ss) = f[Len(ss)]

(* FlattenSeq is the end of such steps.                                    *)
LEMMA FlatSteps ==
  ASSUME NEW W, NEW ss \in Seq(Seq(W)), Len(ss) # 0
  PROVE  \E f : IsFlat(ss, f)
<1> DEFINE o == Len(ss)
           S == Seq(W)
           step == [p \in S \X S |-> p[1] \o p[2]]
           Loop(f) == f = [i \in 1 .. o |-> IF i = 1 THEN ss[i] ELSE f[i - 1] \o ss[i]]
<1>1. step \in [S \X S -> S]
  <2>1. ASSUME NEW p \in S \X S
        PROVE  (p[1] \o p[2]) \in S
    OBVIOUS
  <2> QED BY <2>1
<1>2. <<>> \in S
  OBVIOUS
<1>3. PICK g : IsFold(S, step, <<>>, ss, g)
  <2> HIDE DEF step, S
  <2>1. ss \in Seq(S)
    BY DEF S
  <2> QED BY <1>1, <1>2, <2>1, FoldExists
<1>4. o \in Nat /\ g \in [0 .. o -> S] /\ g[0] = <<>> /\ \A n \in 1 .. o : ss[n] \in S
  BY <1>3 DEF IsFold
<1>5. \A n \in 1 .. o : g[n] = step[<<g[n - 1], ss[n]>>]
  BY <1>3 DEF IsFold
<1>0. o # 0
  OBVIOUS
<1> HIDE DEF o
<1>6. ASSUME NEW n \in 1 .. o
      PROVE  g[n] = g[n - 1] \o ss[n]
  <2>1. n - 1 \in 0 .. o
    BY <1>4
  <2>2. g[n - 1] \in S /\ ss[n] \in S
    BY <1>4, <2>1
  <2> HIDE DEF S
  <2>3. step[<<g[n - 1], ss[n]>>] = g[n - 1] \o ss[n]
    BY <2>2
  <2> QED BY <1>5, <2>3
<1> DEFINE h == [i \in 1 .. o |-> g[i]]
<1>7. Loop(h)
  <2>1. h = [n \in 1 .. o |-> h[n]]
    OBVIOUS
  <2>2. ASSUME NEW n \in 1 .. o
        PROVE  h[n] = IF n = 1 THEN ss[n] ELSE h[n - 1] \o ss[n]
    <3>1. CASE n = 1
      <4>1. n - 1 = 0 /\ g[n - 1] = <<>> /\ ss[n] \in S
        BY <1>4, <3>1
      <4>2. <<>> \o ss[n] = ss[n]
        BY <4>1, ConcatEmptySeq
      <4>3. g[n] = ss[n]
        BY <1>6, <4>1, <4>2
      <4> QED BY <3>1, <4>3
    <3>2. CASE n # 1
      <4>1. n - 1 \in 1 .. o
        BY <1>4, <3>2
      <4>2. h[n - 1] = g[n - 1] /\ h[n] = g[n]
        BY <4>1
      <4> HIDE DEF h
      <4> QED BY <1>6, <3>2, <4>2
    <3> QED BY <3>1, <3>2
  <2> HIDE DEF h
  <2> QED BY <2>1, <2>2
<1> DEFINE f == CHOOSE r : Loop(r)
<1>8. Loop(f)
  <2> HIDE DEF Loop
  <2> QED BY <1>7
<1>9. FlattenSeq(ss) = f[o]
  BY <1>0 DEF FlattenSeq, o
<1>10. f[1] = ss[1] /\ \A n \in 2 .. o : f[n] = f[n - 1] \o ss[n]
  <2> HIDE DEF f
  <2>1. ASSUME NEW n \in 1 .. o
        PROVE  f[n] = IF n = 1 THEN ss[n] ELSE f[n - 1] \o ss[n]
    BY <1>8
  <2>2. 1 \in 1 .. o /\ \A n \in 2 .. o : n \in 1 .. o /\ n # 1
    BY <1>0, <1>4
  <2> QED BY <2>1, <2>2
<1> HIDE DEF f
<1> QED BY <1>9, <1>10 DEF o, IsFlat

(* What is put behind each other holds what the pieces hold.               *)
LEMMA FlatIn ==
  ASSUME NEW W, NEW ss \in Seq(Seq(W))
  PROVE  FlattenSeq(ss) \in Seq(W)
<1>1. CASE Len(ss) = 0
  <2>1. ss = <<>>
    BY <1>1, EmptySeq
  <2> QED BY <1>1, <2>1 DEF FlattenSeq
<1>2. CASE Len(ss) # 0
  <2>1. PICK f : IsFlat(ss, f)
    BY <1>2, FlatSteps
  <2> DEFINE o == Len(ss)
             Good == {n \in Nat : n >= 1 /\ n <= o => f[n] \in Seq(W)}
  <2>2. /\ o \in Nat /\ o # 0 /\ \A n \in 1 .. o : ss[n] \in Seq(W)
        /\ f[1] = ss[1] /\ FlattenSeq(ss) = f[o]
        /\ \A n \in 2 .. o : f[n] = f[n - 1] \o ss[n]
    <3>1. Len(ss) \in Nat /\ \A n \in 1 .. Len(ss) : ss[n] \in Seq(W)
      OBVIOUS
    <3> QED BY <1>2, <2>1, <3>1 DEF IsFlat
  <2> HIDE DEF o
  <2>3. 0 \in Good
    OBVIOUS
  <2>4. ASSUME NEW n \in Nat, n \in Good
        PROVE  n + 1 \in Good
    <3> SUFFICES ASSUME n + 1 <= o PROVE f[n + 1] \in Seq(W)
      OBVIOUS
    <3>1. CASE n = 0
      <4>1. 1 \in 1 .. o
        BY <2>2
      <4> QED BY <2>2, <3>1, <4>1
    <3>2. CASE n # 0
      <4>1. n + 1 \in 2 .. o /\ n + 1 \in 1 .. o /\ (n + 1) - 1 = n /\ n <= o /\ n >= 1
        BY <2>2, <3>2
      <4>2. f[n] \in Seq(W) /\ ss[n + 1] \in Seq(W)
        BY <2>2, <2>4, <4>1
      <4>3. f[n + 1] = f[n] \o ss[n + 1]
        BY <2>2, <4>1
      <4> QED BY <4>2, <4>3
    <3> QED BY <3>1, <3>2
  <2>5. Nat \subseteq Good
    <3> HIDE DEF Good
    <3> QED BY <2>3, <2>4, Induction
  <2> QED BY <2>2, <2>5
<1> QED BY <1>1, <1>2

-----------------------------------------------------------------------------
(* Whose tools they are                                                    *)

(* Promoting tools takes them from the deferred to the active ones, and     *)
(* every tool named that is deferred is promoted.                           *)
Owns(ctx, every) ==
  /\ IsInjective(ctx.active)
  /\ ToSet(ctx.active) \cap ctx.deferred = {}
  /\ ToSet(ctx.active) \cup ctx.deferred = every

(* One tool promoted: it is taken from the deferred ones, and none is lost.*)
LEMMA PromoteOwns ==
  ASSUME NEW N, NEW D, NEW every, NEW c \in Contexts(N, D), NEW name \in N, Owns(c, every)
  PROVE  /\ Owns(Promote(c, name), every)
         /\ ToSet(c.active) \subseteq ToSet(Promote(c, name).active)
         /\ name \in every => name \in ToSet(Promote(c, name).active)
<1>1. CASE name \notin c.deferred
  <2>1. Promote(c, name) = c
    BY <1>1 DEF Promote
  <2> QED BY <1>1, <2>1 DEF Owns
<1>2. CASE name \in c.deferred
  <2> DEFINE a == c.active
             b == Append(a, name)
             d == c.deferred
  <2>1. Promote(c, name).active = b /\ Promote(c, name).deferred = d \ {name}
    BY <1>2 DEF Promote
  <2>2. a \in Seq(N)
    BY DEF Contexts
  <2>3. /\ IsInjective(a) /\ ToSet(a) \cap d = {} /\ ToSet(a) \cup d = every /\ name \in d
    BY <1>2 DEF Owns
  <2> HIDE DEF a, d
  <2>4. Len(b) = Len(a) + 1 /\ Len(a) \in Nat /\ DOMAIN b = 1 .. Len(a) + 1 /\ DOMAIN a = 1 .. Len(a)
    BY <2>2
  <2>5. b[Len(a) + 1] = name /\ \A n \in 1 .. Len(a) : b[n] = a[n]
    BY <2>2
  <2> HIDE DEF b
  <2>6. ToSet(b) = ToSet(a) \cup {name}
    <3> DEFINE l == Len(a)
    <3>1. \A x \in ToSet(a) : x \in ToSet(b)
      BY <2>4, <2>5 DEF ToSet
    <3>2. name \in ToSet(b)
      BY <2>4, <2>5 DEF ToSet
    <3>3. ASSUME NEW x \in ToSet(b) PROVE x \in ToSet(a) \cup {name}
      <4>1. PICK n \in 1 .. Len(a) + 1 : x = b[n]
        BY <2>4 DEF ToSet
      <4>2. n = Len(a) + 1 \/ n \in 1 .. Len(a)
        BY <2>4
      <4> QED BY <2>4, <2>5, <4>1, <4>2 DEF ToSet
    <3> QED BY <3>1, <3>2, <3>3
  <2>7. IsInjective(b)
    <3> SUFFICES ASSUME NEW i \in DOMAIN b, NEW j \in DOMAIN b, b[i] = b[j]
                 PROVE  i = j
      BY DEF IsInjective
    <3>1. name \notin ToSet(a)
      BY <2>3
    <3>2. \A n \in 1 .. Len(a) : a[n] # name
      BY <2>4, <3>1 DEF ToSet
    <3>3. (i = Len(a) + 1 \/ i \in 1 .. Len(a)) /\ (j = Len(a) + 1 \/ j \in 1 .. Len(a))
      BY <2>4
    <3>4. CASE i \in 1 .. Len(a) /\ j \in 1 .. Len(a)
      BY <2>3, <2>4, <2>5, <3>4 DEF IsInjective
    <3> QED BY <2>5, <3>2, <3>3, <3>4
  <2>8. /\ IsInjective(b) /\ ToSet(b) \cap (d \ {name}) = {} /\ ToSet(b) \cup (d \ {name}) = every
        /\ ToSet(a) \subseteq ToSet(b) /\ name \in ToSet(b)
    BY <2>3, <2>6, <2>7
  <2> QED BY <2>1, <2>8 DEF Owns, a, d
<1> QED BY <1>1, <1>2

(* All the tools found are promoted (context.go PromoteTools).             *)
LEMMA PromotesThem ==
  ASSUME NEW N, NEW D, NEW every, NEW ctx \in Contexts(N, D), NEW s \in Seq(N), Owns(ctx, every)
  PROVE  /\ PromoteTools(ctx, s) \in Contexts(N, D)
         /\ Owns(PromoteTools(ctx, s), every)
         /\ ToSet(ctx.active) \subseteq ToSet(PromoteTools(ctx, s).active)
         /\ ToSet(s) \cap every \subseteq ToSet(PromoteTools(ctx, s).active)
<1>1. PICK f : IsPromoting(ctx, s, f)
  BY PromoteSteps
<1> DEFINE o == Len(s)
           Fine(n) == /\ f[n] \in Contexts(N, D) /\ Owns(f[n], every)
                      /\ ToSet(ctx.active) \subseteq ToSet(f[n].active)
                      /\ \A k \in 1 .. n : s[k] \in every => s[k] \in ToSet(f[n].active)
           Good == {n \in Nat : n <= o => Fine(n)}
<1>2. /\ o \in Nat /\ \A n \in 1 .. o : s[n] \in N
      /\ f[0] = ctx /\ PromoteTools(ctx, s) = f[o]
      /\ \A n \in 1 .. o : f[n] = Promote(f[n - 1], s[n])
  BY <1>1 DEF IsPromoting
<1>3. ToSet(s) = {s[k] : k \in 1 .. o}
  BY DEF ToSet
<1> HIDE DEF o
<1>4. 0 \in Good
  BY <1>2
<1>5. ASSUME NEW n \in Nat, n \in Good
      PROVE  n + 1 \in Good
  <2> SUFFICES ASSUME n + 1 <= o PROVE Fine(n + 1)
    OBVIOUS
  <2>1. n + 1 \in 1 .. o /\ (n + 1) - 1 = n /\ n <= o /\ \A k \in 1 .. n + 1 : k = n + 1 \/ k \in 1 .. n
    BY <1>2
  <2>2. Fine(n)
    BY <1>5, <2>1
  <2>3. f[n + 1] = Promote(f[n], s[n + 1]) /\ s[n + 1] \in N
    BY <1>2, <2>1
  <2>4. f[n + 1] \in Contexts(N, D)
    BY <2>2, <2>3, PromoteIn
  <2>5. /\ Owns(f[n + 1], every) /\ ToSet(f[n].active) \subseteq ToSet(f[n + 1].active)
        /\ s[n + 1] \in every => s[n + 1] \in ToSet(f[n + 1].active)
    <3>1. f[n] \in Contexts(N, D) /\ Owns(f[n], every)
      BY <2>2
    <3> HIDE DEF Fine, Good
    <3> DEFINE c == f[n]
               name == s[n + 1]
    <3>2. c \in Contexts(N, D) /\ Owns(c, every) /\ name \in N
      BY <2>3, <3>1
    <3> HIDE DEF c, name
    <3>3. /\ Owns(Promote(c, name), every)
          /\ ToSet(c.active) \subseteq ToSet(Promote(c, name).active)
          /\ name \in every => name \in ToSet(Promote(c, name).active)
      BY <3>2, PromoteOwns
    <3> QED BY <2>3, <3>3 DEF c, name
  <2> QED BY <2>1, <2>2, <2>4, <2>5
<1>6. Nat \subseteq Good
  <2> HIDE DEF Good
  <2> QED BY <1>4, <1>5, Induction
<1>7. Fine(o)
  BY <1>2, <1>6
<1> QED BY <1>2, <1>3, <1>7

-----------------------------------------------------------------------------
(* The messages                                                            *)

Names == OwnTools \cup {"", SearchToolName, KiroToolSearchName}

BlockTypes == Textless \cup {"text"}
Roles == {"user", "assistant", "developer"}
BlocksOf(W) == [type : BlockTypes, id : Nat, name : Names, text : Seq(W), refs : Seq(OwnTools)]
MessagesOf(W) == [role : Roles, isString : BOOLEAN, blocks : Seq(BlocksOf(W))]

(* What the conversion says itself.                                         *)
Fillers == {"(empty)", "Continue", "(empty result)", "ack", "thinking_mode"}
Telling(W) ==
  /\ \A id \in Nat : Word("Tool", id) \in W /\ Word("Tool Result", id) \in W
  /\ \A name \in OwnTools : Word("tool_reference", name) \in W
  /\ \A type \in BlockTypes : Word("unknown", type) \in W
  /\ \A filler \in Fillers : Word("synthetic", filler) \in W

(* What is made of words of W is a block over W, and a message over W.     *)
LEMMA TextBlockIn ==
  ASSUME NEW W, NEW text \in Seq(W)
  PROVE  TextBlock(text) \in BlocksOf(W)
<1>1. "text" \in BlockTypes /\ NoID \in Nat /\ "" \in Names /\ <<>> \in Seq(OwnTools)
  <2>1. "text" \in BlockTypes
    BY DEF BlockTypes
  <2>2. NoID \in Nat
    BY DEF NoID
  <2>3. "" \in Names
    BY DEF Names
  <2>4. <<>> \in Seq(OwnTools)
    OBVIOUS
  <2> QED BY <2>1, <2>2, <2>3, <2>4
<1> QED BY <1>1 DEF TextBlock, Block, BlocksOf

LEMMA OneIn ==
  ASSUME NEW S, NEW x \in S
  PROVE  <<x>> \in Seq(S)
OBVIOUS

LEMMA StringMessageIn ==
  ASSUME NEW W, NEW role \in Roles, NEW text \in Seq(W)
  PROVE  StringMessage(role, text) \in MessagesOf(W)
<1>1. <<TextBlock(text)>> \in Seq(BlocksOf(W))
  BY TextBlockIn
<1> HIDE DEF BlocksOf
<1> QED BY <1>1 DEF StringMessage, MessagesOf

(* A sequence mapped.                                                      *)
LEMMA MappedIn ==
  ASSUME NEW S, NEW T, NEW s \in Seq(S), NEW F \in [S -> T]
  PROVE  [n \in DOMAIN s |-> F[s[n]]] \in Seq(T)
OBVIOUS

(* What Only keeps was there.                                              *)
LEMMA OnlyOf ==
  ASSUME NEW X, NEW s \in Seq(X), NEW T
  PROVE  Only(s, T) \in Seq(X)
<1>1. Only(s, T) \in Seq(X \cap T)
  BY OnlyIn
<1> QED BY <1>1

(* A tool result turned into text (extractToolResultContentText), and      *)
LEMMA ResultTextIn ==
  ASSUME NEW W, Telling(W), NEW b \in BlocksOf(W)
  PROVE  ResultText(b) \in Seq(W)
<1>1. b.text \in Seq(W) /\ b.refs \in Seq(OwnTools)
  BY DEF BlocksOf
<1> DEFINE t == b.text
           T == {w \in ToSet(t) : w[1] # "image"}
           r == b.refs
<1>2. t \in Seq(W) /\ r \in Seq(OwnTools)
  BY <1>1
<1>3. \A x \in OwnTools : Word("tool_reference", x) \in W
  BY DEF Telling
<1>4. Of(b.text, LAMBDA w : w[1] # "image") = Only(t, T)
  BY DEF Of
<1>5. References(b) = [n \in DOMAIN r |-> Word("tool_reference", r[n])]
  BY DEF References
<1> HIDE DEF t, r, T
<1>6. Only(t, T) \in Seq(W)
  BY <1>2, OnlyOf
<1>7. [n \in DOMAIN r |-> Word("tool_reference", r[n])] \in Seq(W)
  <2>1. \A n \in DOMAIN r : r[n] \in OwnTools
    BY <1>2
  <2>2. \A n \in DOMAIN r : Word("tool_reference", r[n]) \in W
    BY <1>3, <2>1
  <2>3. DOMAIN r = 1 .. Len(r) /\ Len(r) \in Nat
    BY <1>2
  <2> QED BY <2>2, <2>3
<1> DEFINE refs == IF b.type = "tool_search_tool_result" THEN References(b) ELSE <<>>
<1>8. refs \in Seq(W)
  BY <1>5, <1>7
<1>9. ResultText(b) = Only(t, T) \o refs
  BY <1>4 DEF ResultText
<1> HIDE DEF refs
<1> QED BY <1>6, <1>8, <1>9, ConcatProperties

(* a tool block turned into text (textualizeAllToolContent), say no more   *)
(* than                                                                    *)
LEMMA TextualizedIn ==
  ASSUME NEW W, Telling(W), NEW b \in BlocksOf(W)
  PROVE  Textualized(b) \in BlocksOf(W)
<1>1. b.id \in Nat
  BY DEF BlocksOf
<1>2. Word("Tool", b.id) \in W /\ Word("Tool Result", b.id) \in W
  BY <1>1 DEF Telling
<1>3. TextBlock(<<Word("Tool", b.id)>>) \in BlocksOf(W)
  <2>1. <<Word("Tool", b.id)>> \in Seq(W)
    BY <1>2, OneIn
  <2> QED BY <2>1, TextBlockIn
<1>4. TextBlock(<<Word("Tool Result", b.id)>> \o ResultText(b)) \in BlocksOf(W)
  <2>1. <<Word("Tool Result", b.id)>> \in Seq(W)
    BY <1>2, OneIn
  <2>2. <<Word("Tool Result", b.id)>> \o ResultText(b) \in Seq(W)
    BY <2>1, ResultTextIn, ConcatProperties
  <2> QED BY <2>2, TextBlockIn
<1> HIDE DEF BlocksOf
<1> QED BY <1>3, <1>4 DEF Textualized

(* Normalize's first step keeps the messages it does not empty.            *)
LEMMA OrphansIn ==
  ASSUME NEW W, Telling(W), NEW msgs \in Seq(MessagesOf(W))
  PROVE  /\ TextualizeOrphanToolResults(msgs) \in Seq(MessagesOf(W))
         /\ Len(TextualizeOrphanToolResults(msgs)) = Len(msgs)
<1> DEFINE New(i) == IF msgs[i].role # "user" THEN msgs[i]
                     ELSE MapBlocks(msgs[i], LAMBDA b :
                       IF IsToolResult(b) /\ b.id \notin UsesBefore(msgs, i) THEN Textualized(b) ELSE b)
<1>1. ASSUME NEW i \in DOMAIN msgs
      PROVE  New(i) \in MessagesOf(W)
  <2> DEFINE m == msgs[i]
             F(b) == IF IsToolResult(b) /\ b.id \notin UsesBefore(msgs, i) THEN Textualized(b) ELSE b
             bs == m.blocks
             cs == [n \in DOMAIN bs |-> F(bs[n])]
  <2>1. m \in MessagesOf(W)
    OBVIOUS
  <2>2. m.role \in Roles /\ m.isString \in BOOLEAN /\ bs \in Seq(BlocksOf(W))
    BY <2>1 DEF MessagesOf
  <2>3. \A b \in BlocksOf(W) : F(b) \in BlocksOf(W)
    BY TextualizedIn
  <2>4. New(i) = m \/ New(i) = [m EXCEPT !.blocks = cs]
    BY DEF MapBlocks
  <2> HIDE DEF m, F, New
  <2>5. cs \in Seq(BlocksOf(W))
    <3> HIDE DEF bs
    <3>1. \A n \in DOMAIN bs : F(bs[n]) \in BlocksOf(W)
      BY <2>2, <2>3
    <3>2. DOMAIN bs = 1 .. Len(bs) /\ Len(bs) \in Nat
      BY <2>2
    <3> QED BY <3>1, <3>2
  <2> HIDE DEF cs
  <2>6. [m EXCEPT !.blocks = cs] \in MessagesOf(W)
    BY <2>1, <2>5 DEF MessagesOf
  <2> QED BY <2>1, <2>4, <2>6
<1>2. TextualizeOrphanToolResults(msgs) = [i \in DOMAIN msgs |-> New(i)]
  BY DEF TextualizeOrphanToolResults
<1> HIDE DEF New
<1>3. DOMAIN msgs = 1 .. Len(msgs) /\ Len(msgs) \in Nat
  OBVIOUS
<1> QED BY <1>1, <1>2, <1>3

(* "developer" is "user" (normalizeRoles).                                 *)
LEMMA RolesIn ==
  ASSUME NEW W, NEW msgs \in Seq(MessagesOf(W))
  PROVE  /\ NormalizeRoles(msgs) \in Seq(MessagesOf(W))
         /\ Len(NormalizeRoles(msgs)) = Len(msgs)
<1> DEFINE New(i) == [msgs[i] EXCEPT !.role = IF @ \in {"user", "assistant"} THEN @ ELSE "user"]
<1>1. ASSUME NEW i \in DOMAIN msgs
      PROVE  New(i) \in MessagesOf(W)
  <2>1. msgs[i] \in MessagesOf(W)
    OBVIOUS
  <2> DEFINE r == IF msgs[i].role \in {"user", "assistant"} THEN msgs[i].role ELSE "user"
  <2>2. r \in Roles
    <3>1. msgs[i].role \in Roles
      BY <2>1 DEF MessagesOf
    <3>2. "user" \in Roles
      BY DEF Roles
    <3> QED BY <3>1, <3>2
  <2>3. New(i) = [msgs[i] EXCEPT !.role = r]
    OBVIOUS
  <2> HIDE DEF r, New
  <2> QED BY <2>1, <2>2, <2>3 DEF MessagesOf
<1>2. NormalizeRoles(msgs) = [i \in DOMAIN msgs |-> New(i)]
  BY DEF NormalizeRoles
<1> HIDE DEF New
<1>3. DOMAIN msgs = 1 .. Len(msgs) /\ Len(msgs) \in Nat
  OBVIOUS
<1> QED BY <1>1, <1>2, <1>3

(* A message's text is what its blocks say (ExtractTextContent).           *)
LEMMA ExtractTextContentIn ==
  ASSUME NEW W, Telling(W), NEW m \in MessagesOf(W)
  PROVE  ExtractTextContent(m) \in Seq(W)
<1> DEFINE bs == m.blocks
           T(b) == CASE b.type = "text" -> b.text
                     [] b.type \in Textless -> <<>>
                     [] OTHER -> <<Word("unknown", b.type)>>
           ss == [n \in DOMAIN bs |-> T(bs[n])]
<1>1. bs \in Seq(BlocksOf(W))
  BY DEF MessagesOf
<1>2. ASSUME NEW b \in BlocksOf(W)
      PROVE  T(b) \in Seq(W)
  <2>1. b.type \in BlockTypes /\ b.text \in Seq(W)
    BY DEF BlocksOf
  <2>2. Word("unknown", b.type) \in W
    BY <2>1 DEF Telling
  <2>3. <<Word("unknown", b.type)>> \in Seq(W) /\ <<>> \in Seq(W)
    BY <2>2
  <2>4. T(b) = b.text \/ T(b) = <<>> \/ T(b) = <<Word("unknown", b.type)>>
    OBVIOUS
  <2> QED BY <2>1, <2>3, <2>4
<1>3. ExtractTextContent(m) = FlattenSeq(ss)
  BY DEF ExtractTextContent, Concat
<1> HIDE DEF bs, T
<1>4. ss \in Seq(Seq(W))
  <2>1. \A n \in DOMAIN bs : T(bs[n]) \in Seq(W)
    BY <1>1, <1>2
  <2>2. DOMAIN bs = 1 .. Len(bs) /\ Len(bs) \in Nat
    BY <1>1
  <2> QED BY <2>1, <2>2
<1> HIDE DEF ss
<1> QED BY <1>3, <1>4, FlatIn

-----------------------------------------------------------------------------
(* Normalize                                                               *)

(* Of the last element and those before it.                                *)
LEMMA LastIn ==
  ASSUME NEW S, NEW s \in Seq(S), s # <<>>
  PROVE  Last(s) \in S /\ Front(s) \in Seq(S)
<1>1. Len(s) \in Nat /\ Len(s) # 0
  BY EmptySeq
<1>2. Len(s) \in 1 .. Len(s) /\ \A n \in 1 .. Len(s) : s[n] \in S
  BY <1>1
<1>3. Len(s) - 1 \in Nat /\ Len(s) - 1 <= Len(s)
  BY <1>1
<1>4. SubSeq(s, 1, Len(s) - 1) \in Seq(S)
  BY <1>3, SubSeqProperties
<1> QED BY <1>2, <1>4 DEF Last, Front

(* One step of mergeAdjacentSameRole, and                                  *)
LEMMA MergedIn ==
  ASSUME NEW W, Telling(W), NEW out \in Seq(MessagesOf(W)), NEW m \in MessagesOf(W)
  PROVE  Merged(out, m) \in Seq(MessagesOf(W)) /\ Merged(out, m) # <<>>
<1> DEFINE M == MessagesOf(W)
<1>0. out \in Seq(M) /\ m \in M
  OBVIOUS
<1>1. Append(out, m) \in Seq(M) /\ Append(out, m) # <<>>
  <2> HIDE DEF M
  <2> QED BY <1>0, AppendProperties
<1>2. CASE out # <<>>
  <2> DEFINE t == ExtractTextContent(Last(out)) \o ExtractTextContent(m)
             x == StringMessage(m.role, t)
  <2>1. Last(out) \in M /\ Front(out) \in Seq(M)
    BY <1>2, LastIn
  <2>2. t \in Seq(W)
    BY <2>1, ExtractTextContentIn, ConcatProperties
  <2>3. m.role \in Roles
    BY DEF MessagesOf
  <2>4. x \in M
    <3> HIDE DEF t
    <3> QED BY <2>2, <2>3, StringMessageIn
  <2>5. Merged(out, m) = Append(out, m) \/ Merged(out, m) = Append(Front(out), x)
    BY DEF Merged
  <2> HIDE DEF x, M
  <2>6. Append(Front(out), x) \in Seq(M) /\ Append(Front(out), x) # <<>>
    BY <2>1, <2>4, AppendProperties
  <2> QED BY <1>1, <2>5, <2>6 DEF M
<1>3. CASE out = <<>>
  <2>1. Merged(out, m) = Append(out, m)
    BY <1>3 DEF Merged
  <2> QED BY <1>1, <2>1
<1> QED BY <1>2, <1>3

(* one of ensureAlternatingRoles.                                          *)
LEMMA AlternatedIn ==
  ASSUME NEW W, Telling(W), NEW out \in Seq(MessagesOf(W)), NEW m \in MessagesOf(W)
  PROVE  Alternated(out, m) \in Seq(MessagesOf(W)) /\ Alternated(out, m) # <<>>
<1> DEFINE M == MessagesOf(W)
           x == SyntheticEmpty(Opposite(m.role))
<1>1. out \in Seq(M) /\ m \in M
  OBVIOUS
<1>2. x \in M
  <2>1. Opposite(m.role) \in Roles
    BY DEF Opposite, Roles
  <2>2. Word("synthetic", "(empty)") \in W
    BY DEF Telling, Fillers
  <2>3. <<Word("synthetic", "(empty)")>> \in Seq(W)
    BY <2>2, OneIn
  <2> QED BY <2>1, <2>3, StringMessageIn DEF SyntheticEmpty
<1>3. Alternated(out, m) = Append(out, m) \/ Alternated(out, m) = Append(Append(out, x), m)
  BY DEF Alternated
<1> HIDE DEF x, M
<1>4. Append(out, m) \in Seq(M) /\ Append(out, m) # <<>> /\ Append(out, x) \in Seq(M)
  BY <1>1, <1>2, AppendProperties
<1>5. Append(Append(out, x), m) \in Seq(M) /\ Append(Append(out, x), m) # <<>>
  BY <1>1, <1>4, AppendProperties
<1> QED BY <1>3, <1>4, <1>5 DEF M

(* MergeAdjacentSameRole takes one message behind the other,                *)
IsMerge(s, f) ==
  /\ f[0] = <<>>
  /\ \A n \in 1 .. Len(s) : f[n] = Merged(f[n - 1], s[n])
  /\ MergeAdjacentSameRole(s) = f[Len(s)]

(* MergeAdjacentSameRole is the end of its steps,                          *)
LEMMA MergeSteps ==
  ASSUME NEW W, Telling(W), NEW s \in Seq(MessagesOf(W))
  PROVE  \E f : IsMerge(s, f)
<1> DEFINE o == Len(s)
           S == Seq(MessagesOf(W))
           step == [p \in S \X MessagesOf(W) |-> Merged(p[1], p[2])]
           Loop(f) == f = [n \in 0 .. o |-> IF n = 0 THEN <<>> ELSE Merged(f[n - 1], s[n])]
<1>1. step \in [S \X MessagesOf(W) -> S]
  <2>1. ASSUME NEW p \in S \X MessagesOf(W)
        PROVE  (Merged(p[1], p[2])) \in S
    BY MergedIn
  <2> QED BY <2>1
<1>2. <<>> \in S
  OBVIOUS
<1>3. PICK g : IsFold(S, step, <<>>, s, g)
  <2> HIDE DEF step, S
  <2> QED BY <1>1, <1>2, FoldExists
<1> HIDE DEF S
<1>4. o \in Nat /\ g \in [0 .. o -> S] /\ g[0] = <<>> /\ \A n \in 1 .. o : s[n] \in MessagesOf(W)
  BY <1>3 DEF IsFold
<1>5. \A n \in 1 .. o : g[n] = step[<<g[n - 1], s[n]>>]
  BY <1>3 DEF IsFold
<1> HIDE DEF o
<1>6. ASSUME NEW n \in 1 .. o
      PROVE  g[n] = Merged(g[n - 1], s[n])
  <2>1. n - 1 \in 0 .. o
    BY <1>4
  <2>2. g[n - 1] \in S /\ s[n] \in MessagesOf(W)
    BY <1>4, <2>1
  <2>3. step[<<g[n - 1], s[n]>>] = Merged(g[n - 1], s[n])
    BY <2>2
  <2> QED BY <1>5, <2>3
<1>7. Loop(g)
  <2>1. g = [n \in 0 .. o |-> g[n]]
    BY <1>4
  <2>2. ASSUME NEW n \in 0 .. o
        PROVE  g[n] = IF n = 0 THEN <<>> ELSE Merged(g[n - 1], s[n])
    <3>1. n = 0 \/ n \in 1 .. o
      BY <1>4
    <3> QED BY <1>4, <1>6, <3>1
  <2> QED BY <2>1, <2>2
<1> DEFINE f == CHOOSE r : Loop(r)
<1>8. Loop(f)
  <2> HIDE DEF Loop
  <2> QED BY <1>7
<1>9. MergeAdjacentSameRole(s) = f[o]
  BY DEF MergeAdjacentSameRole, o
<1>10. f[0] = <<>> /\ \A n \in 1 .. o : f[n] = Merged(f[n - 1], s[n])
  <2> HIDE DEF f
  <2>1. ASSUME NEW n \in 0 .. o
        PROVE  f[n] = IF n = 0 THEN <<>> ELSE Merged(f[n - 1], s[n])
    BY <1>8
  <2> QED BY <1>4, <2>1
<1> HIDE DEF f
<1> QED BY <1>9, <1>10 DEF o, IsMerge

(* and says what the messages said.                                        *)
LEMMA MergeIn ==
  ASSUME NEW W, Telling(W), NEW s \in Seq(MessagesOf(W))
  PROVE  /\ MergeAdjacentSameRole(s) \in Seq(MessagesOf(W))
         /\ s # <<>> => MergeAdjacentSameRole(s) # <<>>
<1> DEFINE M == MessagesOf(W)
<1>1. PICK f : IsMerge(s, f)
  BY MergeSteps
<1> DEFINE o == Len(s)
           Fine(n) == f[n] \in Seq(M) /\ (n # 0 => f[n] # <<>>)
           Good == {n \in Nat : n <= o => Fine(n)}
<1>2. /\ o \in Nat /\ \A n \in 1 .. o : s[n] \in M
      /\ f[0] = <<>> /\ MergeAdjacentSameRole(s) = f[o]
      /\ \A n \in 1 .. o : f[n] = Merged(f[n - 1], s[n])
  <2>1. Len(s) \in Nat /\ \A n \in 1 .. Len(s) : s[n] \in M
    OBVIOUS
  <2> QED BY <1>1, <2>1 DEF IsMerge
<1>3. s # <<>> => o # 0
  BY EmptySeq
<1> HIDE DEF o
<1>4. 0 \in Good
  <2>1. <<>> \in Seq(M)
    OBVIOUS
  <2> QED BY <1>2, <2>1
<1>5. ASSUME NEW n \in Nat, n \in Good
      PROVE  n + 1 \in Good
  <2> SUFFICES ASSUME n + 1 <= o PROVE Fine(n + 1)
    OBVIOUS
  <2>1. n + 1 \in 1 .. o /\ (n + 1) - 1 = n /\ n <= o
    BY <1>2
  <2>2. f[n] \in Seq(M)
    BY <1>5, <2>1
  <2>3. f[n + 1] = Merged(f[n], s[n + 1]) /\ s[n + 1] \in M
    BY <1>2, <2>1
  <2> QED BY <2>2, <2>3, MergedIn
<1>6. Nat \subseteq Good
  <2> HIDE DEF Good
  <2> QED BY <1>4, <1>5, Induction
<1>7. Fine(o)
  BY <1>2, <1>6
<1> QED BY <1>2, <1>3, <1>7

(* and so does EnsureAlternatingRoles.                                      *)
IsAlternation(s, f) ==
  /\ f[0] = <<>>
  /\ \A n \in 1 .. Len(s) : f[n] = Alternated(f[n - 1], s[n])
  /\ EnsureAlternatingRoles(s) = f[Len(s)]

(* EnsureAlternatingRoles is the end of its steps,                         *)
LEMMA AlternationSteps ==
  ASSUME NEW W, Telling(W), NEW s \in Seq(MessagesOf(W))
  PROVE  \E f : IsAlternation(s, f)
<1> DEFINE o == Len(s)
           S == Seq(MessagesOf(W))
           step == [p \in S \X MessagesOf(W) |-> Alternated(p[1], p[2])]
           Loop(f) == f = [n \in 0 .. o |-> IF n = 0 THEN <<>> ELSE Alternated(f[n - 1], s[n])]
<1>1. step \in [S \X MessagesOf(W) -> S]
  <2>1. ASSUME NEW p \in S \X MessagesOf(W)
        PROVE  (Alternated(p[1], p[2])) \in S
    BY AlternatedIn
  <2> QED BY <2>1
<1>2. <<>> \in S
  OBVIOUS
<1>3. PICK g : IsFold(S, step, <<>>, s, g)
  <2> HIDE DEF step, S
  <2> QED BY <1>1, <1>2, FoldExists
<1> HIDE DEF S
<1>4. o \in Nat /\ g \in [0 .. o -> S] /\ g[0] = <<>> /\ \A n \in 1 .. o : s[n] \in MessagesOf(W)
  BY <1>3 DEF IsFold
<1>5. \A n \in 1 .. o : g[n] = step[<<g[n - 1], s[n]>>]
  BY <1>3 DEF IsFold
<1> HIDE DEF o
<1>6. ASSUME NEW n \in 1 .. o
      PROVE  g[n] = Alternated(g[n - 1], s[n])
  <2>1. n - 1 \in 0 .. o
    BY <1>4
  <2>2. g[n - 1] \in S /\ s[n] \in MessagesOf(W)
    BY <1>4, <2>1
  <2>3. step[<<g[n - 1], s[n]>>] = Alternated(g[n - 1], s[n])
    BY <2>2
  <2> QED BY <1>5, <2>3
<1>7. Loop(g)
  <2>1. g = [n \in 0 .. o |-> g[n]]
    BY <1>4
  <2>2. ASSUME NEW n \in 0 .. o
        PROVE  g[n] = IF n = 0 THEN <<>> ELSE Alternated(g[n - 1], s[n])
    <3>1. n = 0 \/ n \in 1 .. o
      BY <1>4
    <3> QED BY <1>4, <1>6, <3>1
  <2> QED BY <2>1, <2>2
<1> DEFINE f == CHOOSE r : Loop(r)
<1>8. Loop(f)
  <2> HIDE DEF Loop
  <2> QED BY <1>7
<1>9. EnsureAlternatingRoles(s) = f[o]
  BY DEF EnsureAlternatingRoles, o
<1>10. f[0] = <<>> /\ \A n \in 1 .. o : f[n] = Alternated(f[n - 1], s[n])
  <2> HIDE DEF f
  <2>1. ASSUME NEW n \in 0 .. o
        PROVE  f[n] = IF n = 0 THEN <<>> ELSE Alternated(f[n - 1], s[n])
    BY <1>8
  <2> QED BY <1>4, <2>1
<1> HIDE DEF f
<1> QED BY <1>9, <1>10 DEF o, IsAlternation

(* and says no more than a filler besides.                                 *)
LEMMA AlternationIn ==
  ASSUME NEW W, Telling(W), NEW s \in Seq(MessagesOf(W))
  PROVE  /\ EnsureAlternatingRoles(s) \in Seq(MessagesOf(W))
         /\ s # <<>> => EnsureAlternatingRoles(s) # <<>>
<1> DEFINE M == MessagesOf(W)
<1>1. PICK f : IsAlternation(s, f)
  BY AlternationSteps
<1> DEFINE o == Len(s)
           Fine(n) == f[n] \in Seq(M) /\ (n # 0 => f[n] # <<>>)
           Good == {n \in Nat : n <= o => Fine(n)}
<1>2. /\ o \in Nat /\ \A n \in 1 .. o : s[n] \in M
      /\ f[0] = <<>> /\ EnsureAlternatingRoles(s) = f[o]
      /\ \A n \in 1 .. o : f[n] = Alternated(f[n - 1], s[n])
  <2>1. Len(s) \in Nat /\ \A n \in 1 .. Len(s) : s[n] \in M
    OBVIOUS
  <2> QED BY <1>1, <2>1 DEF IsAlternation
<1>3. s # <<>> => o # 0
  BY EmptySeq
<1> HIDE DEF o
<1>4. 0 \in Good
  <2>1. <<>> \in Seq(M)
    OBVIOUS
  <2> QED BY <1>2, <2>1
<1>5. ASSUME NEW n \in Nat, n \in Good
      PROVE  n + 1 \in Good
  <2> SUFFICES ASSUME n + 1 <= o PROVE Fine(n + 1)
    OBVIOUS
  <2>1. n + 1 \in 1 .. o /\ (n + 1) - 1 = n /\ n <= o
    BY <1>2
  <2>2. f[n] \in Seq(M)
    BY <1>5, <2>1
  <2>3. f[n + 1] = Alternated(f[n], s[n + 1]) /\ s[n + 1] \in M
    BY <1>2, <2>1
  <2> QED BY <2>2, <2>3, AlternatedIn
<1>6. Nat \subseteq Good
  <2> HIDE DEF Good
  <2> QED BY <1>4, <1>5, Induction
<1>7. Fine(o)
  BY <1>2, <1>6
<1> QED BY <1>2, <1>3, <1>7

(* So does EnsureStartsWithUser.                                           *)
LEMMA StartIn ==
  ASSUME NEW W, Telling(W), NEW s \in Seq(MessagesOf(W)), s # <<>>
  PROVE  EnsureStartsWithUser(s) \in Seq(MessagesOf(W)) /\ EnsureStartsWithUser(s) # <<>>
<1> DEFINE M == MessagesOf(W)
           x == SyntheticEmpty("user")
<1>1. x \in M
  <2>1. "user" \in Roles
    BY DEF Roles
  <2>2. Word("synthetic", "(empty)") \in W
    BY DEF Telling, Fillers
  <2>3. <<Word("synthetic", "(empty)")>> \in Seq(W)
    BY <2>2, OneIn
  <2> QED BY <2>1, <2>3, StringMessageIn DEF SyntheticEmpty
<1>2. EnsureStartsWithUser(s) = s \/ EnsureStartsWithUser(s) = <<x>> \o s
  BY DEF EnsureStartsWithUser
<1>3. s \in Seq(M)
  OBVIOUS
<1> HIDE DEF x, M
<1>4. <<x>> \o s \in Seq(M) /\ <<x>> \o s # <<>>
  <2>1. <<x>> \in Seq(M) /\ Len(<<x>>) = 1
    BY <1>1
  <2>2. <<x>> \o s \in Seq(M) /\ Len(<<x>> \o s) = Len(<<x>>) + Len(s)
    BY <1>3, <2>1, ConcatProperties
  <2>3. Len(<<x>> \o s) # 0
    BY <1>3, <2>1, <2>2
  <2> QED BY <2>2, <2>3, EmptySeq
<1> QED BY <1>2, <1>4 DEF M

(* Normalize makes messages of messages.                                    *)
LEMMA NormalizeIn ==
  ASSUME NEW W, Telling(W), NEW s \in Seq(MessagesOf(W)), s # <<>>
  PROVE  Normalize(s, TRUE) \in Seq(MessagesOf(W)) /\ Normalize(s, TRUE) # <<>>
<1> DEFINE t == TextualizeOrphanToolResults(s)
           r == NormalizeRoles(t)
           m == MergeAdjacentSameRole(r)
           u == EnsureStartsWithUser(m)
<1> HIDE DEF t, r, m, u
<1>1. t \in Seq(MessagesOf(W)) /\ t # <<>>
  BY OrphansIn, EmptySeq DEF t
<1>2. r \in Seq(MessagesOf(W)) /\ r # <<>>
  BY <1>1, RolesIn, EmptySeq DEF r
<1>3. m \in Seq(MessagesOf(W)) /\ m # <<>>
  BY <1>2, MergeIn DEF m
<1>4. u \in Seq(MessagesOf(W)) /\ u # <<>>
  BY <1>3, StartIn DEF u
<1>5. EnsureAlternatingRoles(u) \in Seq(MessagesOf(W)) /\ EnsureAlternatingRoles(u) # <<>>
  BY <1>4, AlternationIn
<1> QED BY <1>5 DEF Normalize, t, r, m, u

-----------------------------------------------------------------------------
(* The history and the current message                                     *)

ResultsFrom(W) == [id : Nat, text : Seq(W)]
UsesFrom == [id : Nat, name : {Shorten(name) : name \in Names}]
EntriesOf(W) == [role : Roles, text : Seq(W), results : Seq(ResultsFrom(W)), uses : Seq(UsesFrom)]

LEMMA OfIn ==
  ASSUME NEW X, NEW s \in Seq(X)
  PROVE  /\ Of(s, IsToolUse) \in Seq(X)
         /\ Of(s, IsToolResult) \in Seq(X)
BY OnlyOf DEF Of

(* Results in the order of their calls are the same results                *)
(* (ReorderToolResults).                                                   *)
LEMMA ReorderIn ==
  ASSUME NEW X, NEW results \in Seq(X), NEW ids \in Seq(Nat)
  PROVE  ReorderToolResults(results, ids) \in Seq(X)
<1> DEFINE At(id) == {n \in DOMAIN results : results[n].id = id}
           LastOf(id) == results[CHOOSE n \in DOMAIN results :
              results[n].id = id /\ \A k \in DOMAIN results : results[k].id = id => k <= n]
           answered == Only(ids, ToSet(IDs(results)))
           front == [n \in DOMAIN answered |-> LastOf(answered[n])]
           back == Only(results, {r \in ToSet(results) : r.id \notin ToSet(ids)})
<1>1. answered \in Seq(Nat \cap ToSet(IDs(results)))
  BY OnlyIn
<1>2. ASSUME NEW id \in ToSet(IDs(results))
      PROVE  LastOf(id) \in X
  <2>1. Len(results) \in Nat /\ DOMAIN results = 1 .. Len(results)
    OBVIOUS
  <2>2. At(id) # {} /\ At(id) \subseteq 0 .. Len(results)
    BY <2>1 DEF ToSet, IDs
  <2> DEFINE m == Max(At(id))
  <2>3. m \in At(id) /\ \A k \in At(id) : m >= k
    <3> HIDE DEF At
    <3> QED BY <2>1, <2>2, MaxOf
  <2> HIDE DEF m
  <2>4. m \in DOMAIN results /\ results[m].id = id
        /\ \A k \in DOMAIN results : results[k].id = id => k <= m
    BY <2>1, <2>3
  <2> DEFINE c == CHOOSE n \in DOMAIN results :
                    results[n].id = id /\ \A k \in DOMAIN results : results[k].id = id => k <= n
  <2>5. c \in DOMAIN results
    BY <2>4
  <2> HIDE DEF c
  <2>6. results[c] \in X
    BY <2>1, <2>5
  <2> QED BY <2>6 DEF c
<1>3. back \in Seq(X)
  BY OnlyOf
<1>4. ReorderToolResults(results, ids) = results \/ ReorderToolResults(results, ids) = front \o back
  BY DEF ReorderToolResults
<1> HIDE DEF LastOf, answered, back
<1>5. front \in Seq(X)
  <2>1. \A n \in DOMAIN answered : LastOf(answered[n]) \in X
    BY <1>1, <1>2
  <2>2. DOMAIN answered = 1 .. Len(answered) /\ Len(answered) \in Nat
    BY <1>1
  <2> QED BY <2>1, <2>2
<1> HIDE DEF front
<1>6. front \o back \in Seq(X)
  BY <1>3, <1>5, ConcatProperties
<1> QED BY <1>4, <1>6

(* The results of a message say what it says (scanCurrentMessage).         *)
LEMMA ScanMessageIn ==
  ASSUME NEW W, Telling(W), NEW m \in MessagesOf(W)
  PROVE  ScanMessage(m) \in Seq(ResultsFrom(W))
<1> DEFINE bs == m.blocks
           rs == Of(bs, IsToolResult)
           T(b) == IF ResultText(b) = <<>> THEN <<Word("synthetic", "(empty result)")>> ELSE ResultText(b)
           R(b) == [id |-> b.id, text |-> T(b)]
<1>1. bs \in Seq(BlocksOf(W))
  BY DEF MessagesOf
<1>2. rs \in Seq(BlocksOf(W))
  <2> HIDE DEF bs
  <2> QED BY <1>1, OfIn
<1>3. ASSUME NEW b \in BlocksOf(W)
      PROVE  R(b) \in ResultsFrom(W)
  <2>1. b.id \in Nat
    BY DEF BlocksOf
  <2>2. ResultText(b) \in Seq(W)
    BY ResultTextIn
  <2>3. <<Word("synthetic", "(empty result)")>> \in Seq(W)
    <3>1. Word("synthetic", "(empty result)") \in W
      BY DEF Telling, Fillers
    <3> QED BY <3>1, OneIn
  <2>4. T(b) \in Seq(W)
    BY <2>2, <2>3
  <2> HIDE DEF T
  <2> QED BY <2>1, <2>4 DEF ResultsFrom
<1>4. ScanMessage(m) = [n \in DOMAIN rs |-> R(rs[n])]
  BY DEF ScanMessage
<1> HIDE DEF rs, R
<1>5. \A n \in DOMAIN rs : R(rs[n]) \in ResultsFrom(W)
  BY <1>2, <1>3
<1>6. DOMAIN rs = 1 .. Len(rs) /\ Len(rs) \in Nat
  BY <1>2
<1>7. [n \in DOMAIN rs |-> R(rs[n])] \in Seq(ResultsFrom(W))
  <2> HIDE DEF ResultsFrom
  <2> QED BY <1>5, <1>6
<1> QED BY <1>4, <1>7

(* The calls that are answered are numbers of calls (extractToolUseIDs).   *)
LEMMA IDsBeforeIn ==
  ASSUME NEW W, NEW msgs \in Seq(MessagesOf(W)), NEW i \in 1 .. Len(msgs)
  PROVE  IDsBefore(msgs, i) \in Seq(Nat)
<1>1. CASE i > 1
  <2> DEFINE bs == msgs[i - 1].blocks
             us == Of(bs, IsToolUse)
  <2>1. msgs[i - 1] \in MessagesOf(W)
    <3>1. i - 1 \in 1 .. Len(msgs)
      BY <1>1
    <3> QED BY <3>1
  <2>2. bs \in Seq(BlocksOf(W))
    BY <2>1 DEF MessagesOf
  <2>3. us \in Seq(BlocksOf(W))
    <3> HIDE DEF bs
    <3> QED BY <2>2, OfIn
  <2>4. IDsBefore(msgs, i) = IDs(us)
    BY <1>1 DEF IDsBefore
  <2> HIDE DEF us
  <2>5. DOMAIN us = 1 .. Len(us) /\ Len(us) \in Nat /\ \A n \in DOMAIN us : us[n] \in BlocksOf(W)
    BY <2>3
  <2>6. \A n \in DOMAIN us : us[n].id \in Nat
    BY <2>5 DEF BlocksOf
  <2>7. IDs(us) \in Seq(Nat)
    BY <2>5, <2>6 DEF IDs
  <2> QED BY <2>4, <2>7
<1>2. CASE ~(i > 1)
  <2>1. <<>> \in Seq(Nat)
    OBVIOUS
  <2> QED BY <1>2, <2>1 DEF IDsBefore
<1> QED BY <1>1, <1>2

(* A call in the history has a shortened name (ExtractToolUses).           *)
LEMMA UsesOfIn ==
  ASSUME NEW W, NEW m \in MessagesOf(W)
  PROVE  UsesOf(m) \in Seq(UsesFrom)
<1> DEFINE bs == m.blocks
           us == Of(bs, IsToolUse)
           U(b) == [id |-> b.id, name |-> Shorten(b.name)]
<1>1. bs \in Seq(BlocksOf(W))
  BY DEF MessagesOf
<1>2. us \in Seq(BlocksOf(W))
  <2> HIDE DEF bs
  <2> QED BY <1>1, OfIn
<1>3. ASSUME NEW b \in BlocksOf(W)
      PROVE  U(b) \in UsesFrom
  <2>1. b.id \in Nat /\ b.name \in Names
    BY DEF BlocksOf
  <2> QED BY <2>1 DEF UsesFrom
<1>4. UsesOf(m) = [n \in DOMAIN us |-> U(us[n])]
  BY DEF UsesOf
<1> HIDE DEF us, U
<1>5. \A n \in DOMAIN us : U(us[n]) \in UsesFrom
  BY <1>2, <1>3
<1>6. DOMAIN us = 1 .. Len(us) /\ Len(us) \in Nat
  BY <1>2
<1>7. [n \in DOMAIN us |-> U(us[n])] \in Seq(UsesFrom)
  <2> HIDE DEF UsesFrom
  <2> QED BY <1>5, <1>6
<1> QED BY <1>4, <1>7

(* An entry of the history, made of its parts,                             *)
LEMMA EntryIn ==
  ASSUME NEW W, NEW role \in Roles, NEW text \in Seq(W), NEW results \in Seq(ResultsFrom(W)),
         NEW uses \in Seq(UsesFrom)
  PROVE  Entry(role, text, results, uses) \in EntriesOf(W)
BY DEF Entry, EntriesOf

(* of the messages (buildHistory),                                         *)
LEMMA BuildHistoryIn ==
  ASSUME NEW W, Telling(W), NEW msgs \in Seq(MessagesOf(W))
  PROVE  BuildHistory(msgs) \in Seq(EntriesOf(W))
<1> DEFINE x(i) == ExtractTextContent(msgs[i])
           r(i) == ResultsOf(msgs[i], IDsBefore(msgs, i))
           u(i) == UsesOf(msgs[i])
           H(i) == IF msgs[i].role = "user" THEN Entry("user", x(i), r(i), <<>>)
                   ELSE Entry("assistant", x(i), <<>>, u(i))
<1>1. ASSUME NEW i \in 1 .. Len(msgs)
      PROVE  H(i) \in EntriesOf(W)
  <2>1. msgs[i] \in MessagesOf(W)
    OBVIOUS
  <2>2. x(i) \in Seq(W)
    BY <2>1, ExtractTextContentIn
  <2>3. r(i) \in Seq(ResultsFrom(W))
    <3>1. ScanMessage(msgs[i]) \in Seq(ResultsFrom(W))
      BY <2>1, ScanMessageIn
    <3>2. IDsBefore(msgs, i) \in Seq(Nat)
      BY IDsBeforeIn
    <3> QED BY <3>1, <3>2, ReorderIn DEF ResultsOf
  <2>4. u(i) \in Seq(UsesFrom)
    BY <2>1, UsesOfIn
  <2>5. "user" \in Roles /\ "assistant" \in Roles
    BY DEF Roles
  <2>6. <<>> \in Seq(UsesFrom) /\ <<>> \in Seq(ResultsFrom(W))
    OBVIOUS
  <2> HIDE DEF x, r, u
  <2>7. Entry("user", x(i), r(i), <<>>) \in EntriesOf(W)
    BY <2>2, <2>3, <2>5, <2>6, EntryIn
  <2>8. Entry("assistant", x(i), <<>>, u(i)) \in EntriesOf(W)
    BY <2>2, <2>4, <2>5, <2>6, EntryIn
  <2> QED BY <2>7, <2>8
<1>2. BuildHistory(msgs) = [i \in DOMAIN msgs |-> H(i)]
  BY DEF BuildHistory
<1> HIDE DEF H
<1>3. DOMAIN msgs = 1 .. Len(msgs) /\ Len(msgs) \in Nat
  OBVIOUS
<1>4. [i \in DOMAIN msgs |-> H(i)] \in Seq(EntriesOf(W))
  <2> HIDE DEF EntriesOf
  <2> QED BY <1>1, <1>3
<1> QED BY <1>2, <1>4

(* with the system prompt before it (placeSystemPrompt),                   *)
LEMMA PlaceIn ==
  ASSUME NEW W, Telling(W), NEW system \in Seq(W), NEW history \in Seq(EntriesOf(W))
  PROVE  PlaceSystemPrompt(system, history) \in Seq(EntriesOf(W))
<1> DEFINE E == EntriesOf(W)
           a == Entry("user", system, <<>>, <<>>)
           b == Entry("assistant", <<Word("synthetic", "ack")>>, <<>>, <<>>)
<1>1. a \in E /\ b \in E
  <2>1. "user" \in Roles /\ "assistant" \in Roles
    BY DEF Roles
  <2>2. <<>> \in Seq(UsesFrom) /\ <<>> \in Seq(ResultsFrom(W))
    OBVIOUS
  <2>3. <<Word("synthetic", "ack")>> \in Seq(W)
    <3>1. Word("synthetic", "ack") \in W
      BY DEF Telling, Fillers
    <3> QED BY <3>1, OneIn
  <2> QED BY <2>1, <2>2, <2>3, EntryIn
<1>2. PlaceSystemPrompt(system, history) = history
      \/ PlaceSystemPrompt(system, history) = <<a, b>> \o history
  BY DEF PlaceSystemPrompt
<1>3. history \in Seq(E)
  OBVIOUS
<1> HIDE DEF E, a, b
<1>4. <<a, b>> \in Seq(E)
  BY <1>1
<1>5. <<a, b>> \o history \in Seq(E)
  BY <1>3, <1>4, ConcatProperties
<1> QED BY <1>2, <1>5 DEF E

(* and the current message (buildCurrentMessage).                          *)
LEMMA BuildCurrentIn ==
  ASSUME NEW W, Telling(W), NEW m \in MessagesOf(W), NEW before \in Seq(Nat), NEW thinking
  PROVE  BuildCurrentMessage(m, before, thinking) \in EntriesOf(W)
<1> DEFINE results == ResultsOf(m, before)
           own == ExtractTextContent(m)
           text == IF own = <<>> /\ results = <<>> THEN SyntheticContinue ELSE own
           mode == IF thinking /\ text # <<>> THEN <<Word("synthetic", "thinking_mode")>> ELSE <<>>
<1>1. results \in Seq(ResultsFrom(W))
  BY ScanMessageIn, ReorderIn DEF ResultsOf
<1>2. own \in Seq(W)
  BY ExtractTextContentIn
<1>3. SyntheticContinue \in Seq(W) /\ <<Word("synthetic", "thinking_mode")>> \in Seq(W) /\ <<>> \in Seq(W)
  <2>1. Word("synthetic", "Continue") \in W /\ Word("synthetic", "thinking_mode") \in W
    BY DEF Telling, Fillers
  <2> QED BY <2>1, OneIn DEF SyntheticContinue
<1>4. BuildCurrentMessage(m, before, thinking) = Entry("user", mode \o text, results, <<>>)
  BY DEF BuildCurrentMessage
<1> HIDE DEF results, own
<1>5. text \in Seq(W)
  BY <1>2, <1>3
<1> HIDE DEF text
<1>6. mode \in Seq(W)
  BY <1>3
<1> HIDE DEF mode
<1>7. mode \o text \in Seq(W)
  BY <1>5, <1>6, ConcatProperties
<1>8. "user" \in Roles /\ <<>> \in Seq(UsesFrom)
  BY DEF Roles
<1> QED BY <1>1, <1>4, <1>7, <1>8, EntryIn

-----------------------------------------------------------------------------
(* The payload                                                             *)

(* The payload says what the messages say, and what the conversion says.    *)
LEMMA PayloadIn ==
  ASSUME NEW W, Telling(W), SystemPrompt \in Seq(W),
         NEW messagesNow \in Seq(MessagesOf(W)), messagesNow # <<>>, NEW offered
  PROVE  LET p == BuildPayload(SystemPrompt, messagesNow, offered, <<KiroToolSearchName>>, TRUE)
         IN  /\ p.history \in Seq(EntriesOf(W)) /\ p.current \in EntriesOf(W)
             /\ p.tools = ConvertTools(offered) \o <<KiroToolSearchName>>
<1> DEFINE extra == <<KiroToolSearchName>>
           msgs == Normalize(messagesNow, offered # <<>> \/ extra # <<>>)
           prefilled == msgs # <<>> /\ Last(msgs).role = "assistant"
           past == IF prefilled THEN msgs ELSE Front(msgs)
           last == IF prefilled THEN StringMessage("user", SyntheticContinue) ELSE Last(msgs)
           before == IDsBefore(Append(past, last), Len(past) + 1)
           p == BuildPayload(SystemPrompt, messagesNow, offered, <<KiroToolSearchName>>, TRUE)
           M == MessagesOf(W)
<1>1. msgs \in Seq(M) /\ msgs # <<>>
  <2>1. (offered # <<>> \/ extra # <<>>) = TRUE
    OBVIOUS
  <2> HIDE DEF extra
  <2>2. msgs = Normalize(messagesNow, TRUE)
    BY <2>1
  <2> QED BY <2>2, NormalizeIn
<1>2. /\ p.history = PlaceSystemPrompt(SystemPrompt, BuildHistory(past))
      /\ p.current = BuildCurrentMessage(last, before, TRUE)
      /\ p.tools = ConvertTools(offered) \o <<KiroToolSearchName>>
  BY DEF BuildPayload
<1> HIDE DEF msgs, p, M
<1>3. Last(msgs) \in M /\ Front(msgs) \in Seq(M)
  BY <1>1, LastIn
<1>4. StringMessage("user", SyntheticContinue) \in M
  <2>1. Word("synthetic", "Continue") \in W
    BY DEF Telling, Fillers
  <2>2. SyntheticContinue \in Seq(W)
    BY <2>1, OneIn DEF SyntheticContinue
  <2>3. "user" \in Roles
    BY DEF Roles
  <2> QED BY <2>2, <2>3, StringMessageIn DEF M
<1>5. past \in Seq(M) /\ last \in M
  BY <1>1, <1>3, <1>4
<1> HIDE DEF past, last
<1>6. before \in Seq(Nat)
  <2>1. Append(past, last) \in Seq(M) /\ Len(Append(past, last)) = Len(past) + 1 /\ Len(past) \in Nat
    BY <1>5, AppendProperties
  <2>2. Len(past) + 1 \in 1 .. Len(Append(past, last))
    BY <2>1
  <2> QED BY <2>1, <2>2, IDsBeforeIn DEF M
<1> HIDE DEF before
<1>7. p.current \in EntriesOf(W)
  BY <1>2, <1>5, <1>6, BuildCurrentIn DEF M
<1>8. p.history \in Seq(EntriesOf(W))
  <2>1. BuildHistory(past) \in Seq(EntriesOf(W))
    BY <1>5, BuildHistoryIn DEF M
  <2> QED BY <1>2, <2>1, PlaceIn
<1> QED BY <1>2, <1>7, <1>8 DEF p

(* The words of a payload are those of its entries.                        *)
LEMMA WordsIn ==
  ASSUME NEW W, NEW turns \in Seq(EntriesOf(W))
  PROVE  Words(turns) \in Seq(W)
<1> DEFINE R(e) == e.results
           T(e) == FlattenSeq([n \in DOMAIN R(e) |-> R(e)[n].text])
           X(e) == e.text \o T(e)
           ss == [i \in DOMAIN turns |-> X(turns[i])]
<1>1. ASSUME NEW e \in EntriesOf(W)
      PROVE  X(e) \in Seq(W)
  <2> DEFINE r == e.results
             rs == [n \in DOMAIN r |-> r[n].text]
  <2>1. e.text \in Seq(W) /\ r \in Seq(ResultsFrom(W))
    BY DEF EntriesOf
  <2>2. T(e) = FlattenSeq(rs)
    OBVIOUS
  <2> HIDE DEF r, T
  <2>3. rs \in Seq(Seq(W))
    <3>1. DOMAIN r = 1 .. Len(r) /\ Len(r) \in Nat /\ \A n \in DOMAIN r : r[n] \in ResultsFrom(W)
      BY <2>1
    <3>2. \A n \in DOMAIN r : r[n].text \in Seq(W)
      BY <3>1 DEF ResultsFrom
    <3> QED BY <3>1, <3>2
  <2> HIDE DEF rs
  <2>4. T(e) \in Seq(W)
    BY <2>2, <2>3, FlatIn
  <2> QED BY <2>1, <2>4, ConcatProperties
<1>2. Words(turns) = FlattenSeq(ss)
  BY DEF Words, Concat
<1> HIDE DEF X
<1>3. ss \in Seq(Seq(W))
  <2>1. \A i \in DOMAIN turns : X(turns[i]) \in Seq(W)
    <3>1. \A i \in DOMAIN turns : turns[i] \in EntriesOf(W)
      OBVIOUS
    <3> HIDE DEF EntriesOf
    <3> QED BY <1>1, <3>1
  <2>2. DOMAIN turns = 1 .. Len(turns) /\ Len(turns) \in Nat
    OBVIOUS
  <2> QED BY <2>1, <2>2
<1> HIDE DEF ss
<1> QED BY <1>2, <1>3, FlatIn

(* The tools a conversation refers to are the request's                    *)
(* (ExtractToolReferences).                                                *)
LEMMA RefsIn ==
  ASSUME NEW W, NEW msgs \in Seq(MessagesOf(W))
  PROVE  ExtractToolReferences(msgs) \in Seq(OwnTools)
<1> DEFINE B(m) == m.blocks
           X(m) == FlattenSeq([n \in DOMAIN B(m) |-> B(m)[n].refs])
           ss == [i \in DOMAIN msgs |-> X(msgs[i])]
<1>1. ASSUME NEW m \in MessagesOf(W)
      PROVE  X(m) \in Seq(OwnTools)
  <2> DEFINE r == m.blocks
             rs == [n \in DOMAIN r |-> r[n].refs]
  <2>1. r \in Seq(BlocksOf(W))
    BY DEF MessagesOf
  <2>2. X(m) = FlattenSeq(rs)
    OBVIOUS
  <2> HIDE DEF r, X
  <2>3. rs \in Seq(Seq(OwnTools))
    <3>1. DOMAIN r = 1 .. Len(r) /\ Len(r) \in Nat /\ \A n \in DOMAIN r : r[n] \in BlocksOf(W)
      BY <2>1
    <3>2. \A n \in DOMAIN r : r[n].refs \in Seq(OwnTools)
      BY <3>1 DEF BlocksOf
    <3> QED BY <3>1, <3>2
  <2> HIDE DEF rs
  <2> QED BY <2>2, <2>3, FlatIn
<1>2. ExtractToolReferences(msgs) = FlattenSeq(ss)
  BY DEF ExtractToolReferences, Concat
<1> HIDE DEF X
<1>3. ss \in Seq(Seq(OwnTools))
  <2>1. \A i \in DOMAIN msgs : X(msgs[i]) \in Seq(OwnTools)
    <3>1. \A i \in DOMAIN msgs : msgs[i] \in MessagesOf(W)
      OBVIOUS
    <3> HIDE DEF MessagesOf
    <3> QED BY <1>1, <3>1
  <2>2. DOMAIN msgs = 1 .. Len(msgs) /\ Len(msgs) \in Nat
    OBVIOUS
  <2> QED BY <2>1, <2>2
<1> HIDE DEF ss
<1> QED BY <1>2, <1>3, FlatIn

-----------------------------------------------------------------------------
(* Words and names                                                         *)

WordKinds == {"said", "out", "result", "found", "system", "Tool", "Tool Result",
              "tool_reference", "unknown", "synthetic", "image"}
Whose == Nat \cup (Nat \X Nat) \cup BlockTypes \cup Fillers \cup {"prompt"}
           \cup OwnTools \cup {Shorten(name) : name \in OwnTools}

(* The words that can be heard when the model has been told of some tools.  *)
Told(names) == {w \in WordKinds \X Whose : w[1] = "found" => w[2] \in names}
ShortOf(active) == {Shorten(name) : name \in ToSet(active)}

ShownOK(bs) ==
  /\ bs \in Seq(BlocksOf(Told({})))
  /\ \A n \in DOMAIN bs : bs[n].type = "tool_use" => bs[n].name \in OwnTools

(* A word the model has been told, by its kind.                            *)
LEMMA WordIn ==
  ASSUME NEW names, NEW kind \in WordKinds, NEW whose \in Whose, kind = "found" => whose \in names
  PROVE  Word(kind, whose) \in Told(names)
<1> DEFINE w == Word(kind, whose)
<1>1. w \in WordKinds \X Whose /\ w[1] = kind /\ w[2] = whose
  BY DEF Word
<1> HIDE DEF w
<1> QED BY <1>1 DEF Told, w

(* The conversion says of itself nothing of a tool found.                  *)
LEMMA ToldTelling ==
  ASSUME NEW names
  PROVE  Telling(Told(names)) /\ SystemPrompt \in Seq(Told(names))
<1>1. ASSUME NEW kind \in WordKinds \ {"found"}, NEW whose \in Whose
      PROVE  Word(kind, whose) \in Told(names)
  BY <1>1, WordIn
<1>2. {"Tool", "Tool Result", "tool_reference", "unknown", "synthetic", "system"} \subseteq WordKinds \ {"found"}
  BY DEF WordKinds
<1>3. Nat \subseteq Whose /\ OwnTools \subseteq Whose /\ BlockTypes \subseteq Whose /\ Fillers \subseteq Whose
      /\ "prompt" \in Whose
  BY DEF Whose
<1>4. \A id \in Nat : Word("Tool", id) \in Told(names) /\ Word("Tool Result", id) \in Told(names)
  BY <1>1, <1>2, <1>3
<1>5. \A name \in OwnTools : Word("tool_reference", name) \in Told(names)
  BY <1>1, <1>2, <1>3
<1>6. \A type \in BlockTypes : Word("unknown", type) \in Told(names)
  BY <1>1, <1>2, <1>3
<1>7. \A filler \in Fillers : Word("synthetic", filler) \in Told(names)
  BY <1>1, <1>2, <1>3
<1>8. Word("system", "prompt") \in Told(names)
  BY <1>1, <1>2, <1>3
<1>9. SystemPrompt \in Seq(Told(names))
  BY <1>8, OneIn DEF SystemPrompt
<1> QED BY <1>4, <1>5, <1>6, <1>7, <1>9 DEF Telling

(* Who knows more tools can hear more words.                               *)
LEMMA ToldMore ==
  ASSUME NEW few, NEW many, few \subseteq many
  PROVE  Told(few) \subseteq Told(many)
BY DEF Told

LEMMA SeqMore ==
  ASSUME NEW S, NEW T, S \subseteq T
  PROVE  Seq(S) \subseteq Seq(T)
OBVIOUS

(* The same of messages and blocks.                                        *)
LEMMA MessagesMore ==
  ASSUME NEW W, NEW V, W \subseteq V
  PROVE  /\ Seq(MessagesOf(W)) \subseteq Seq(MessagesOf(V))
         /\ Seq(BlocksOf(W)) \subseteq Seq(BlocksOf(V))
<1>1. Seq(W) \subseteq Seq(V)
  BY SeqMore
<1>2. BlocksOf(W) \subseteq BlocksOf(V)
  BY <1>1 DEF BlocksOf
<1>3. Seq(BlocksOf(W)) \subseteq Seq(BlocksOf(V))
  BY <1>2, SeqMore
<1>4. MessagesOf(W) \subseteq MessagesOf(V)
  BY <1>3 DEF MessagesOf
<1>5. Seq(MessagesOf(W)) \subseteq Seq(MessagesOf(V))
  BY <1>4, SeqMore
<1> QED BY <1>3, <1>5

(* The texts of clients and models name no tool found.                     *)
LEMMA SaidIn ==
  ASSUME NEW n \in Nat, NEW names
  PROVE  Said(n) \in Seq(Told(names))
<1>1. "said" \in WordKinds /\ n \in Whose /\ "said" # "found"
  BY DEF WordKinds, Whose
<1>2. Word("said", n) \in Told(names)
  BY <1>1, WordIn
<1> QED BY <1>2, OneIn DEF Said

-----------------------------------------------------------------------------
(* The tools' own names come back from their short forms.                   *)
LEMMA NameMapIn ==
  ASSUME NEW W, NEW msgs \in Seq(MessagesOf(W)), NEW active \in Seq(OwnTools)
  PROVE  NameMap(msgs, active) \subseteq Names /\ ToSet(active) \subseteq NameMap(msgs, active)
<1>1. ASSUME NEW i \in DOMAIN msgs, NEW b \in ToSet(msgs[i].blocks)
      PROVE  b.name \in Names
  <2> DEFINE bs == msgs[i].blocks
  <2>1. msgs[i] \in MessagesOf(W)
    OBVIOUS
  <2>2. bs \in Seq(BlocksOf(W))
    BY <2>1 DEF MessagesOf
  <2>3. b \in ToSet(bs)
    OBVIOUS
  <2> HIDE DEF bs
  <2>4. b \in BlocksOf(W)
    BY <2>2, <2>3 DEF ToSet
  <2> QED BY <2>4 DEF BlocksOf
<1>2. ToSet(active) \subseteq OwnTools
  BY DEF ToSet
<1>3. {b.name : b \in UNION {ToSet(msgs[i].blocks) : i \in DOMAIN msgs}} \subseteq Names
  BY <1>1
<1> QED BY <1>2, <1>3 DEF NameMap, Names

(* A name the map holds comes back from its short form (ReverseMap,        *)
(* Restore).                                                               *)
LEMMA RestoreOwn ==
  ASSUME NEW known, known \subseteq Names, NEW name \in known \cap OwnTools
  PROVE  Restore(known, Shorten(name)) = name
<1>1. \A n1, n2 \in Names : Shorten(n1) = Shorten(n2) => n1 = n2
  BY ToolsAssumption DEF Names
<1> DEFINE c == CHOOSE x \in known : Shorten(x) = Shorten(name)
<1>2. c \in known /\ Shorten(c) = Shorten(name)
  OBVIOUS
<1>3. Restore(known, Shorten(name)) = c
  BY DEF Restore
<1> HIDE DEF c
<1>4. c = name
  BY <1>1, <1>2 DEF Names
<1> QED BY <1>3, <1>4

(* A call of one of the request's tools.                                   *)
LEMMA ToolUseIn ==
  ASSUME NEW id \in Nat, NEW name \in OwnTools, NEW W
  PROVE  ToolUse(id, name) \in BlocksOf(W) /\ ToolUse(id, name).type = "tool_use" /\ ToolUse(id, name).name = name
<1>1. "tool_use" \in BlockTypes /\ name \in Names /\ <<>> \in Seq(W) /\ <<>> \in Seq(OwnTools)
  <2>1. "tool_use" \in BlockTypes
    BY DEF BlockTypes, Textless
  <2>2. name \in Names
    BY DEF Names
  <2> QED BY <2>1, <2>2
<1> QED BY <1>1 DEF ToolUse, Block, BlocksOf

(* What a client may be shown, block by block.                             *)
LEMMA ShownOne ==
  ASSUME NEW b \in BlocksOf(Told({})), b.type = "tool_use" => b.name \in OwnTools
  PROVE  ShownOK(<<b>>)
<1>1. <<b>> \in Seq(BlocksOf(Told({})))
  BY OneIn
<1>2. DOMAIN <<b>> = {1} /\ <<b>>[1] = b
  OBVIOUS
<1> QED BY <1>1, <1>2 DEF ShownOK

LEMMA ShownNone == ShownOK(<<>>)
BY DEF ShownOK

LEMMA ShownBoth ==
  ASSUME NEW a, NEW b, ShownOK(a), ShownOK(b)
  PROVE  ShownOK(a \o b)
<1> DEFINE B == BlocksOf(Told({}))
           P(x) == x.type = "tool_use" => x.name \in OwnTools
<1>1. /\ a \in Seq(B) /\ \A n \in DOMAIN a : P(a[n])
      /\ b \in Seq(B) /\ \A n \in DOMAIN b : P(b[n])
  BY DEF ShownOK
<1> HIDE DEF B, P
<1>2. a \o b \in Seq(B) /\ Len(a \o b) = Len(a) + Len(b) /\ Len(a) \in Nat /\ Len(b) \in Nat
      /\ DOMAIN a = 1 .. Len(a) /\ DOMAIN b = 1 .. Len(b) /\ DOMAIN (a \o b) = 1 .. Len(a) + Len(b)
  BY <1>1, ConcatProperties
<1>3. ASSUME NEW n \in DOMAIN (a \o b) PROVE P((a \o b)[n])
  <2>1. CASE n <= Len(a)
    <3>1. n \in 1 .. Len(a) /\ (a \o b)[n] = a[n]
      BY <1>1, <1>2, <2>1
    <3> QED BY <1>1, <1>2, <3>1
  <2>2. CASE n > Len(a)
    <3>1. n - Len(a) \in 1 .. Len(b) /\ (a \o b)[n] = b[n - Len(a)]
      BY <1>1, <1>2, <2>2
    <3> QED BY <1>1, <1>2, <3>1
  <2> QED BY <1>2, <2>1, <2>2
<1> QED BY <1>2, <1>3 DEF ShownOK, B, P

(* Text may be shown, and                                                  *)
LEMMA TextShown ==
  ASSUME NEW n \in Nat
  PROVE  ShownOK(<<TextBlock(Said(n))>>)
<1>1. TextBlock(Said(n)) \in BlocksOf(Told({}))
  BY SaidIn, TextBlockIn
<1>2. TextBlock(Said(n)).type # "tool_use"
  BY DEF TextBlock, Block
<1> QED BY <1>1, <1>2, ShownOne

(* so may whatever a model answers: its calls have the names restored.     *)
LEMMA ContentShown ==
  ASSUME made \in Nat, NEW W, working \in Seq(MessagesOf(W)), tools.active \in Seq(OwnTools),
         NEW content \in Contents
  PROVE  ShownOK(content)
<1>1. CASE content = <<>>
  BY <1>1, ShownNone
<1>2. CASE content = <<Plain("thinking")>>
  <2>1. "thinking" \in BlockTypes /\ "thinking" # "tool_use" /\ NoID \in Nat /\ "" \in Names
        /\ <<>> \in Seq(Told({})) /\ <<>> \in Seq(OwnTools)
    BY DEF BlockTypes, Textless, Names, NoID
  <2>2. Plain("thinking") \in BlocksOf(Told({})) /\ Plain("thinking").type = "thinking"
    BY <2>1 DEF Plain, Block, BlocksOf
  <2> QED BY <1>2, <2>1, <2>2, ShownOne
<1>3. CASE content = <<TextBlock(Said(made))>>
  BY <1>3, TextShown
<1>4. CASE \E n \in DOMAIN tools.active : content =
             <<ToolUse(made, Restore(NameMap(working, tools.active), ConvertTools(tools.active)[n]))>>
  <2>1. PICK n \in DOMAIN tools.active : content =
             <<ToolUse(made, Restore(NameMap(working, tools.active), ConvertTools(tools.active)[n]))>>
    BY <1>4
  <2> DEFINE active == tools.active
             name == active[n]
  <2>2. active \in Seq(OwnTools) /\ n \in DOMAIN active
    OBVIOUS
  <2>3. content = <<ToolUse(made, Restore(NameMap(working, active), ConvertTools(active)[n]))>>
    BY <2>1
  <2> HIDE DEF active
  <2>4. ConvertTools(active)[n] = Shorten(name) /\ name \in OwnTools /\ name \in ToSet(active)
    BY <2>2 DEF ConvertTools, ToSet
  <2> HIDE DEF name
  <2>5. Restore(NameMap(working, active), Shorten(name)) = name
    BY <2>2, <2>4, NameMapIn, RestoreOwn
  <2>6. content = <<ToolUse(made, name)>>
    BY <2>3, <2>4, <2>5
  <2>7. name \in OwnTools
    BY <2>4
  <2> QED BY <2>4, <2>6, <2>7, ToolUseIn, ShownOne
<1> QED BY <1>1, <1>2, <1>3, <1>4 DEF Contents

-----------------------------------------------------------------------------
(* The conversation                                                        *)

(* Types, and what the words and names of the conversation may be.          *)
Talk ==
  /\ made \in Nat
  /\ messages \in Seq(MessagesOf(Told({})))
  /\ tools \in Contexts(OwnTools, DeferredTools)
  /\ working \in Seq(MessagesOf(Told(ShortOf(tools.active))))
  /\ ShownOK(shown)

(* While the upstream is called, every tool of the request is on offer or   *)
(* deferred, and on offer if the client's messages refer to it.             *)
Offer ==
  stage = "calling" =>
    /\ ~options.openAI
    /\ messages # <<>> /\ working # <<>>
    /\ Owns(tools, OwnTools)
    /\ ToSet(ExtractToolReferences(messages)) \subseteq ToSet(tools.active)

SearchInv == Talk /\ Offer

(* The invariant holds of the first request before it is composed.         *)
LEMMA SearchInit == Init => SearchInv
<1> SUFFICES ASSUME Init PROVE SearchInv
  OBVIOUS
<1>1. made = 1 /\ messages = <<>> /\ tools = [active |-> <<>>, deferred |-> {}] /\ working = <<>>
      /\ shown = <<>> /\ stage = "composing"
  BY DEF Init
<1>2. tools \in Contexts(OwnTools, DeferredTools)
  BY <1>1 DEF Contexts
<1>3. working \in Seq(MessagesOf(Told(ShortOf(tools.active)))) /\ messages \in Seq(MessagesOf(Told({})))
  BY <1>1
<1>4. ShownOK(shown)
  BY <1>1, ShownNone
<1>5. made \in Nat /\ stage # "calling"
  BY <1>1
<1> QED BY <1>2, <1>3, <1>4, <1>5 DEF SearchInv, Talk, Offer

(* The end of a request keeps it, and                                      *)
LEMMA OverInv ==
  ASSUME Talk, NEW how, NEW s, NEW p, Over(how, s, p), made' \in Nat, messages' = messages, ShownOK(s)
  PROVE  SearchInv'
<1>1. working' = working /\ tools' = tools /\ shown' = s /\ stage' = "answered"
  BY DEF Over
<1>2. Talk'
  BY <1>1 DEF Talk
<1>3. stage' # "calling"
  BY <1>1
<1> QED BY <1>2, <1>3 DEF SearchInv, Offer

(* so does the way there.                                                  *)
LEMMA AnsweredInv ==
  ASSUME Talk, NEW s, NEW p, made' \in Nat, messages' = messages, ShownOK(s),
         StreamingOrJSONError(s, p) \/ Finish(s, p)
  PROVE  SearchInv'
<1>1. PICK how : Over(how, s, p)
  <2>1. CASE StreamingOrJSONError(s, p)
    BY <2>1 DEF StreamingOrJSONError
  <2>2. CASE Finish(s, p)
    BY <2>2 DEF Finish
  <2> QED BY <2>1, <2>2
<1> QED BY <1>1, OverInv

(* What a round shows joins what the rounds before showed.                 *)
LEMMA TalkContent ==
  ASSUME Talk, NEW content \in Contents
  PROVE  ShownOK(content) /\ ShownOK(shown \o content)
<1>1. tools.active \in Seq(OwnTools)
  BY DEF Talk, Contexts
<1>2. ShownOK(content)
  BY <1>1, ContentShown DEF Talk
<1> QED BY <1>2, ShownBoth DEF Talk

(* The text behind a search may be shown.                                  *)
LEMMA TailShown ==
  ASSUME Talk, NEW tail \in {<<>>, Tail1}
  PROVE  ShownOK(tail)
<1>1. made + 1 \in Nat
  BY DEF Talk
<1>2. ShownOK(Tail1)
  BY <1>1, TextShown DEF Tail1
<1> QED BY <1>2, ShownNone

(* What was shown may come back as a message of the model's.               *)
LEMMA ShownMessage ==
  ASSUME NEW bs, ShownOK(bs)
  PROVE  Message("assistant", bs) \in MessagesOf(Told({}))
<1>1. bs \in Seq(BlocksOf(Told({}))) /\ "assistant" \in Roles
  BY DEF ShownOK, Roles
<1> QED BY <1>1 DEF Message, MessagesOf

(* The numbers of the calls a client may answer.                           *)
LEMMA UseIDsIn ==
  ASSUME NEW W, messages \in Seq(MessagesOf(W))
  PROVE  UseIDs \subseteq Nat
<1> DEFINE Uses(i) == ToSet(Of(messages[i].blocks, LAMBDA x : x.type = "tool_use"))
<1>0. UseIDs = UNION {{b.id : b \in Uses(i)} : i \in DOMAIN messages}
  BY DEF UseIDs
<1> SUFFICES ASSUME NEW i \in DOMAIN messages, NEW b \in Uses(i)
             PROVE  b.id \in Nat
  <2> HIDE DEF Uses
  <2> QED BY <1>0
<1> DEFINE bs == messages[i].blocks
           T == {x \in ToSet(bs) : x.type = "tool_use"}
           us == Only(bs, T)
<1>1. bs \in Seq(BlocksOf(W))
  <2>1. messages[i] \in MessagesOf(W)
    OBVIOUS
  <2> QED BY <2>1 DEF MessagesOf
<1>2. b \in ToSet(us)
  BY DEF Of
<1> HIDE DEF bs, T
<1>3. us \in Seq(BlocksOf(W))
  BY <1>1, OnlyOf
<1> HIDE DEF us
<1>4. b \in BlocksOf(W)
  BY <1>2, <1>3 DEF ToSet
<1> QED BY <1>4 DEF BlocksOf

(* A client's result of a call.                                            *)
LEMMA ToolResultIn ==
  ASSUME NEW W, NEW id \in Nat, NEW text \in Seq(W), NEW refs \in Seq(OwnTools)
  PROVE  ToolResult(id, text, refs) \in BlocksOf(W)
<1>1. "tool_result" \in BlockTypes
  BY DEF BlockTypes, Textless
<1>2. "" \in Names
  BY DEF Names
<1> QED BY <1>1, <1>2 DEF ToolResult, Block, BlocksOf

(* A message more, of text, of results or of a tool reference.             *)
LEMMA ComposedIn ==
  ASSUME Talk, ComposeMessage
  PROVE  messages' \in Seq(MessagesOf(Told({})))
<1> DEFINE W == Told({})
           M == MessagesOf(W)
<1>1. made \in Nat /\ messages \in Seq(M)
  BY DEF Talk
<1>2. ASSUME NEW m \in M, messages' = Append(messages, m)
      PROVE  messages' \in Seq(M)
  <2> HIDE DEF M
  <2> QED BY <1>1, <1>2, AppendProperties
<1>3. ASSUME NEW role \in Roles, messages' = Append(messages, StringMessage(role, Said(made)))
      PROVE  messages' \in Seq(M)
  <2>1. StringMessage(role, Said(made)) \in M
    BY <1>1, SaidIn, StringMessageIn
  <2> HIDE DEF M
  <2> QED BY <1>2, <1>3, <2>1
<1> DEFINE R(out, ids) ==
             [n \in 1 .. out.count |-> ToolResult(ids[n], <<Word(out.what, <<made, n>>)>>, out.refs)]
           T(text) == IF text THEN <<TextBlock(Said(made))>> ELSE <<>>
<1>4. ASSUME NEW role \in Roles, NEW out \in Outputs, NEW ids \in [1 .. out.count -> UseIDs \cup {NoID}],
             messages' = Append(messages, Message(role, R(out, ids) \o T(out.text)))
      PROVE  messages' \in Seq(M)
  <2> DEFINE k == out.count
  <2>0. k \in Nat /\ out.what \in {"out", "image"} /\ out.refs \in Seq(OwnTools)
    BY OutputsAssumption
  <2>1. ASSUME NEW n \in 1 .. k
        PROVE  ToolResult(ids[n], <<Word(out.what, <<made, n>>)>>, out.refs) \in BlocksOf(W)
    <3>1. <<made, n>> \in Whose
      <4>1. <<made, n>> \in Nat \X Nat
        BY <1>1, <2>0
      <4> QED BY <4>1 DEF Whose
    <3>2. out.what \in WordKinds /\ out.what # "found"
      BY <2>0 DEF WordKinds
    <3>3. Word(out.what, <<made, n>>) \in W
      BY <3>1, <3>2, WordIn
    <3>4. <<Word(out.what, <<made, n>>)>> \in Seq(W)
      BY <3>3, OneIn
    <3>5. ids[n] \in Nat
      <4>1. UseIDs \cup {NoID} \subseteq Nat
        BY <1>1, UseIDsIn DEF NoID
      <4> QED BY <4>1
    <3> QED BY <2>0, <3>4, <3>5, ToolResultIn
  <2>3. R(out, ids) \in Seq(BlocksOf(W))
    <3> DEFINE F(n) == ToolResult(ids[n], <<Word(out.what, <<made, n>>)>>, out.refs)
    <3>1. R(out, ids) = [n \in 1 .. k |-> F(n)] /\ \A n \in 1 .. k : F(n) \in BlocksOf(W)
      BY <2>1
    <3> HIDE DEF F, R, k
    <3> QED BY <2>0, <3>1
  <2>4. T(out.text) \in Seq(BlocksOf(W))
    <3>1. TextBlock(Said(made)) \in BlocksOf(W)
      BY <1>1, SaidIn, TextBlockIn
    <3>2. <<TextBlock(Said(made))>> \in Seq(BlocksOf(W))
      BY <3>1, OneIn
    <3> QED BY <3>2
  <2> HIDE DEF R, T
  <2>5. R(out, ids) \o T(out.text) \in Seq(BlocksOf(W))
    BY <2>3, <2>4, ConcatProperties
  <2>6. Message(role, R(out, ids) \o T(out.text)) \in M
    BY <2>5 DEF Message, MessagesOf
  <2> HIDE DEF M
  <2> QED BY <1>2, <1>4, <2>6
<1>5. \/ \E role \in {"user", "assistant", "developer"} :
           messages' = Append(messages, StringMessage(role, Said(made)))
      \/ \E role \in {"user", "developer"}, out \in Outputs :
           \E ids \in [1 .. out.count -> UseIDs \cup {NoID}] :
             messages' = Append(messages, Message(role, R(out, ids) \o T(out.text)))
  BY DEF ComposeMessage
<1> HIDE DEF R, T, M
<1>6. {"user", "assistant", "developer"} = Roles /\ {"user", "developer"} \subseteq Roles
  BY DEF Roles
<1>7. CASE \E role \in {"user", "assistant", "developer"} :
             messages' = Append(messages, StringMessage(role, Said(made)))
  BY <1>3, <1>6, <1>7 DEF M
<1>8. CASE \E role \in {"user", "developer"}, out \in Outputs :
             \E ids \in [1 .. out.count -> UseIDs \cup {NoID}] :
               messages' = Append(messages, Message(role, R(out, ids) \o T(out.text)))
  BY <1>4, <1>6, <1>8 DEF M
<1> QED BY <1>5, <1>7, <1>8

(* A client composes a message.                                            *)
LEMMA ComposeInv ==
  ASSUME SearchInv, ComposeMessage
  PROVE  SearchInv'
<1>1. stage = "composing" /\ stage' = stage /\ made' = made + 1 /\ working' = working
      /\ tools' = tools /\ shown' = shown
  BY DEF ComposeMessage, request
<1>2. Talk /\ made \in Nat
  BY DEF SearchInv, Talk
<1>3. made' \in Nat
  BY <1>1, <1>2
<1>4. Talk'
  BY <1>1, <1>2, <1>3, ComposedIn DEF Talk
<1>5. stage' # "calling"
  BY <1>1
<1> QED BY <1>4, <1>5 DEF SearchInv, Offer

(* A client sends: the tools referred to are active at once (NewContext).  *)
LEMMA SendInv ==
  ASSUME SearchInv, Send
  PROVE  SearchInv'
<1> DEFINE refs == ExtractToolReferences(messages)
<1>1. /\ ~options.openAI /\ options' = options /\ messages # <<>> /\ messages' = messages
      /\ working' = messages /\ tools' = PromoteTools(NewContext, refs)
      /\ shown' = <<>> /\ made' = made
  BY DEF Send
<1>2. made \in Nat /\ messages \in Seq(MessagesOf(Told({})))
  BY DEF SearchInv, Talk
<1>3. NewContext \in Contexts(OwnTools, DeferredTools) /\ Owns(NewContext, OwnTools)
  <2>1. ActiveTools \in Seq(OwnTools)
    <3>1. ToSet(ActiveTools) \subseteq OwnTools
      BY DEF OwnTools
    <3> QED BY <3>1, SeqMore, ToolsAssumption
  <2>2. NewContext.active = ActiveTools /\ NewContext.deferred = DeferredTools
    BY DEF NewContext
  <2>3. NewContext \in Contexts(OwnTools, DeferredTools)
    BY <2>1 DEF NewContext, Contexts
  <2> QED BY <2>2, <2>3, ToolsAssumption DEF Owns, OwnTools
<1>4. refs \in Seq(OwnTools)
  BY <1>2, RefsIn
<1>5. ToSet(refs) \subseteq OwnTools
  BY <1>4 DEF ToSet
<1> HIDE DEF refs
<1>6. /\ tools' \in Contexts(OwnTools, DeferredTools) /\ Owns(tools', OwnTools)
      /\ ToSet(refs) \subseteq ToSet(tools'.active)
  <2> DEFINE t == PromoteTools(NewContext, refs)
  <2>1. /\ t \in Contexts(OwnTools, DeferredTools) /\ Owns(t, OwnTools)
        /\ ToSet(refs) \cap OwnTools \subseteq ToSet(t.active)
    BY <1>3, <1>4, PromotesThem
  <2> HIDE DEF t
  <2>2. tools' = t
    BY <1>1 DEF t
  <2> QED BY <1>5, <2>1, <2>2
<1>7. working' \in Seq(MessagesOf(Told(ShortOf(tools'.active))))
  <2>1. Told({}) \subseteq Told(ShortOf(tools'.active))
    BY ToldMore
  <2> QED BY <1>1, <1>2, <2>1, MessagesMore
<1>8. Talk'
  BY <1>1, <1>2, <1>6, <1>7, ShownNone DEF Talk
<1>9. Offer'
  BY <1>1, <1>6 DEF Offer, refs
<1> QED BY <1>8, <1>9 DEF SearchInv

-----------------------------------------------------------------------------
(* The rounds of a search                                                  *)

(* A search finds deferred tools (search.go Search).                       *)
LEMMA SearchIn ==
  ASSUME NEW query \in Queries, NEW deferred
  PROVE  Search(query, deferred) \in Seq(deferred)
<1> DEFINE found == Only(query.names, deferred)
           max == IF query.maxResults = 0 THEN DefaultMaxResults ELSE query.maxResults
<1>1. found \in Seq(deferred)
  <2>1. query.names \in Seq(ToSet(query.names))
    BY QueriesAssumption
  <2>2. found \in Seq(ToSet(query.names) \cap deferred)
    BY <2>1, OnlyIn
  <2>3. ToSet(query.names) \cap deferred \subseteq deferred
    OBVIOUS
  <2> HIDE DEF found
  <2> QED BY <2>2, <2>3, SeqMore
<1>2. max \in Nat
  BY QueriesAssumption DEF DefaultMaxResults
<1>3. Search(query, deferred) = found \/
        (Len(found) > max /\ Search(query, deferred) = SubSeq(found, 1, max))
  <2>1. CASE query.select \/ Len(found) <= max
    BY <2>1 DEF Search
  <2>2. CASE ~(query.select \/ Len(found) <= max)
    <3>1. Search(query, deferred) = SubSeq(found, 1, max)
      BY <2>2 DEF Search
    <3>2. Len(found) > max
      <4> HIDE DEF found, max
      <4> QED BY <1>1, <1>2, <2>2
    <3> QED BY <3>1, <3>2
  <2> QED BY <2>1, <2>2
<1> HIDE DEF found, max
<1>4. ASSUME Len(found) > max PROVE SubSeq(found, 1, max) \in Seq(deferred)
  BY <1>1, <1>2, <1>4, SubSeqProperties
<1> QED BY <1>1, <1>3, <1>4

(* The blocks of a search name tools of the request only.                  *)
LEMMA ServerBlocks ==
  ASSUME NEW id \in Nat, NEW found \in Seq(OwnTools)
  PROVE  /\ ShownOK(<<ServerToolUse(id), SearchResult(id, found)>>)
         /\ \A W : Block("server_tool_use", id, KiroToolSearchName, <<>>, <<>>) \in BlocksOf(W)
<1>1. "server_tool_use" \in BlockTypes
  BY DEF BlockTypes, Textless
<1>2. "tool_search_tool_result" \in BlockTypes
  BY DEF BlockTypes, Textless
<1>3. SearchToolName \in Names /\ KiroToolSearchName \in Names
  BY DEF Names
<1>4. "" \in Names
  BY DEF Names
<1>5. <<>> \in Seq(OwnTools) /\ \A W : <<>> \in Seq(W)
  OBVIOUS
<1>6. \A W : Block("server_tool_use", id, KiroToolSearchName, <<>>, <<>>) \in BlocksOf(W)
  BY <1>1, <1>3, <1>5 DEF Block, BlocksOf
<1> DEFINE a == ServerToolUse(id)
           b == SearchResult(id, found)
<1>7. a \in BlocksOf(Told({})) /\ a.type # "tool_use"
  BY <1>1, <1>3, <1>5 DEF ServerToolUse, Block, BlocksOf
<1>8. b \in BlocksOf(Told({})) /\ b.type # "tool_use"
  BY <1>2, <1>4, <1>5 DEF SearchResult, Block, BlocksOf
<1> HIDE DEF a, b
<1>9. <<a, b>> \in Seq(BlocksOf(Told({})))
  <2> HIDE DEF BlocksOf
  <2> QED BY <1>7, <1>8
<1>10. \A n \in DOMAIN <<a, b>> : <<a, b>>[n].type # "tool_use"
  <2>1. ASSUME NEW n \in DOMAIN <<a, b>>
        PROVE  <<a, b>>[n] = a \/ <<a, b>>[n] = b
    OBVIOUS
  <2> QED BY <1>7, <1>8, <2>1
<1>11. ShownOK(<<a, b>>)
  BY <1>9, <1>10 DEF ShownOK
<1> QED BY <1>6, <1>11 DEF a, b

(* A name told of a tool found is the short one (Found).                   *)
LEMMA FoundIn ==
  ASSUME NEW names, NEW found \in Seq(OwnTools), \A n \in DOMAIN found : Shorten(found[n]) \in names
  PROVE  Found(found) \in Seq(Told(names))
<1>1. ASSUME NEW n \in DOMAIN found
      PROVE  Word("found", Shorten(found[n])) \in Told(names)
  <2>1. found[n] \in OwnTools
    OBVIOUS
  <2>2. Shorten(found[n]) \in Whose
    BY <2>1 DEF Whose
  <2>3. "found" \in WordKinds
    BY DEF WordKinds
  <2> QED BY <2>2, <2>3, WordIn
<1>2. DOMAIN found = 1 .. Len(found) /\ Len(found) \in Nat
  OBVIOUS
<1> DEFINE F(n) == Word("found", Shorten(found[n]))
<1>3. Found(found) = [n \in 1 .. Len(found) |-> F(n)] /\ \A n \in 1 .. Len(found) : F(n) \in Told(names)
  BY <1>1, <1>2 DEF Found
<1> HIDE DEF F
<1> QED BY <1>2, <1>3

(* The round is put behind the messages (appendSearchMessages).            *)
LEMMA AppendedIn ==
  ASSUME NEW names, NEW id \in Nat, working \in Seq(MessagesOf(Told(names))),
         NEW found \in Seq(OwnTools), \A n \in DOMAIN found : Shorten(found[n]) \in names
  PROVE  AppendSearchMessages(id, found) \in Seq(MessagesOf(Told(names)))
<1> DEFINE W == Told(names)
           M == MessagesOf(W)
           text == <<Word("result", id)>> \o Found(found)
           use == Block("server_tool_use", id, KiroToolSearchName, <<>>, <<>>)
           a == Message("assistant", <<use>>)
           b == Message("user", <<ToolResult(id, text, <<>>)>>)
<1>1. text \in Seq(W)
  <2>1. "result" \in WordKinds /\ "result" # "found"
    BY DEF WordKinds
  <2>2. id \in Whose
    BY DEF Whose
  <2>3. Word("result", id) \in W
    BY <2>1, <2>2, WordIn
  <2>4. <<Word("result", id)>> \in Seq(W)
    BY <2>3, OneIn
  <2>5. Found(found) \in Seq(W)
    BY FoundIn
  <2> QED BY <2>4, <2>5, ConcatProperties
<1>2. a \in M
  <2>1. use \in BlocksOf(W)
    BY ServerBlocks
  <2> HIDE DEF use
  <2>2. <<use>> \in Seq(BlocksOf(W)) /\ "assistant" \in Roles
    BY <2>1, OneIn DEF Roles
  <2> QED BY <2>2 DEF Message, MessagesOf
<1>3. b \in M
  <2> HIDE DEF text
  <2>0. <<>> \in Seq(OwnTools)
    OBVIOUS
  <2>1. ToolResult(id, text, <<>>) \in BlocksOf(W)
    BY <1>1, <2>0, ToolResultIn
  <2>2. <<ToolResult(id, text, <<>>)>> \in Seq(BlocksOf(W)) /\ "user" \in Roles
    BY <2>1, OneIn DEF Roles
  <2> QED BY <2>2 DEF Message, MessagesOf
<1>4. AppendSearchMessages(id, found) = working \o <<a, b>>
  BY DEF AppendSearchMessages
<1>5. working \in Seq(M)
  OBVIOUS
<1> HIDE DEF a, b, M
<1>6. <<a, b>> \in Seq(M)
  BY <1>2, <1>3
<1>7. working \o <<a, b>> \in Seq(M)
  BY <1>5, <1>6, ConcatProperties
<1> QED BY <1>4, <1>7 DEF M

(* The model searches: what it is told is what becomes active.             *)
LEMMA SearchedInv ==
  ASSUME SearchInv, Searched
  PROVE  SearchInv'
<1>1. PICK content \in Contents, tail \in {<<>>, Tail1}, after \in {<<>>, Tail1}, query \in Queries :
        SearchedFor(content, tail, after, query)
  BY DEF Searched
<1>2. Talk /\ made \in Nat /\ stage = "calling" /\ made' = made + 3 /\ messages' = messages /\ options' = options
  BY DEF SearchInv, Talk, Searched
<1>3. made' \in Nat /\ made + 2 \in Nat
  BY <1>2
<1>4. /\ ~options.openAI /\ messages # <<>> /\ working # <<>> /\ Owns(tools, OwnTools)
      /\ ToSet(ExtractToolReferences(messages)) \subseteq ToSet(tools.active)
  BY <1>2 DEF SearchInv, Offer
<1> DEFINE found == IF query.valid THEN Search(query, tools.deferred) ELSE <<>>
           search == <<ServerToolUse(made + 2), SearchResult(made + 2, found)>>
           middle == IF options.stream THEN <<>> ELSE tail \o after
           s == shown \o content \o middle \o search
<1>5. found \in Seq(tools.deferred)
  <2>1. <<>> \in Seq(tools.deferred)
    OBVIOUS
  <2> QED BY <2>1, SearchIn
<1>6. tools.deferred \subseteq OwnTools /\ tools \in Contexts(OwnTools, DeferredTools)
  BY <1>2 DEF Talk, Contexts, OwnTools
<1>7. found \in Seq(OwnTools)
  <2> HIDE DEF found
  <2> QED BY <1>5, <1>6, SeqMore
<1>8. ShownOK(search)
  <2> HIDE DEF found
  <2> QED BY <1>3, <1>7, ServerBlocks
<1>9. ShownOK(middle)
  <2>1. ShownOK(tail) /\ ShownOK(after)
    BY <1>2, TailShown
  <2>2. ShownOK(tail \o after)
    BY <2>1, ShownBoth
  <2> QED BY <2>2, ShownNone
<1>10. ShownOK(s)
  <2> HIDE DEF middle, search
  <2>1. ShownOK(shown \o content)
    BY <1>2, TalkContent
  <2>2. ShownOK(shown \o content \o middle)
    BY <1>9, <2>1, ShownBoth
  <2> QED BY <1>8, <2>2, ShownBoth
<1>11. CASE round = MaxToolSearchRounds
  <2> DEFINE t == IF options.stream THEN s \o tail ELSE s
  <2>1. Finish(t, options.stream)
    BY <1>1, <1>11 DEF SearchedFor
  <2>2. ShownOK(t)
    <3> HIDE DEF s
    <3>1. ShownOK(tail)
      BY <1>2, TailShown
    <3> QED BY <1>10, <3>1, ShownBoth
  <2> HIDE DEF t
  <2> QED BY <1>2, <1>3, <2>1, <2>2, AnsweredInv
<1>12. CASE round # MaxToolSearchRounds
  <2>1. /\ working' = AppendSearchMessages(made + 2, found)
        /\ tools' = PromoteTools(tools, found)
        /\ shown' = s
    BY <1>1, <1>12 DEF SearchedFor
  <2> HIDE DEF found, s
  <2>2. ToSet(found) \subseteq OwnTools
    BY <1>7 DEF ToSet
  <2> DEFINE t == PromoteTools(tools, found)
  <2>3. /\ t \in Contexts(OwnTools, DeferredTools)
        /\ Owns(t, OwnTools)
        /\ ToSet(tools.active) \subseteq ToSet(t.active)
        /\ ToSet(found) \cap OwnTools \subseteq ToSet(t.active)
    BY <1>4, <1>6, <1>7, PromotesThem
  <2>4. tools' = t
    BY <2>1
  <2> HIDE DEF t
  <2> DEFINE names == ShortOf(t.active)
  <2>5. \A n \in DOMAIN found : Shorten(found[n]) \in names
    <3>1. \A n \in DOMAIN found : found[n] \in ToSet(found)
      BY DEF ToSet
    <3> QED BY <2>2, <2>3, <3>1 DEF ShortOf
  <2>6. working \in Seq(MessagesOf(Told(names)))
    <3>1. ShortOf(tools.active) \subseteq names
      BY <2>3 DEF ShortOf
    <3>2. Told(ShortOf(tools.active)) \subseteq Told(names)
      <4> HIDE DEF names
      <4> QED BY <3>1, ToldMore
    <3>3. working \in Seq(MessagesOf(Told(ShortOf(tools.active))))
      BY <1>2 DEF Talk
    <3> QED BY <3>2, <3>3, MessagesMore
  <2>7. working' \in Seq(MessagesOf(Told(names)))
    <3> HIDE DEF names
    <3> QED BY <1>3, <1>7, <2>1, <2>5, <2>6, AppendedIn
  <2>8. working' # <<>>
    <3> DEFINE M == MessagesOf(Told(ShortOf(tools.active)))
               a == Message("assistant", <<Block("server_tool_use", made + 2, KiroToolSearchName, <<>>, <<>>)>>)
               b == Message("user", <<ToolResult(made + 2, <<Word("result", made + 2)>> \o Found(found), <<>>)>>)
    <3>1. working \in Seq(M)
      BY <1>2 DEF Talk
    <3>2. working' = working \o <<a, b>>
      BY <2>1 DEF AppendSearchMessages
    <3> HIDE DEF M, a, b
    <3>3. <<a, b>> \in Seq({a, b}) /\ Len(<<a, b>>) = 2
      OBVIOUS
    <3>4. working \in Seq(M \cup {a, b}) /\ <<a, b>> \in Seq(M \cup {a, b})
      BY <3>1, <3>3, SeqMore
    <3>5. Len(working \o <<a, b>>) = Len(working) + Len(<<a, b>>) /\ Len(working) \in Nat
      BY <3>4, ConcatProperties
    <3>6. Len(working') # 0
      BY <3>2, <3>3, <3>5
    <3>7. Len(<<>>) = 0
      OBVIOUS
    <3> QED BY <3>6, <3>7
  <2>9. Talk'
    BY <1>2, <1>3, <1>10, <2>1, <2>3, <2>4, <2>7 DEF Talk
  <2>10. Offer'
    BY <1>2, <1>4, <2>3, <2>4, <2>8 DEF Offer
  <2> QED BY <2>9, <2>10 DEF SearchInv
<1> QED BY <1>11, <1>12

(* The model answers.                                                      *)
LEMMA RepliedInv ==
  ASSUME SearchInv, Replied
  PROVE  SearchInv'
<1>1. PICK content \in Contents, tail \in {<<>>, Tail1} :
         LET all == content \o tail
             p == promoted \/ IsVisible(content)
         IN \/ IF EmptyVisibleEndTurn(all, p) THEN RetryEmpty(shown)
                 ELSE Finish(shown \o all, p \/ IsVisible(tail))
            \/ Finish(shown \o all, p \/ IsVisible(tail))
  BY DEF Replied
<1> DEFINE all == content \o tail
           p == promoted \/ IsVisible(content)
           q == p \/ IsVisible(tail)
           s == shown \o all
<1>2. RetryEmpty(shown) \/ Finish(s, q)
  BY <1>1
<1>3. Talk /\ made \in Nat /\ stage = "calling" /\ made' = made + 2 /\ messages' = messages /\ options' = options
  BY DEF SearchInv, Talk, Replied
<1>4. made' \in Nat
  BY <1>3
<1>5. ShownOK(s)
  <2>1. ShownOK(content) /\ ShownOK(tail)
    BY <1>3, TalkContent, TailShown
  <2>2. ShownOK(all)
    BY <2>1, ShownBoth
  <2> HIDE DEF all
  <2> QED BY <1>3, <2>2, ShownBoth DEF Talk
<1> HIDE DEF s, q
<1>6. CASE Finish(s, q)
  BY <1>3, <1>4, <1>5, <1>6, AnsweredInv
<1>7. CASE RetryEmpty(shown)
  <2>1. CASE run = 1
    <3>1. working' = messages /\ shown' = <<>> /\ UNCHANGED <<stage, tools>>
      BY <1>7, <2>1 DEF RetryEmpty
    <3>2. Told({}) \subseteq Told(ShortOf(tools.active))
      BY ToldMore
    <3>3. messages \in Seq(MessagesOf(Told(ShortOf(tools.active))))
      BY <1>3, <3>2, MessagesMore DEF Talk
    <3>4. Talk'
      BY <1>3, <1>4, <3>1, <3>3, ShownNone DEF Talk
    <3>5. Offer'
      BY <1>3, <3>1 DEF SearchInv, Offer
    <3> QED BY <3>4, <3>5 DEF SearchInv
  <2>2. CASE run # 1
    <3>1. Over("json", <<>>, promoted)
      BY <1>7, <2>2 DEF RetryEmpty
    <3> QED BY <1>3, <1>4, <3>1, ShownNone, OverInv
  <2> QED BY <2>1, <2>2
<1> QED BY <1>2, <1>6, <1>7

(* The call or its stream fails, or the search cannot be read.             *)
LEMMA BrokenInv ==
  ASSUME SearchInv, CallFails \/ Broken \/ SearchedBadly
  PROVE  SearchInv'
<1>1. Talk /\ made \in Nat
  BY DEF SearchInv, Talk
<1>2. CASE CallFails
  <2>1. StreamingOrJSONError(shown, promoted) /\ messages' = messages /\ made' = made
    BY <1>2 DEF CallFails
  <2> QED BY <1>1, <2>1, AnsweredInv DEF Talk
<1>3. CASE Broken
  <2>1. PICK content \in Contents :
           LET s == shown \o content
               p == promoted \/ IsVisible(content)
           IN StreamingOrJSONError(s, p) \/ (p /\ Over("open", s, p))
    BY <1>3 DEF Broken
  <2>2. made' = made + 1 /\ messages' = messages
    BY <1>3 DEF Broken
  <2> DEFINE s == shown \o content
             p == promoted \/ IsVisible(content)
  <2>3. StreamingOrJSONError(s, p) \/ Over("open", s, p)
    BY <2>1
  <2>4. ShownOK(s)
    BY <1>1, TalkContent
  <2>5. made' \in Nat
    BY <1>1, <2>2
  <2> HIDE DEF s, p
  <2> QED BY <1>1, <2>2, <2>3, <2>4, <2>5, AnsweredInv, OverInv
<1>4. CASE SearchedBadly
  <2>1. PICK content \in Contents : StreamingOrJSONError(shown \o content, promoted \/ IsVisible(content))
    BY <1>4 DEF SearchedBadly
  <2>2. made' = made + 1 /\ messages' = messages
    BY <1>4 DEF SearchedBadly
  <2>3. ShownOK(shown \o content)
    BY <1>1, TalkContent
  <2>4. made' \in Nat
    BY <1>1, <2>2
  <2> QED BY <1>1, <2>1, <2>2, <2>3, <2>4, AnsweredInv
<1> QED BY <1>2, <1>3, <1>4

(* The client reads the answer and may go on.                              *)
LEMMA ReadInv ==
  ASSUME SearchInv, Read
  PROVE  SearchInv'
<1>1. /\ made' = made /\ stage' = "composing" /\ working' = <<>> /\ shown' = <<>>
      /\ tools' = [active |-> <<>>, deferred |-> {}]
      /\ messages' = Append(messages, Message("assistant", shown)) \/ messages' = messages
  BY DEF Read
<1>2. made \in Nat /\ messages \in Seq(MessagesOf(Told({}))) /\ ShownOK(shown)
  BY DEF SearchInv, Talk
<1>3. messages' \in Seq(MessagesOf(Told({})))
  <2> DEFINE M == MessagesOf(Told({}))
             m == Message("assistant", shown)
  <2>1. m \in M /\ messages \in Seq(M)
    BY <1>2, ShownMessage
  <2>2. messages' = Append(messages, m) \/ messages' = messages
    BY <1>1
  <2> HIDE DEF M, m
  <2>3. messages' \in Seq(M)
    BY <2>1, <2>2, AppendProperties
  <2> QED BY <2>3 DEF M
<1>4. tools' \in Contexts(OwnTools, DeferredTools)
  BY <1>1 DEF Contexts
<1>5. working' \in Seq(MessagesOf(Told(ShortOf(tools'.active))))
  BY <1>1
<1>6. Talk'
  BY <1>1, <1>2, <1>3, <1>4, <1>5, ShownNone DEF Talk
<1>7. stage' # "calling"
  BY <1>1
<1> QED BY <1>6, <1>7 DEF SearchInv, Offer

(* A chat is composed, or nothing happens.                                 *)
LEMMA StillInv ==
  ASSUME SearchInv, ComposeChat \/ UNCHANGED vars
  PROVE  SearchInv'
<1>0. Talk /\ made \in Nat
  BY DEF SearchInv, Talk
<1>1. CASE ComposeChat
  <2>1. UNCHANGED <<options, messages, stage, request>>
    BY <1>1 DEF ComposeChat
  <2>2. UNCHANGED <<options, messages, stage, working, tools, shown>>
    BY <2>1 DEF request
  <2>3. PICK n \in 0 .. 2 : made' = made + n + 1
    BY <1>1 DEF ComposeChat
  <2>4. made' \in Nat
    BY <1>0, <2>3
  <2>5. Talk'
    BY <1>0, <2>2, <2>4 DEF Talk
  <2>6. Offer'
    BY <2>2 DEF SearchInv, Offer
  <2> QED BY <2>5, <2>6 DEF SearchInv
<1>2. CASE UNCHANGED vars
  <2>1. UNCHANGED <<options, messages, stage, working, tools, shown, made>>
    BY <1>2 DEF vars, request
  <2> QED BY <2>1 DEF SearchInv, Talk, Offer
<1> QED BY <1>1, <1>2

(* Every step keeps the invariant.                                         *)
LEMMA SearchStep ==
  ASSUME SearchInv, [Next]_vars
  PROVE  SearchInv'
BY ComposeInv, SendInv, SearchedInv, RepliedInv, BrokenInv, ReadInv, StillInv DEF Next

(* The client is shown calls of its own tools only, by the names it gave   *)
(* them (tool_name_map.go Restore).                                        *)
THEOREM ShowsOwnNames == Spec => []OwnNames
<1>1. Init => SearchInv
  BY SearchInit
<1>2. SearchInv /\ [Next]_vars => SearchInv'
  BY SearchStep
<1>3. SearchInv => OwnNames
  BY DEF SearchInv, Talk, ShownOK, OwnNames
<1> QED BY <1>1, <1>2, <1>3, PTL DEF Spec

(* Tools offered are offered once, under their short names (ConvertTools). *)
LEMMA OfferedOnce ==
  ASSUME NEW active \in Seq(OwnTools), IsInjective(active)
  PROVE  /\ IsInjective(ConvertTools(active) \o <<KiroToolSearchName>>)
         /\ ShortOf(active) \subseteq ToSet(ConvertTools(active) \o <<KiroToolSearchName>>)
<1> DEFINE N == {Shorten(name) : name \in OwnTools} \cup {KiroToolSearchName}
           c == ConvertTools(active)
           o == Len(active)
           t == c \o <<KiroToolSearchName>>
<1>1. o \in Nat /\ DOMAIN active = 1 .. o /\ \A n \in 1 .. o : active[n] \in OwnTools
  OBVIOUS
<1>2. c = [n \in 1 .. o |-> Shorten(active[n])]
  BY <1>1 DEF ConvertTools
<1>3. c \in Seq(N) /\ Len(c) = o /\ \A n \in 1 .. o : c[n] = Shorten(active[n])
  <2> DEFINE F(n) == Shorten(active[n])
  <2>1. \A n \in 1 .. o : F(n) \in N
    BY <1>1
  <2>2. c = [n \in 1 .. o |-> F(n)]
    BY <1>2
  <2> HIDE DEF F, N, o, c
  <2>3. c \in Seq(N) /\ Len(c) = o /\ \A n \in 1 .. o : c[n] = F(n)
    BY <1>1, <2>1, <2>2
  <2> QED BY <2>3 DEF F
<1>4. <<KiroToolSearchName>> \in Seq(N) /\ Len(<<KiroToolSearchName>>) = 1
      /\ <<KiroToolSearchName>>[1] = KiroToolSearchName
  <2>1. KiroToolSearchName \in N
    OBVIOUS
  <2> HIDE DEF N
  <2> QED BY <2>1
<1> DEFINE k == KiroToolSearchName
           ks == <<k>>
<1> HIDE DEF N, c, o
<1>5. /\ DOMAIN t = 1 .. o + 1 /\ \A n \in 1 .. o : t[n] = c[n]
      /\ t[o + 1] = k
  <2>1. ks \in Seq(N) /\ Len(ks) = 1 /\ ks[1] = k
    BY <1>4
  <2>2. t = c \o ks
    OBVIOUS
  <2> HIDE DEF ks, k, t
  <2>0. c \in Seq(N) /\ ks \in Seq(N)
    BY <1>3, <2>1
  <2>3. Len(t) = o + 1 /\ t \in Seq(N)
    <3>1. c \o ks \in Seq(N)
      BY <2>0, ConcatProperties
    <3>2. Len(c \o ks) = Len(c) + Len(ks)
      BY <2>0, ConcatProperties
    <3> QED BY <1>3, <2>1, <2>2, <3>1, <3>2
  <2>4. ASSUME NEW n \in 1 .. o PROVE t[n] = c[n]
    <3>1. n \in 1 .. Len(c) + Len(ks) /\ n <= Len(c)
      BY <1>1, <1>3, <2>1
    <3>2. c \in Seq(N) /\ ks \in Seq(N)
      BY <1>3, <2>1
    <3> QED BY <2>2, <3>1, <3>2, ConcatProperties
  <2>5. t[o + 1] = k
    <3> DEFINE j == o + 1
    <3>2. j \in 1 .. Len(c) + Len(ks) /\ ~(j <= Len(c)) /\ j - Len(c) = 1
      BY <1>1, <1>3, <2>1
    <3> HIDE DEF j
    <3>4. (c \o ks)[j] = IF j <= Len(c) THEN c[j] ELSE ks[j - Len(c)]
      BY <2>0, <3>2, ConcatProperties
    <3>3. (c \o ks)[o + 1] = ks[1]
      BY <3>2, <3>4 DEF j
    <3> QED BY <2>1, <2>2, <3>3
  <2> QED BY <1>1, <2>3, <2>4, <2>5
<1>6. /\ \A x, y \in OwnTools : Shorten(x) = Shorten(y) => x = y
      /\ \A x \in OwnTools : Shorten(x) # k
  <2>1. Shorten(k) = k /\ k \notin OwnTools
    BY ToolsAssumption DEF Shorten
  <2> QED BY <2>1, ToolsAssumption
<1> HIDE DEF t, k
<1>7. IsInjective(t)
  <2> SUFFICES ASSUME NEW i \in DOMAIN t, NEW j \in DOMAIN t, t[i] = t[j]
               PROVE  i = j
    BY DEF IsInjective
  <2>1. (i = o + 1 \/ i \in 1 .. o) /\ (j = o + 1 \/ j \in 1 .. o)
    BY <1>1, <1>5
  <2>2. \A n \in 1 .. o : t[n] = Shorten(active[n]) /\ t[n] # k
    BY <1>1, <1>3, <1>5, <1>6
  <2>3. CASE i \in 1 .. o /\ j \in 1 .. o
    <3>1. Shorten(active[i]) = Shorten(active[j])
      BY <2>2, <2>3
    <3>2. active[i] = active[j]
      BY <1>1, <1>6, <2>3, <3>1
    <3> QED BY <1>1, <2>3, <3>2 DEF IsInjective
  <2>4. CASE ~(i \in 1 .. o /\ j \in 1 .. o)
    BY <1>5, <2>1, <2>2, <2>4
  <2> QED BY <2>3, <2>4
<1>8. ASSUME NEW x \in ShortOf(active)
      PROVE  x \in ToSet(t)
  <2>1. PICK n \in 1 .. o : x = Shorten(active[n])
    BY <1>1 DEF ShortOf, ToSet
  <2>2. n \in DOMAIN t /\ t[n] = x
    BY <1>1, <1>3, <1>5, <2>1
  <2> QED BY <2>2 DEF ToSet
<1> QED BY <1>7, <1>8 DEF t, c, k

(* Whatever a model has been told it found, or a client's message refers   *)
(* to, is on offer under the name told, and no tool is offered twice       *)
(* (toolsearch.go appendSearchMessages, buildPayload).                     *)
THEOREM OffersFoundTools == Spec => []FoundToolsOffered
<1>1. Init => SearchInv
  BY SearchInit
<1>2. SearchInv /\ [Next]_vars => SearchInv'
  BY SearchStep
<1>3. SearchInv => FoundToolsOffered
  <2> SUFFICES ASSUME SearchInv, stage = "calling"
               PROVE  /\ \A w \in ToSet(Words(Turns)) : w[1] = "found" => w[2] \in ToSet(Sent.tools)
                      /\ \A name \in ToSet(ExtractToolReferences(messages)) :
                            Shorten(name) \in ToSet(Sent.tools)
                      /\ IsInjective(Sent.tools)
    BY DEF FoundToolsOffered
  <2> DEFINE active == tools.active
             names == ShortOf(active)
             W == Told(names)
  <2>1. /\ ~options.openAI /\ working # <<>> /\ Owns(tools, OwnTools)
        /\ ToSet(ExtractToolReferences(messages)) \subseteq ToSet(active)
        /\ working \in Seq(MessagesOf(W)) /\ active \in Seq(OwnTools)
    BY DEF SearchInv, Talk, Offer, Contexts
  <2> DEFINE p == BuildPayload(SystemPrompt, working, active, <<KiroToolSearchName>>, TRUE)
  <2>2. Sent = p
    BY <2>1 DEF Sent, Payload
  <2> HIDE DEF active
  <2>3. Telling(W) /\ SystemPrompt \in Seq(W)
    <3> HIDE DEF names
    <3> QED BY ToldTelling
  <2> HIDE DEF W
  <2>4. /\ p.history \in Seq(EntriesOf(W)) /\ p.current \in EntriesOf(W)
        /\ p.tools = ConvertTools(active) \o <<KiroToolSearchName>>
    BY <2>1, <2>3, PayloadIn
  <2> HIDE DEF p
  <2>5. Words(Turns) \in Seq(W)
    <3>1. Turns \in Seq(EntriesOf(W))
      <4> HIDE DEF EntriesOf
      <4> QED BY <2>2, <2>4, AppendProperties DEF Turns
    <3> QED BY <3>1, WordsIn
  <2>6. IsInjective(Sent.tools) /\ names \subseteq ToSet(Sent.tools)
    BY <2>1, <2>2, <2>4, OfferedOnce DEF Owns, active
  <2>7. ASSUME NEW w \in ToSet(Words(Turns)), w[1] = "found"
        PROVE  w[2] \in ToSet(Sent.tools)
    <3>1. w \in W
      BY <2>5 DEF ToSet
    <3>2. w[2] \in names
      BY <2>7, <3>1 DEF W, Told
    <3> QED BY <2>6, <3>2
  <2>8. ASSUME NEW name \in ToSet(ExtractToolReferences(messages))
        PROVE  Shorten(name) \in ToSet(Sent.tools)
    <3>1. Shorten(name) \in names
      BY <2>1 DEF ShortOf
    <3> QED BY <2>6, <3>1
  <2> QED BY <2>6, <2>7, <2>8
<1> QED BY <1>1, <1>2, <1>3, PTL DEF Spec

-----------------------------------------------------------------------------
(* Orders and answers                                                      *)

(* Each element of r stands in ids, behind the one before it in r.          *)
InOrder(r, ids) ==
  \A n \in DOMAIN r : \E u \in DOMAIN ids :
      ids[u] = r[n] /\ (n > 1 => \E v \in 1 .. u - 1 : ids[v] = r[n - 1])

StandsIn(r, s, n) ==
  \A k \in 1 .. Len(r) : \E u \in 1 .. n :
      s[u] = r[k] /\ (k > 1 => \E v \in 1 .. u - 1 : s[v] = r[k - 1])

(* One more element kept stands behind the one before.                     *)
LEMMA StandsAppend ==
  ASSUME NEW X, NEW s \in Seq(X), NEW r \in Seq(X), NEW n \in Nat, n + 1 \in 1 .. Len(s),
         StandsIn(r, s, n)
  PROVE  StandsIn(Append(r, s[n + 1]), s, n + 1)
<1> DEFINE o == Len(r)
           t == Append(r, s[n + 1])
<1>1. s[n + 1] \in X
  OBVIOUS
<1>2. o \in Nat /\ Len(t) = o + 1 /\ t[o + 1] = s[n + 1] /\ \A k \in 1 .. o : t[k] = r[k]
  BY <1>1, AppendProperties
<1>3. \A k \in 1 .. o : \E u \in 1 .. n : s[u] = r[k] /\ (k > 1 => \E v \in 1 .. u - 1 : s[v] = r[k - 1])
  BY DEF StandsIn
<1> HIDE DEF o, t
<1> SUFFICES ASSUME NEW k \in 1 .. o + 1
             PROVE  \E u \in 1 .. n + 1 : s[u] = t[k] /\ (k > 1 => \E v \in 1 .. u - 1 : s[v] = t[k - 1])
  BY <1>2 DEF t, StandsIn
<1>4. CASE k \in 1 .. o
  <2>1. PICK u \in 1 .. n : s[u] = r[k] /\ (k > 1 => \E v \in 1 .. u - 1 : s[v] = r[k - 1])
    BY <1>3, <1>4
  <2>2. k > 1 => k - 1 \in 1 .. o
    BY <1>2, <1>4
  <2>3. u \in 1 .. n + 1
    OBVIOUS
  <2> QED BY <1>2, <1>4, <2>1, <2>2, <2>3
<1>5. CASE k = o + 1
  <2>1. n + 1 \in 1 .. n + 1 /\ s[n + 1] = t[k]
    BY <1>2, <1>5
  <2>2. ASSUME k > 1
        PROVE  \E v \in 1 .. (n + 1) - 1 : s[v] = t[k - 1]
    <3>1. k - 1 = o /\ o \in 1 .. o
      BY <1>2, <1>5, <2>2
    <3>2. PICK u \in 1 .. n : s[u] = r[o]
      BY <1>3, <3>1
    <3>3. (n + 1) - 1 = n
      OBVIOUS
    <3> QED BY <1>2, <3>1, <3>2, <3>3
  <2> QED BY <2>1, <2>2
<1> QED BY <1>2, <1>4, <1>5

(* What Only keeps stays in its order,                                     *)
LEMMA OnlyInOrder ==
  ASSUME NEW X, NEW s \in Seq(X), NEW T
  PROVE  InOrder(Only(s, T), s)
<1>1. PICK f : IsOnly(s, T, f)
  BY OnlySteps
<1> DEFINE o == Len(s)
           Fine(n) == f[n] \in Seq(X) /\ StandsIn(f[n], s, n)
           Good == {n \in Nat : n <= o => Fine(n)}
<1>2. /\ o \in Nat /\ \A n \in 1 .. o : s[n] \in X
      /\ f[0] = <<>> /\ Only(s, T) = f[o]
      /\ \A n \in 1 .. o : f[n] = IF s[n] \in T THEN Append(f[n - 1], s[n]) ELSE f[n - 1]
  BY <1>1 DEF IsOnly
<1> HIDE DEF o
<1>3. 0 \in Good
  <2>1. Fine(0)
    <3>1. <<>> \in Seq(X) /\ Len(<<>>) = 0
      OBVIOUS
    <3>2. StandsIn(<<>>, s, 0)
      BY <3>1 DEF StandsIn
    <3> QED BY <1>2, <3>1, <3>2
  <2> QED BY <2>1
<1>4. ASSUME NEW n \in Nat, n \in Good
      PROVE  n + 1 \in Good
  <2> SUFFICES ASSUME n + 1 <= o PROVE Fine(n + 1)
    OBVIOUS
  <2>1. n + 1 \in 1 .. o /\ (n + 1) - 1 = n /\ n <= o
    BY <1>2
  <2> DEFINE r == f[n]
  <2>2. r \in Seq(X) /\ StandsIn(r, s, n)
    BY <1>4, <2>1
  <2>3. f[n + 1] = IF s[n + 1] \in T THEN Append(r, s[n + 1]) ELSE r
    BY <1>2, <2>1
  <2>4. s[n + 1] \in X
    BY <1>2, <2>1
  <2> HIDE DEF r
  <2>5. StandsIn(r, s, n + 1)
    <3>1. \A u \in 1 .. n : u \in 1 .. n + 1
      OBVIOUS
    <3> QED BY <2>2, <3>1 DEF StandsIn
  <2> DEFINE t == Append(r, s[n + 1])
  <2>6. t \in Seq(X) /\ StandsIn(t, s, n + 1)
    <3>1. n + 1 \in 1 .. Len(s)
      BY <2>1 DEF o
    <3>2. t \in Seq(X)
      BY <2>2, <2>4, AppendProperties
    <3> QED BY <2>2, <3>1, <3>2, StandsAppend
  <2> HIDE DEF t
  <2>7. f[n + 1] = r \/ f[n + 1] = t
    BY <2>3 DEF t
  <2> QED BY <2>2, <2>5, <2>6, <2>7
<1>5. Nat \subseteq Good
  <2> HIDE DEF Good
  <2> QED BY <1>3, <1>4, Induction
<1>6. Fine(o)
  BY <1>2, <1>5
<1> DEFINE r == Only(s, T)
<1>7. r \in Seq(X) /\ StandsIn(r, s, o)
  BY <1>2, <1>6
<1> HIDE DEF r
<1>8. DOMAIN r = 1 .. Len(r) /\ DOMAIN s = 1 .. o
  BY <1>7 DEF o
<1> QED BY <1>7, <1>8 DEF InOrder, StandsIn, r

-----------------------------------------------------------------------------
(* What messages use and answer.                                            *)
UseIDsOf(m) == {b.id : b \in {x \in ToSet(m.blocks) : IsToolUse(x)}}
ResultIDs(m) == {b.id : b \in {x \in ToSet(m.blocks) : IsToolResult(x)}}

(* and is all there is of the set.                                         *)
LEMMA OnlyHas ==
  ASSUME NEW X, NEW s \in Seq(X), NEW T
  PROVE  ToSet(Only(s, T)) = ToSet(s) \cap T
<1>1. PICK f : IsOnly(s, T, f)
  BY OnlySteps
<1> DEFINE o == Len(s)
           Fine(n) == f[n] \in Seq(X) /\ ToSet(f[n]) = {s[k] : k \in 1 .. n} \cap T
           Good == {n \in Nat : n <= o => Fine(n)}
<1>2. /\ o \in Nat /\ \A n \in 1 .. o : s[n] \in X
      /\ f[0] = <<>> /\ Only(s, T) = f[o]
      /\ \A n \in 1 .. o : f[n] = IF s[n] \in T THEN Append(f[n - 1], s[n]) ELSE f[n - 1]
  BY <1>1 DEF IsOnly
<1>3. ToSet(s) = {s[k] : k \in 1 .. o}
  BY DEF ToSet
<1> HIDE DEF o
<1>4. 0 \in Good
  <2>1. Fine(0)
    <3>1. <<>> \in Seq(X) /\ ToSet(<<>>) = {}
      BY DEF ToSet
    <3>2. {s[k] : k \in 1 .. 0} = {}
      OBVIOUS
    <3> QED BY <1>2, <3>1, <3>2
  <2> QED BY <2>1
<1>5. ASSUME NEW n \in Nat, n \in Good
      PROVE  n + 1 \in Good
  <2> SUFFICES ASSUME n + 1 <= o PROVE Fine(n + 1)
    OBVIOUS
  <2>1. n + 1 \in 1 .. o /\ (n + 1) - 1 = n /\ n <= o
    BY <1>2
  <2> DEFINE r == f[n]
             P(m) == {s[k] : k \in 1 .. m}
             x == s[n + 1]
  <2>2. r \in Seq(X) /\ ToSet(r) = P(n) \cap T
    BY <1>5, <2>1
  <2>3. f[n + 1] = IF x \in T THEN Append(r, x) ELSE r
    BY <1>2, <2>1
  <2>4. x \in X
    BY <1>2, <2>1
  <2>5. P(n + 1) = P(n) \cup {x}
    <3>1. \A k \in 1 .. n + 1 : k = n + 1 \/ k \in 1 .. n
      OBVIOUS
    <3>2. n + 1 \in 1 .. n + 1 /\ \A k \in 1 .. n : k \in 1 .. n + 1
      OBVIOUS
    <3> QED BY <3>1, <3>2
  <2>6. ToSet(Append(r, x)) = ToSet(r) \cup {x} /\ Append(r, x) \in Seq(X)
    <3> HIDE DEF r, x
    <3> DEFINE t == Append(r, x)
               l == Len(r)
    <3>1. l \in Nat /\ t \in Seq(X) /\ Len(t) = l + 1 /\ t[l + 1] = x /\ \A k \in 1 .. l : t[k] = r[k]
      BY <2>2, <2>4, AppendProperties
    <3>2. DOMAIN t = 1 .. l + 1 /\ DOMAIN r = 1 .. l
      BY <2>2, <3>1
    <3> HIDE DEF t, l
    <3>3. ToSet(t) = {t[k] : k \in 1 .. l + 1} /\ ToSet(r) = {r[k] : k \in 1 .. l}
      BY <3>2 DEF ToSet
    <3>4. (\A k \in 1 .. l + 1 : k = l + 1 \/ k \in 1 .. l) /\ l + 1 \in 1 .. l + 1
          /\ \A k \in 1 .. l : k \in 1 .. l + 1
      BY <3>1
    <3>5. ToSet(t) = ToSet(r) \cup {x}
      BY <3>1, <3>3, <3>4
    <3> QED BY <3>1, <3>5 DEF t
  <2> HIDE DEF r, P, x
  <2>7. f[n + 1] \in Seq(X) /\ ToSet(f[n + 1]) = P(n + 1) \cap T
    BY <2>2, <2>3, <2>5, <2>6
  <2> QED BY <2>7 DEF P
<1>6. Nat \subseteq Good
  <2> HIDE DEF Good
  <2> QED BY <1>4, <1>5, Induction
<1>7. Fine(o)
  BY <1>2, <1>6
<1> QED BY <1>2, <1>3, <1>7

(* The results stand in the order of the uses they answer.                  *)
Answers(r, ids) ==
  \A n \in DOMAIN r : \E u \in DOMAIN ids :
      ids[u] = r[n].id /\ (n > 1 => \E v \in 1 .. u - 1 : ids[v] = r[n - 1].id)

(* Results in the order of the uses stand in that order                    *)
(* (ReorderToolResults).                                                   *)
LEMMA ReorderAnswers ==
  ASSUME NEW W, NEW results \in Seq(ResultsFrom(W)), NEW ids \in Seq(Nat),
         \A n \in DOMAIN results : results[n].id \in ToSet(ids)
  PROVE  Answers(ReorderToolResults(results, ids), ids)
<1> DEFINE LastOf(id) == results[CHOOSE n \in DOMAIN results :
              results[n].id = id /\ \A k \in DOMAIN results : results[k].id = id => k <= n]
           answered == Only(ids, ToSet(IDs(results)))
           front == [n \in DOMAIN answered |-> LastOf(answered[n])]
           B == {r \in ToSet(results) : r.id \notin ToSet(ids)}
           back == Only(results, B)
           X == ResultsFrom(W)
<1>0. results \in Seq(X) /\ Len(results) \in Nat /\ DOMAIN results = 1 .. Len(results)
  OBVIOUS
<1>1. CASE Len(results) <= 1 \/ ids = <<>>
  <2>1. ReorderToolResults(results, ids) = results
    BY <1>1 DEF ReorderToolResults
  <2>2. ASSUME NEW n \in DOMAIN results
        PROVE  n = 1 /\ \E u \in DOMAIN ids : ids[u] = results[n].id
    <3>1. PICK u \in DOMAIN ids : ids[u] = results[n].id
      BY DEF ToSet
    <3>2. ids # <<>>
      BY <3>1
    <3>3. n = 1
      BY <1>0, <1>1, <3>2
    <3> QED BY <3>1, <3>3
  <2>3. ~(1 > 1)
    OBVIOUS
  <2> HIDE DEF LastOf, X
  <2> QED BY <2>1, <2>2, <2>3 DEF Answers
<1>2. CASE ~(Len(results) <= 1 \/ ids = <<>>)
  <2>1. ReorderToolResults(results, ids) = front \o back
    BY <1>2 DEF ReorderToolResults
  <2>2. back = <<>>
    <3>1. B = {}
      BY DEF ToSet
    <3>2. Only(results, {}) \in Seq(X \cap {})
      BY <1>0, OnlyIn
    <3> HIDE DEF B, X
    <3>3. back \in Seq({})
      BY <3>1, <3>2
    <3> HIDE DEF back
    <3>4. back = <<>>
      <4>1. Len(back) \in Nat /\ \A n \in 1 .. Len(back) : back[n] \in {}
        BY <3>3
      <4>2. Len(back) = 0
        BY <4>1
      <4> QED BY <3>3, <4>2, EmptySeq
    <3> QED BY <3>4
  <2>3. answered \in Seq(Nat \cap ToSet(IDs(results)))
    BY OnlyIn
  <2>4. InOrder(answered, ids)
    BY OnlyInOrder
  <2>5. ASSUME NEW id \in ToSet(IDs(results))
        PROVE  LastOf(id).id = id /\ LastOf(id) \in X
    <3> DEFINE At == {n \in DOMAIN results : results[n].id = id}
               m == Max(At)
    <3>1. At # {} /\ At \subseteq 0 .. Len(results)
      BY <1>0 DEF ToSet, IDs
    <3>2. m \in At /\ \A k \in At : m >= k
      <4> HIDE DEF At
      <4> QED BY <1>0, <3>1, MaxOf
    <3> HIDE DEF m
    <3>3. m \in DOMAIN results /\ results[m].id = id
          /\ \A k \in DOMAIN results : results[k].id = id => k <= m
      BY <1>0, <3>2
    <3> DEFINE c == CHOOSE n \in DOMAIN results :
                      results[n].id = id /\ \A k \in DOMAIN results : results[k].id = id => k <= n
    <3>4. c \in DOMAIN results /\ results[c].id = id
      BY <3>3
    <3> HIDE DEF c, X
    <3>5. results[c] \in X
      BY <1>0, <3>4
    <3> QED BY <3>4, <3>5 DEF c
  <2> HIDE DEF answered, LastOf, X
  <2>6. DOMAIN answered = 1 .. Len(answered) /\ Len(answered) \in Nat
        /\ \A n \in DOMAIN answered : answered[n] \in ToSet(IDs(results))
    BY <2>3
  <2>7. front \in Seq(X) /\ DOMAIN front = DOMAIN answered /\ \A n \in DOMAIN answered : front[n].id = answered[n]
    BY <2>5, <2>6
  <2> HIDE DEF front, back
  <2>8. front \o back = front
    BY <2>2, <2>7, ConcatEmptySeq
  <2>9. ASSUME NEW n \in DOMAIN front
        PROVE  \E u \in DOMAIN ids :
                 ids[u] = front[n].id /\ (n > 1 => \E v \in 1 .. u - 1 : ids[v] = front[n - 1].id)
    <3>1. PICK u \in DOMAIN ids :
            ids[u] = answered[n] /\ (n > 1 => \E v \in 1 .. u - 1 : ids[v] = answered[n - 1])
      BY <2>4, <2>7 DEF InOrder
    <3>2. n > 1 => n - 1 \in DOMAIN answered
      BY <2>6, <2>7
    <3> QED BY <2>7, <3>1, <3>2
  <2> QED BY <2>1, <2>8, <2>9 DEF Answers
<1> QED BY <1>1, <1>2

(* The uses and the results of a message are all it has.                   *)
LEMMA OfHas ==
  ASSUME NEW W, NEW m \in MessagesOf(W)
  PROVE  /\ ToSet(Of(m.blocks, IsToolUse)) = {b \in ToSet(m.blocks) : IsToolUse(b)}
         /\ ToSet(Of(m.blocks, IsToolResult)) = {b \in ToSet(m.blocks) : IsToolResult(b)}
<1> DEFINE bs == m.blocks
           U == {b \in ToSet(bs) : IsToolUse(b)}
           R == {b \in ToSet(bs) : IsToolResult(b)}
<1>1. bs \in Seq(BlocksOf(W))
  BY DEF MessagesOf
<1>2. Of(bs, IsToolUse) = Only(bs, U) /\ Of(bs, IsToolResult) = Only(bs, R)
  BY DEF Of
<1>3. U \subseteq ToSet(bs) /\ R \subseteq ToSet(bs)
  OBVIOUS
<1> HIDE DEF bs, U, R
<1>4. ToSet(Only(bs, U)) = ToSet(bs) \cap U /\ ToSet(Only(bs, R)) = ToSet(bs) \cap R
  BY <1>1, OnlyHas
<1>5. ToSet(Of(bs, IsToolUse)) = U /\ ToSet(Of(bs, IsToolResult)) = R
  BY <1>2, <1>3, <1>4
<1> QED BY <1>5 DEF bs, U, R

(* The results scanned are the message's (scanCurrentMessage).             *)
LEMMA ScanIDs ==
  ASSUME NEW W, Telling(W), NEW m \in MessagesOf(W)
  PROVE  \A n \in DOMAIN ScanMessage(m) : ScanMessage(m)[n].id \in ResultIDs(m)
<1> DEFINE rs == Of(m.blocks, IsToolResult)
           T(b) == IF ResultText(b) = <<>> THEN <<Word("synthetic", "(empty result)")>> ELSE ResultText(b)
<1>1. ScanMessage(m) = [n \in DOMAIN rs |-> [id |-> rs[n].id, text |-> T(rs[n])]]
  BY DEF ScanMessage
<1>2. ToSet(rs) = {b \in ToSet(m.blocks) : IsToolResult(b)}
  BY OfHas
<1>3. \A n \in DOMAIN rs : rs[n] \in ToSet(rs)
  BY DEF ToSet
<1> HIDE DEF rs, T
<1>4. \A n \in DOMAIN rs : rs[n].id \in ResultIDs(m)
  BY <1>2, <1>3 DEF ResultIDs
<1> QED BY <1>1, <1>4

(* The ids the results are ordered by are those of the message before      *)
(* (extractToolUseIDs).                                                    *)
LEMMA IDsBeforeHas ==
  ASSUME NEW W, NEW msgs \in Seq(MessagesOf(W)), NEW i \in 1 .. Len(msgs), i > 1
  PROVE  ToSet(IDsBefore(msgs, i)) = UseIDsOf(msgs[i - 1])
<1> DEFINE m == msgs[i - 1]
           us == Of(m.blocks, IsToolUse)
<1>1. m \in MessagesOf(W)
  <2>1. i - 1 \in 1 .. Len(msgs)
    OBVIOUS
  <2> QED BY <2>1
<1>2. IDsBefore(msgs, i) = [n \in DOMAIN us |-> us[n].id]
  BY DEF IDsBefore, IDs
<1> HIDE DEF m
<1>3. ToSet(us) = {b \in ToSet(m.blocks) : IsToolUse(b)}
  BY <1>1, OfHas
<1> HIDE DEF us
<1>4. ToSet(IDsBefore(msgs, i)) = {us[n].id : n \in DOMAIN us}
  BY <1>2 DEF ToSet
<1>5. ToSet(us) = {us[n] : n \in DOMAIN us}
  BY DEF ToSet
<1>6. ToSet(IDsBefore(msgs, i)) = {b.id : b \in ToSet(us)}
  BY <1>4, <1>5
<1> QED BY <1>3, <1>6 DEF UseIDsOf, m

(* The results of a message are its own, in whatever order.                *)
LEMMA TurnAmong ==
  ASSUME NEW E, NEW W, Telling(W), NEW msgs \in Seq(MessagesOf(W)), NEW i \in 1 .. Len(msgs),
         ResultIDs(msgs[i]) \subseteq E,
         NEW n \in DOMAIN ResultsOf(msgs[i], IDsBefore(msgs, i))
  PROVE  ResultsOf(msgs[i], IDsBefore(msgs, i))[n].id \in E
<1> DEFINE m == msgs[i]
           ids == IDsBefore(msgs, i)
           rs == ScanMessage(m)
           all == ReorderToolResults(rs, ids)
           X == {r \in ResultsFrom(W) : r.id \in E}
<1>1. m \in MessagesOf(W) /\ ids \in Seq(Nat)
  BY IDsBeforeIn
<1>2. rs \in Seq(ResultsFrom(W)) /\ \A k \in DOMAIN rs : rs[k].id \in E
  BY <1>1, ScanMessageIn, ScanIDs
<1> HIDE DEF rs, ids
<1>3. rs \in Seq(X)
  <2> DEFINE R == ResultsFrom(W)
  <2>1. Len(rs) \in Nat /\ rs = [k \in 1 .. Len(rs) |-> rs[k]] /\ \A k \in 1 .. Len(rs) : rs[k] \in R /\ rs[k].id \in E
    <3> HIDE DEF R
    <3>1. rs \in Seq(R)
      BY <1>2 DEF R
    <3> QED BY <1>2, <3>1
  <2>2. \A k \in 1 .. Len(rs) : rs[k] \in X
    BY <2>1
  <2> HIDE DEF X
  <2> QED BY <2>1, <2>2
<1> HIDE DEF X
<1>4. all \in Seq(X)
  BY <1>1, <1>3, ReorderIn
<1>5. ResultsOf(m, ids) = all
  BY DEF ResultsOf, rs
<1> HIDE DEF all
<1>6. \A k \in DOMAIN all : all[k] \in X
  BY <1>4
<1>7. all[n] \in X
  BY <1>5, <1>6 DEF m, ids
<1> QED BY <1>5, <1>7 DEF X, m, ids

(* A turn's results answer the uses of the turn before, in their order.    *)
LEMMA TurnAnswers ==
  ASSUME NEW W, Telling(W), NEW msgs \in Seq(MessagesOf(W)), NEW i \in 1 .. Len(msgs),
         ResultIDs(msgs[i]) # {} => i > 1 /\ ResultIDs(msgs[i]) \subseteq UseIDsOf(msgs[i - 1])
  PROVE  Answers(ResultsOf(msgs[i], IDsBefore(msgs, i)), IDsBefore(msgs, i))
<1> DEFINE m == msgs[i]
           ids == IDsBefore(msgs, i)
           rs == ScanMessage(m)
<1>1. m \in MessagesOf(W)
  OBVIOUS
<1>2. rs \in Seq(ResultsFrom(W))
  BY <1>1, ScanMessageIn
<1>3. ids \in Seq(Nat)
  BY IDsBeforeIn
<1>4. ASSUME NEW n \in DOMAIN rs
      PROVE  rs[n].id \in ToSet(ids)
  <2>1. rs[n].id \in ResultIDs(m)
    BY <1>1, ScanIDs
  <2>2. i > 1 /\ rs[n].id \in UseIDsOf(msgs[i - 1])
    BY <2>1
  <2> QED BY <2>2, IDsBeforeHas
<1> HIDE DEF m, ids, rs
<1>5. Answers(ReorderToolResults(rs, ids), ids)
  BY <1>2, <1>3, <1>4, ReorderAnswers
<1> QED BY <1>5 DEF ResultsOf, m, ids, rs

-----------------------------------------------------------------------------
(* Results behind their uses                                               *)

(* A message's results follow the assistant's message they answer, but for  *)
(* those of a set.                                                          *)
Follows(m, before, E) ==
  m.role # "assistant" /\ ~(ResultIDs(m) \subseteq E) =>
    before # <<>> /\ Last(before).role = "assistant" /\ ResultIDs(m) \subseteq UseIDsOf(Last(before))
Tidy(s, E) ==
  \A i \in 1 .. Len(s) :
    s[i].role # "assistant" /\ ~(ResultIDs(s[i]) \subseteq E) =>
      i > 1 /\ s[i - 1].role = "assistant" /\ ResultIDs(s[i]) \subseteq UseIDsOf(s[i - 1])
TwoRoles(s) == \A i \in 1 .. Len(s) : s[i].role \in {"user", "assistant"}

(* A string holds no results; those of a developer's messages are in a set. *)
Proper(m) == m.isString => ResultIDs(m) = {}
Excepted(s, E) == \A i \in DOMAIN s : s[i].role = "developer" => ResultIDs(s[i]) \subseteq E

(* Messages without a block that is a result have none,                    *)
LEMMA NoResults ==
  ASSUME NEW m, \A b \in ToSet(m.blocks) : ~IsToolResult(b)
  PROVE  ResultIDs(m) = {}
BY DEF ResultIDs

(* those of text have neither results nor uses,                            *)
LEMMA PlainHasNone ==
  ASSUME NEW m, IsPlainTextContent(m)
  PROVE  ResultIDs(m) = {} /\ UseIDsOf(m) = {}
<1>1. \A b \in ToSet(m.blocks) : b.type = "text"
  BY DEF IsPlainTextContent, ToSet
<1>2. \A b : b.type = "text" => ~IsToolResult(b) /\ ~IsToolUse(b)
  BY DEF IsToolResult, IsToolUse
<1> QED BY <1>1, <1>2 DEF ResultIDs, UseIDsOf

(* and strings are such.                                                   *)
LEMMA StringIsPlain ==
  ASSUME NEW role, NEW text
  PROVE  IsPlainTextContent(StringMessage(role, text)) /\ StringMessage(role, text).role = role
<1>1. TextBlock(text).type = "text"
  BY DEF TextBlock, Block
<1> DEFINE b == TextBlock(text)
<1> HIDE DEF b
<1>2. \A n \in DOMAIN <<b>> : <<b>>[n] = b
  OBVIOUS
<1> QED BY <1>1, <1>2 DEF StringMessage, IsPlainTextContent, b

(* A message whose results follow their uses can be put behind others,     *)
LEMMA TidyAppend ==
  ASSUME NEW E, NEW S, NEW out \in Seq(S), NEW m \in S, Tidy(out, E), Follows(m, out, E)
  PROVE  Tidy(Append(out, m), E)
<1> DEFINE o == Len(out)
           t == Append(out, m)
<1>1. o \in Nat /\ Len(t) = o + 1 /\ t[o + 1] = m /\ \A k \in 1 .. o : t[k] = out[k]
  BY AppendProperties
<1>2. out # <<>> => o # 0 /\ Last(out) = out[o]
  BY EmptySeq DEF Last
<1>3. \A i \in 1 .. o :
        out[i].role # "assistant" /\ ~(ResultIDs(out[i]) \subseteq E) =>
          i > 1 /\ out[i - 1].role = "assistant" /\ ResultIDs(out[i]) \subseteq UseIDsOf(out[i - 1])
  BY DEF Tidy
<1> HIDE DEF o, t
<1> SUFFICES ASSUME NEW i \in 1 .. o + 1, t[i].role # "assistant", ~(ResultIDs(t[i]) \subseteq E)
             PROVE  i > 1 /\ t[i - 1].role = "assistant" /\ ResultIDs(t[i]) \subseteq UseIDsOf(t[i - 1])
  BY <1>1 DEF Tidy, t
<1>4. CASE i \in 1 .. o
  <2>1. t[i] = out[i]
    BY <1>1, <1>4
  <2>2. i > 1 /\ out[i - 1].role = "assistant" /\ ResultIDs(out[i]) \subseteq UseIDsOf(out[i - 1])
    BY <1>3, <1>4, <2>1
  <2>3. i - 1 \in 1 .. o
    BY <1>1, <1>4, <2>2
  <2> QED BY <1>1, <2>1, <2>2, <2>3
<1>5. CASE i = o + 1
  <2>1. t[i] = m
    BY <1>1, <1>5
  <2>2. out # <<>> /\ Last(out).role = "assistant" /\ ResultIDs(m) \subseteq UseIDsOf(Last(out))
    BY <2>1 DEF Follows
  <2>3. i - 1 = o /\ o \in 1 .. o /\ i > 1
    BY <1>1, <1>2, <1>5, <2>2
  <2>4. t[i - 1] = Last(out)
    BY <1>1, <1>2, <2>2, <2>3
  <2> QED BY <2>1, <2>2, <2>3, <2>4
<1> QED BY <1>1, <1>4, <1>5

(* one of the user's or the assistant's too,                               *)
LEMMA TwoRolesAppend ==
  ASSUME NEW S, NEW out \in Seq(S), NEW m \in S, TwoRoles(out), m.role \in {"user", "assistant"}
  PROVE  TwoRoles(Append(out, m))
<1> DEFINE o == Len(out)
           t == Append(out, m)
<1>1. o \in Nat /\ Len(t) = o + 1 /\ t[o + 1] = m /\ \A k \in 1 .. o : t[k] = out[k]
  BY AppendProperties
<1>2. \A k \in 1 .. o + 1 : k = o + 1 \/ k \in 1 .. o
  BY <1>1
<1>3. \A k \in 1 .. o : out[k].role \in {"user", "assistant"}
  BY DEF TwoRoles
<1> HIDE DEF o, t
<1>4. \A k \in 1 .. o + 1 : t[k].role \in {"user", "assistant"}
  BY <1>1, <1>2, <1>3
<1> QED BY <1>1, <1>4 DEF TwoRoles, t

(* and the last taken off.                                                 *)
LEMMA TidyFront ==
  ASSUME NEW E, NEW S, NEW out \in Seq(S), out # <<>>, Tidy(out, E), TwoRoles(out)
  PROVE  Tidy(Front(out), E) /\ TwoRoles(Front(out))
<1> DEFINE o == Len(out)
           t == Front(out)
<1>1. o \in Nat /\ o # 0
  BY EmptySeq
<1>2. o - 1 \in Nat /\ 1 \in 1 .. o + 1 /\ o - 1 \in 0 .. o
  BY <1>1
<1>3. t = SubSeq(out, 1, o - 1)
  BY DEF Front
<1>4. Len(t) = o - 1 /\ \A k \in 1 .. o - 1 : t[k] = out[k]
  <2>1. Len(SubSeq(out, 1, o - 1)) = IF 1 <= o - 1 THEN (o - 1) - 1 + 1 ELSE 0
    <3> HIDE DEF o
    <3> QED BY <1>2, SubSeqProperties DEF o
  <2>3. Len(t) = o - 1
    <3> HIDE DEF t, o
    <3> QED BY <1>1, <1>2, <1>3, <2>1
  <2>2. ASSUME NEW k \in 1 .. o - 1
        PROVE  t[k] = out[k]
    BY <1>1, <1>2, <1>3
  <2> QED BY <2>3, <2>2
<1>5. \A i \in 1 .. o : out[i].role \in {"user", "assistant"} /\
        (out[i].role # "assistant" /\ ~(ResultIDs(out[i]) \subseteq E) =>
          i > 1 /\ out[i - 1].role = "assistant" /\ ResultIDs(out[i]) \subseteq UseIDsOf(out[i - 1]))
  BY DEF Tidy, TwoRoles
<1> HIDE DEF o, t
<1>6. \A i \in 1 .. o - 1 : i \in 1 .. o /\ (i > 1 => i - 1 \in 1 .. o - 1)
  BY <1>1, <1>2
<1> QED BY <1>4, <1>5, <1>6 DEF Tidy, TwoRoles, t

-----------------------------------------------------------------------------
(* Textualizing what is not answered.                                       *)
(* Results that do not follow their uses become text                       *)
(* (textualizeOrphanToolResults).                                          *)
LEMMA OrphansTidy ==
  ASSUME NEW E, NEW W, Telling(W), NEW msgs \in Seq(MessagesOf(W)), \A i \in DOMAIN msgs : Proper(msgs[i]),
         Excepted(msgs, E)
  PROVE  Tidy(TextualizeOrphanToolResults(msgs), E)
<1> DEFINE New(i) == IF msgs[i].role # "user" THEN msgs[i]
                     ELSE MapBlocks(msgs[i], LAMBDA b :
                       IF IsToolResult(b) /\ b.id \notin UsesBefore(msgs, i) THEN Textualized(b) ELSE b)
           t == TextualizeOrphanToolResults(msgs)
<1>1. t = [i \in DOMAIN msgs |-> New(i)]
  BY DEF TextualizeOrphanToolResults
<1>2. DOMAIN msgs = 1 .. Len(msgs) /\ Len(msgs) \in Nat /\ \A i \in 1 .. Len(msgs) : msgs[i] \in MessagesOf(W)
  OBVIOUS
<1>3. Len(t) = Len(msgs) /\ \A i \in 1 .. Len(msgs) : t[i] = New(i)
  <2> HIDE DEF New
  <2> QED BY <1>1, <1>2, OrphansIn
<1>4. ASSUME NEW i \in 1 .. Len(msgs), msgs[i].role = "assistant"
      PROVE  New(i) = msgs[i]
  BY <1>4
<1>5. ASSUME NEW i \in 1 .. Len(msgs)
      PROVE  New(i).role = msgs[i].role
  <2> DEFINE m == msgs[i]
             F(b) == IF IsToolResult(b) /\ b.id \notin UsesBefore(msgs, i) THEN Textualized(b) ELSE b
             cs == [n \in DOMAIN m.blocks |-> F(m.blocks[n])]
  <2>1. New(i) = m \/ New(i) = [m EXCEPT !.blocks = cs]
    BY DEF MapBlocks
  <2>2. m \in MessagesOf(W)
    BY <1>2
  <2> HIDE DEF m, cs, New
  <2> QED BY <2>1, <2>2 DEF MessagesOf, m
<1>6. ASSUME NEW i \in 1 .. Len(msgs), msgs[i].role # "assistant", ~(ResultIDs(New(i)) \subseteq E)
      PROVE  /\ i > 1 /\ msgs[i - 1].role = "assistant"
             /\ ResultIDs(New(i)) \subseteq UseIDsOf(msgs[i - 1])
  <2> DEFINE m == msgs[i]
             B == UsesBefore(msgs, i)
             F(b) == IF IsToolResult(b) /\ b.id \notin B THEN Textualized(b) ELSE b
             bs == m.blocks
             cs == [n \in DOMAIN bs |-> F(bs[n])]
  <2>1. m \in MessagesOf(W) /\ Proper(m)
    BY <1>2
  <2>2. m.role = "user" \/ m.role = "developer"
    BY <1>6, <2>1 DEF MessagesOf, Roles
  <2>3. CASE m.role = "developer" \/ m.isString
    <3>1. New(i) = m
      BY <2>3 DEF MapBlocks
    <3>2. m.role = "developer" => ResultIDs(m) \subseteq E
      BY <1>2 DEF Excepted
    <3>3. m.isString => ResultIDs(m) = {}
      BY <2>1 DEF Proper
    <3> QED BY <1>6, <2>3, <3>1, <3>2, <3>3
  <2>4. CASE m.role = "user" /\ ~m.isString
    <3>1. New(i) = [m EXCEPT !.blocks = cs]
      BY <2>4 DEF MapBlocks
    <3> DEFINE new == New(i)
    <3> HIDE DEF new, m, B, New
    <3>2. new.blocks = cs
      BY <2>1, <3>1 DEF MessagesOf, new
    <3>3. \A b : IsToolResult(F(b)) => F(b).id \in B
      <4>1. \A b : IsToolResult(b) => ~IsToolResult(Textualized(b))
        BY DEF IsToolResult, Textualized, IsToolUse, TextBlock, Block
      <4> QED BY <4>1
    <3> HIDE DEF F
    <3>4. \A b \in ToSet(cs) : IsToolResult(b) => b.id \in B
      BY <3>3 DEF ToSet
    <3> HIDE DEF cs
    <3>5. ResultIDs(new) \subseteq B
      BY <3>2, <3>4 DEF ResultIDs
    <3>6. B # {}
      BY <1>6, <3>5 DEF new
    <3>7. i > 1 /\ msgs[i - 1].role = "assistant"
          /\ B = {b.id : b \in ToSet(Of(msgs[i - 1].blocks, IsToolUse))}
      BY <3>6 DEF B, UsesBefore
    <3>8. msgs[i - 1] \in MessagesOf(W)
      <4>1. i - 1 \in 1 .. Len(msgs)
        BY <3>7
      <4> QED BY <1>2, <4>1
    <3>9. B = UseIDsOf(msgs[i - 1])
      BY <3>7, <3>8, OfHas DEF UseIDsOf
    <3> QED BY <3>5, <3>7, <3>9 DEF new
  <2> QED BY <2>2, <2>3, <2>4
<1> HIDE DEF New, t
<1> SUFFICES ASSUME NEW i \in 1 .. Len(msgs), t[i].role # "assistant", ~(ResultIDs(t[i]) \subseteq E)
             PROVE  i > 1 /\ t[i - 1].role = "assistant" /\ ResultIDs(t[i]) \subseteq UseIDsOf(t[i - 1])
  BY <1>3 DEF Tidy, t
<1>7. t[i] = New(i) /\ msgs[i].role # "assistant"
  BY <1>3, <1>5
<1>8. i > 1 /\ msgs[i - 1].role = "assistant" /\ ResultIDs(t[i]) \subseteq UseIDsOf(msgs[i - 1])
  BY <1>6, <1>7
<1>9. t[i - 1] = msgs[i - 1]
  <2>1. i - 1 \in 1 .. Len(msgs)
    BY <1>8
  <2> QED BY <1>3, <1>4, <1>8, <2>1
<1> QED BY <1>8, <1>9

(* Without results all is well:                                            *)
LEMMA NoneTidy ==
  ASSUME NEW E, NEW s, \A i \in 1 .. Len(s) : ResultIDs(s[i]) = {}
  PROVE  Tidy(s, E)
BY DEF Tidy

(* a message turned into text has none, and                                *)
LEMMA TextualizedHasNone ==
  ASSUME NEW W, Telling(W), NEW m \in MessagesOf(W), m.isString => ResultIDs(m) = {}
  PROVE  ResultIDs(MapBlocks(m, Textualized)) = {}
<1>1. CASE m.isString
  BY <1>1 DEF MapBlocks
<1>2. CASE ~m.isString
  <2> DEFINE bs == m.blocks
             cs == [n \in DOMAIN bs |-> Textualized(bs[n])]
             new == [m EXCEPT !.blocks = cs]
  <2>1. MapBlocks(m, Textualized) = new
    BY <1>2 DEF MapBlocks
  <2>2. \A b : ~IsToolResult(Textualized(b))
    BY DEF IsToolResult, Textualized, IsToolUse, TextBlock, Block
  <2>3. \A b \in ToSet(cs) : ~IsToolResult(b)
    BY <2>2 DEF ToSet
  <2> HIDE DEF cs
  <2>4. new.blocks = cs
    BY DEF MessagesOf
  <2> HIDE DEF new
  <2>5. ResultIDs(new) = {}
    BY <2>3, <2>4, NoResults
  <2> QED BY <2>1, <2>5
<1> QED BY <1>1, <1>2

(* so it is without tools (textualizeAllToolContent).                      *)
LEMMA AllTidy ==
  ASSUME NEW E, NEW W, Telling(W), NEW msgs \in Seq(MessagesOf(W)), \A i \in DOMAIN msgs : Proper(msgs[i])
  PROVE  /\ TextualizeAllToolContent(msgs) \in Seq(MessagesOf(W))
         /\ Len(TextualizeAllToolContent(msgs)) = Len(msgs)
         /\ Tidy(TextualizeAllToolContent(msgs), E)
<1> DEFINE M == MessagesOf(W)
           F(i) == MapBlocks(msgs[i], Textualized)
           t == [i \in DOMAIN msgs |-> F(i)]
<1>1. TextualizeAllToolContent(msgs) = t
  BY DEF TextualizeAllToolContent
<1>2. DOMAIN msgs = 1 .. Len(msgs) /\ Len(msgs) \in Nat /\ \A i \in 1 .. Len(msgs) : msgs[i] \in M
  OBVIOUS
<1>3. ASSUME NEW m \in M
      PROVE  MapBlocks(m, Textualized) \in M
  <2> DEFINE bs == m.blocks
             cs == [n \in DOMAIN bs |-> Textualized(bs[n])]
  <2>1. bs \in Seq(BlocksOf(W))
    BY DEF MessagesOf
  <2>2. \A n \in DOMAIN bs : bs[n] \in BlocksOf(W)
    BY <2>1
  <2> HIDE DEF bs
  <2>3. \A n \in DOMAIN bs : Textualized(bs[n]) \in BlocksOf(W)
    BY <2>2, TextualizedIn
  <2>4. cs \in Seq(BlocksOf(W))
    <3> DEFINE G(n) == Textualized(bs[n])
               Bs == BlocksOf(W)
    <3>1. DOMAIN bs = 1 .. Len(bs) /\ Len(bs) \in Nat
      BY <2>1
    <3>2. cs = [n \in 1 .. Len(bs) |-> G(n)] /\ \A n \in 1 .. Len(bs) : G(n) \in Bs
      BY <2>3, <3>1
    <3> HIDE DEF G, cs, Bs
    <3>3. cs \in Seq(Bs)
      BY <3>1, <3>2
    <3> QED BY <3>3 DEF Bs
  <2>5. MapBlocks(m, Textualized) = m \/ MapBlocks(m, Textualized) = [m EXCEPT !.blocks = cs]
    BY DEF MapBlocks, bs
  <2> HIDE DEF cs
  <2>6. [m EXCEPT !.blocks = cs] \in M
    BY <2>4 DEF MessagesOf
  <2> QED BY <2>5, <2>6
<1>4. \A i \in 1 .. Len(msgs) : F(i) \in M /\ ResultIDs(F(i)) = {}
  <2> SUFFICES ASSUME NEW i \in 1 .. Len(msgs) PROVE F(i) \in M /\ ResultIDs(F(i)) = {}
    OBVIOUS
  <2>1. msgs[i] \in M /\ Proper(msgs[i])
    BY <1>2
  <2>2. msgs[i].isString => ResultIDs(msgs[i]) = {}
    BY <2>1 DEF Proper
  <2> QED BY <1>3, <2>1, <2>2, TextualizedHasNone
<1> HIDE DEF M, F
<1>5. t \in Seq(M) /\ Len(t) = Len(msgs) /\ \A i \in 1 .. Len(msgs) : t[i] = F(i)
  BY <1>2, <1>4
<1> HIDE DEF t
<1>6. \A i \in 1 .. Len(t) : ResultIDs(t[i]) = {}
  BY <1>4, <1>5
<1>7. Tidy(t, E)
  BY <1>6, NoneTidy
<1> QED BY <1>1, <1>5, <1>7 DEF M

(* "developer" is "user" (normalizeRoles).                                 *)
LEMMA RolesTidy ==
  ASSUME NEW E, NEW W, NEW msgs \in Seq(MessagesOf(W)), Tidy(msgs, E)
  PROVE  Tidy(NormalizeRoles(msgs), E) /\ TwoRoles(NormalizeRoles(msgs))
<1> DEFINE new(m) == [m EXCEPT !.role = IF @ \in {"user", "assistant"} THEN @ ELSE "user"]
           t == NormalizeRoles(msgs)
<1>1. t = [i \in DOMAIN msgs |-> new(msgs[i])]
  BY DEF NormalizeRoles
<1>2. DOMAIN msgs = 1 .. Len(msgs) /\ Len(msgs) \in Nat /\ \A i \in 1 .. Len(msgs) : msgs[i] \in MessagesOf(W)
  OBVIOUS
<1>3. Len(t) = Len(msgs)
  BY RolesIn
<1>4. ASSUME NEW m \in MessagesOf(W)
      PROVE  /\ new(m).blocks = m.blocks /\ new(m).role \in {"user", "assistant"}
             /\ new(m).role = "assistant" <=> m.role = "assistant"
  BY DEF MessagesOf
<1> HIDE DEF new
<1>5. \A i \in 1 .. Len(msgs) : t[i] = new(msgs[i])
  BY <1>1, <1>2
<1> HIDE DEF t
<1>6. ASSUME NEW i \in 1 .. Len(msgs)
      PROVE  /\ t[i].role \in {"user", "assistant"} /\ (t[i].role = "assistant" <=> msgs[i].role = "assistant")
             /\ ResultIDs(t[i]) = ResultIDs(msgs[i]) /\ UseIDsOf(t[i]) = UseIDsOf(msgs[i])
  <2>1. msgs[i] \in MessagesOf(W) /\ t[i] = new(msgs[i])
    BY <1>2, <1>5
  <2>2. t[i].blocks = msgs[i].blocks
    BY <1>4, <2>1
  <2>3. ResultIDs(t[i]) = ResultIDs(msgs[i]) /\ UseIDsOf(t[i]) = UseIDsOf(msgs[i])
    BY <2>2 DEF ResultIDs, UseIDsOf
  <2> QED BY <1>4, <2>1, <2>3
<1>7. TwoRoles(t)
  BY <1>3, <1>6 DEF TwoRoles
<1>8. Tidy(t, E)
  <2> SUFFICES ASSUME NEW i \in 1 .. Len(msgs), t[i].role # "assistant", ~(ResultIDs(t[i]) \subseteq E)
               PROVE  i > 1 /\ t[i - 1].role = "assistant" /\ ResultIDs(t[i]) \subseteq UseIDsOf(t[i - 1])
    BY <1>3 DEF Tidy
  <2>1. msgs[i].role # "assistant" /\ ~(ResultIDs(msgs[i]) \subseteq E)
    BY <1>6
  <2>2. i > 1 /\ msgs[i - 1].role = "assistant" /\ ResultIDs(msgs[i]) \subseteq UseIDsOf(msgs[i - 1])
    BY <2>1 DEF Tidy
  <2>3. i - 1 \in 1 .. Len(msgs)
    BY <1>2, <2>2
  <2> QED BY <1>6, <2>2, <2>3
<1> QED BY <1>7, <1>8 DEF t

-----------------------------------------------------------------------------
(* Merging plain messages.                                                  *)

(* The last message is the present one, or one of text, as that was.        *)
EndsAs(out, m) ==
  out # <<>> /\ Last(out).role = m.role /\ (Last(out) = m \/ UseIDsOf(m) = {})

(* One step of mergeAdjacentSameRole parts no result from its use: only    *)
(* text is merged, and the uses stay in the last message.                  *)
LEMMA MergedTidy ==
  ASSUME NEW E, NEW W, Telling(W), NEW out \in Seq(MessagesOf(W)), NEW m \in MessagesOf(W),
         Tidy(out, E), TwoRoles(out), Follows(m, out, E), m.role \in {"user", "assistant"}
  PROVE  Tidy(Merged(out, m), E) /\ TwoRoles(Merged(out, m)) /\ EndsAs(Merged(out, m), m)
<1> DEFINE M == MessagesOf(W)
           text == ExtractTextContent(Last(out)) \o ExtractTextContent(m)
           one == StringMessage(m.role, text)
<1>1. ASSUME NEW a \in Seq(M), NEW x \in M
      PROVE  Append(a, x) # <<>> /\ Last(Append(a, x)) = x
  <2> HIDE DEF M
  <2>1. Len(Append(a, x)) = Len(a) + 1 /\ Append(a, x)[Len(a) + 1] = x /\ Len(a) \in Nat
    BY AppendProperties
  <2>2. Append(a, x) # <<>>
    <3>1. Len(<<>>) = 0
      OBVIOUS
    <3> QED BY <2>1, <3>1
  <2> QED BY <2>1, <2>2 DEF Last
<1>2. CASE out # <<>> /\ Mergeable(Last(out), m)
  <2>1. Merged(out, m) = Append(Front(out), one)
    BY <1>2 DEF Merged
  <2>2. Last(out) \in M /\ Front(out) \in Seq(M)
    BY <1>2, LastIn
  <2>3. text \in Seq(W)
    <3>1. ExtractTextContent(Last(out)) \in Seq(W) /\ ExtractTextContent(m) \in Seq(W)
      BY <2>2, ExtractTextContentIn
    <3> QED BY <3>1, ConcatProperties
  <2> HIDE DEF text
  <2>4. one \in M
    BY <2>3, StringMessageIn DEF Roles
  <2>5. Tidy(Front(out), E) /\ TwoRoles(Front(out))
    BY <1>2, TidyFront
  <2>6. one.role = m.role /\ ResultIDs(one) = {}
    BY StringIsPlain, PlainHasNone
  <2>7. UseIDsOf(m) = {}
    BY <1>2, PlainHasNone DEF Mergeable
  <2> HIDE DEF one, M
  <2>8. Follows(one, Front(out), E)
    BY <2>6 DEF Follows
  <2>9. Tidy(Append(Front(out), one), E) /\ TwoRoles(Append(Front(out), one))
    BY <2>2, <2>4, <2>5, <2>6, <2>8, TidyAppend, TwoRolesAppend
  <2> QED BY <1>1, <2>1, <2>2, <2>4, <2>6, <2>7, <2>9 DEF EndsAs
<1>3. CASE ~(out # <<>> /\ Mergeable(Last(out), m))
  <2>1. Merged(out, m) = Append(out, m)
    BY <1>3 DEF Merged
  <2> HIDE DEF M
  <2>2. out \in Seq(M) /\ m \in M
    BY DEF M
  <2>3. Tidy(Append(out, m), E) /\ TwoRoles(Append(out, m))
    BY <2>2, TidyAppend, TwoRolesAppend
  <2> QED BY <1>1, <2>1, <2>2, <2>3 DEF EndsAs
<1> QED BY <1>2, <1>3

(* So no result loses its use in the whole of it (mergeAdjacentSameRole).  *)
LEMMA MergeTidy ==
  ASSUME NEW E, NEW W, Telling(W), NEW s \in Seq(MessagesOf(W)), Tidy(s, E), TwoRoles(s)
  PROVE  Tidy(MergeAdjacentSameRole(s), E) /\ TwoRoles(MergeAdjacentSameRole(s))
<1>1. PICK f : IsMerge(s, f)
  BY MergeSteps
<1> DEFINE M == MessagesOf(W)
           o == Len(s)
           Fine(n) == /\ f[n] \in Seq(M) /\ Tidy(f[n], E) /\ TwoRoles(f[n])
                      /\ n = 0 => f[n] = <<>>
                      /\ n > 0 => EndsAs(f[n], s[n])
           Good == {n \in Nat : n <= o => Fine(n)}
<1>2. /\ o \in Nat /\ \A n \in 1 .. o : s[n] \in M
      /\ f[0] = <<>> /\ MergeAdjacentSameRole(s) = f[o]
      /\ \A n \in 1 .. o : f[n] = Merged(f[n - 1], s[n])
  BY <1>1 DEF IsMerge
<1>3. \A n \in 1 .. o : /\ s[n].role \in {"user", "assistant"}
                        /\ s[n].role # "assistant" /\ ~(ResultIDs(s[n]) \subseteq E) =>
                             n > 1 /\ s[n - 1].role = "assistant" /\ ResultIDs(s[n]) \subseteq UseIDsOf(s[n - 1])
  BY DEF Tidy, TwoRoles
<1> HIDE DEF o
<1>4. 0 \in Good
  <2>1. <<>> \in Seq(M) /\ Len(<<>>) = 0
    OBVIOUS
  <2>2. Tidy(<<>>, E) /\ TwoRoles(<<>>)
    BY <2>1 DEF Tidy, TwoRoles
  <2> HIDE DEF M
  <2>3. Fine(0)
    BY <1>2, <2>1, <2>2
  <2> QED BY <2>3
<1>5. ASSUME NEW n \in Nat, n \in Good
      PROVE  n + 1 \in Good
  <2> SUFFICES ASSUME n + 1 <= o PROVE Fine(n + 1)
    OBVIOUS
  <2>1. n + 1 \in 1 .. o /\ (n + 1) - 1 = n /\ n <= o
    BY <1>2
  <2> DEFINE r == f[n]
             m == s[n + 1]
  <2>2. r \in Seq(M) /\ Tidy(r, E) /\ TwoRoles(r) /\ (n > 0 => EndsAs(r, s[n]))
    BY <1>5, <2>1
  <2>3. m \in M /\ m.role \in {"user", "assistant"}
        /\ (m.role # "assistant" /\ ~(ResultIDs(m) \subseteq E) =>
              n + 1 > 1 /\ s[n].role = "assistant" /\ ResultIDs(m) \subseteq UseIDsOf(s[n]))
    BY <1>2, <1>3, <2>1
  <2>4. f[n + 1] = Merged(r, m)
    BY <1>2, <2>1
  <2> HIDE DEF r, m
  <2>5. Follows(m, r, E)
    <3> SUFFICES ASSUME m.role # "assistant", ~(ResultIDs(m) \subseteq E)
                 PROVE  r # <<>> /\ Last(r).role = "assistant" /\ ResultIDs(m) \subseteq UseIDsOf(Last(r))
      BY DEF Follows
    <3>1. n > 0
      BY <2>3
    <3>2. r # <<>> /\ Last(r).role = s[n].role /\ (Last(r) = s[n] \/ UseIDsOf(s[n]) = {})
      BY <2>2, <3>1 DEF EndsAs
    <3>3. UseIDsOf(s[n]) # {}
      BY <2>3
    <3> QED BY <2>3, <3>2, <3>3
  <2> DEFINE t == Merged(r, m)
  <2>6. t \in Seq(M)
    BY <2>2, <2>3, MergedIn
  <2>7. Tidy(t, E) /\ TwoRoles(t) /\ EndsAs(t, m)
    BY <2>2, <2>3, <2>5, MergedTidy
  <2> HIDE DEF t, M
  <2>8. n + 1 # 0
    OBVIOUS
  <2> QED BY <2>4, <2>6, <2>7, <2>8 DEF t, m
<1>6. Nat \subseteq Good
  <2> HIDE DEF Good
  <2> QED BY <1>4, <1>5, Induction
<1>7. Fine(o)
  BY <1>2, <1>6
<1> QED BY <1>2, <1>7

-----------------------------------------------------------------------------
(* Roles in turn                                                           *)

(* The user begins, and the roles take turns.                               *)
InTurn(s) ==
  /\ TwoRoles(s)
  /\ Len(s) # 0 => s[1].role = "user"
  /\ \A i \in 2 .. Len(s) : s[i].role # s[i - 1].role

(* The other role's message can be put behind those in turn.               *)
LEMMA InTurnAppend ==
  ASSUME NEW S, NEW out \in Seq(S), NEW m \in S, InTurn(out), m.role \in {"user", "assistant"},
         out = <<>> => m.role = "user", out # <<>> => m.role # Last(out).role
  PROVE  InTurn(Append(out, m))
<1> DEFINE o == Len(out)
           t == Append(out, m)
<1>1. o \in Nat /\ Len(t) = o + 1 /\ t[o + 1] = m /\ \A k \in 1 .. o : t[k] = out[k]
  BY AppendProperties
<1>2. (out # <<>> => o # 0 /\ Last(out) = out[o]) /\ (o # 0 => out # <<>>)
  <2>1. Len(<<>>) = 0
    OBVIOUS
  <2> QED BY <2>1, EmptySeq DEF Last
<1>3. TwoRoles(t)
  BY TwoRolesAppend DEF InTurn
<1>4. (o # 0 => out[1].role = "user") /\ \A i \in 2 .. o : out[i].role # out[i - 1].role
  BY DEF InTurn
<1> HIDE DEF o, t
<1>5. t[1].role = "user"
  <2>1. CASE o = 0
    <3>1. out = <<>>
      BY <1>2, <2>1
    <3> QED BY <1>1, <2>1, <3>1
  <2>2. CASE o # 0
    <3>1. 1 \in 1 .. o
      BY <1>1, <2>2
    <3> QED BY <1>1, <1>4, <2>2, <3>1
  <2> QED BY <2>1, <2>2
<1>6. ASSUME NEW i \in 2 .. o + 1
      PROVE  t[i].role # t[i - 1].role
  <2>1. CASE i \in 2 .. o
    <3>1. i \in 1 .. o /\ i - 1 \in 1 .. o
      BY <1>1, <2>1
    <3> QED BY <1>1, <1>4, <2>1, <3>1
  <2>2. CASE i = o + 1
    <3>1. i - 1 = o /\ o \in 1 .. o /\ o # 0
      BY <1>1, <2>2
    <3>2. t[i] = m /\ t[i - 1] = Last(out) /\ out # <<>>
      BY <1>1, <1>2, <2>2, <3>1
    <3> QED BY <3>2
  <2> QED BY <1>1, <2>1, <2>2
<1> QED BY <1>1, <1>3, <1>5, <1>6 DEF InTurn, t

(* A filler for the user in front of the assistant's first                 *)
(* (ensureStartsWithUser) parts no result from its use,                    *)
LEMMA StartTidy ==
  ASSUME NEW E, NEW W, Telling(W), NEW s \in Seq(MessagesOf(W)), s # <<>>, Tidy(s, E), TwoRoles(s)
  PROVE  /\ Tidy(EnsureStartsWithUser(s), E) /\ TwoRoles(EnsureStartsWithUser(s))
         /\ EnsureStartsWithUser(s)[1].role = "user"
<1> DEFINE M == MessagesOf(W)
           e == SyntheticEmpty("user")
           t == <<e>> \o s
           o == Len(s)
<1>1. CASE s[1].role = "user"
  BY <1>1 DEF EnsureStartsWithUser
<1>2. CASE s[1].role # "user"
  <2>1. EnsureStartsWithUser(s) = t
    BY <1>2 DEF EnsureStartsWithUser
  <2>2. e.role = "user" /\ ResultIDs(e) = {}
    BY StringIsPlain, PlainHasNone DEF SyntheticEmpty
  <2> HIDE DEF e
  <2>3. <<e>> \in Seq(M \cup {e}) /\ s \in Seq(M \cup {e}) /\ Len(<<e>>) = 1 /\ <<e>>[1] = e
    <3> HIDE DEF M
    <3>1. s \in Seq(M)
      BY DEF M
    <3> QED BY <3>1
  <2>4. o \in Nat /\ Len(t) = 1 + o /\ t[1] = e /\ \A i \in 2 .. 1 + o : t[i] = s[i - 1]
    <3> HIDE DEF M
    <3>1. Len(t) = Len(<<e>>) + Len(s)
          /\ \A i \in 1 .. Len(<<e>>) + Len(s) : t[i] = IF i <= Len(<<e>>) THEN <<e>>[i] ELSE s[i - Len(<<e>>)]
      BY <2>3, ConcatProperties
    <3>2. o \in Nat
      BY <2>3
    <3> HIDE DEF o, t
    <3>3. Len(t) = 1 + o /\ \A i \in 1 .. 1 + o : t[i] = IF i <= 1 THEN e ELSE s[i - 1]
      BY <2>3, <3>1 DEF o
    <3> QED BY <3>2, <3>3
  <2>5. \A i \in 1 .. o : /\ s[i].role \in {"user", "assistant"}
                          /\ s[i].role # "assistant" /\ ~(ResultIDs(s[i]) \subseteq E) =>
                               i > 1 /\ s[i - 1].role = "assistant" /\ ResultIDs(s[i]) \subseteq UseIDsOf(s[i - 1])
    BY DEF Tidy, TwoRoles
  <2> HIDE DEF t, o
  <2>6. TwoRoles(t)
    <3> SUFFICES ASSUME NEW i \in 1 .. 1 + o PROVE t[i].role \in {"user", "assistant"}
      BY <2>4 DEF TwoRoles
    <3>1. CASE i = 1
      BY <2>2, <2>4, <3>1
    <3>2. CASE i # 1
      <4>1. i \in 2 .. 1 + o /\ i - 1 \in 1 .. o
        BY <2>4, <3>2
      <4> QED BY <2>4, <2>5, <4>1
    <3> QED BY <3>1, <3>2
  <2>7. Tidy(t, E)
    <3> SUFFICES ASSUME NEW i \in 1 .. 1 + o, t[i].role # "assistant", ~(ResultIDs(t[i]) \subseteq E)
                 PROVE  i > 1 /\ t[i - 1].role = "assistant" /\ ResultIDs(t[i]) \subseteq UseIDsOf(t[i - 1])
      BY <2>4 DEF Tidy
    <3>1. i # 1
      BY <2>2, <2>4
    <3>2. i \in 2 .. 1 + o /\ i - 1 \in 1 .. o
      BY <2>4, <3>1
    <3>3. t[i] = s[i - 1]
      BY <2>4, <3>2
    <3>4. i - 1 > 1 /\ s[i - 1 - 1].role = "assistant" /\ ResultIDs(t[i]) \subseteq UseIDsOf(s[i - 1 - 1])
      BY <2>5, <3>2, <3>3
    <3>5. i - 1 \in 2 .. 1 + o
      BY <2>4, <3>2, <3>4
    <3> QED BY <2>4, <3>2, <3>4, <3>5
  <2> QED BY <2>1, <2>2, <2>4, <2>6, <2>7
<1> QED BY <1>1, <1>2

(* nor does a filler between two of the same role: the later one has no    *)
(* results then, for they would stand behind the other role's.             *)
LEMMA AlternatedTidy ==
  ASSUME NEW E, NEW W, Telling(W), NEW out \in Seq(MessagesOf(W)), NEW m \in MessagesOf(W),
         Tidy(out, E), InTurn(out), Follows(m, out, E), m.role \in {"user", "assistant"},
         out = <<>> => m.role = "user"
  PROVE  /\ Tidy(Alternated(out, m), E) /\ InTurn(Alternated(out, m))
         /\ Alternated(out, m) # <<>> /\ Last(Alternated(out, m)) = m
<1> DEFINE M == MessagesOf(W)
<1>1. ASSUME NEW a \in Seq(M), NEW x \in M
      PROVE  Append(a, x) \in Seq(M) /\ Append(a, x) # <<>> /\ Last(Append(a, x)) = x
  <2> HIDE DEF M
  <2>1. Append(a, x) \in Seq(M)
        /\ Len(Append(a, x)) = Len(a) + 1 /\ Append(a, x)[Len(a) + 1] = x /\ Len(a) \in Nat
    BY AppendProperties
  <2>2. Append(a, x) # <<>>
    <3>1. Len(<<>>) = 0
      OBVIOUS
    <3> QED BY <2>1, <3>1
  <2> QED BY <2>1, <2>2 DEF Last
<1>2. out \in Seq(M) /\ m \in M
  OBVIOUS
<1>3. CASE ~(out # <<>> /\ Last(out).role = m.role)
  <2>1. Alternated(out, m) = Append(out, m)
    BY <1>3 DEF Alternated
  <2> HIDE DEF M
  <2>2. Tidy(Append(out, m), E) /\ InTurn(Append(out, m))
    BY <1>2, <1>3, TidyAppend, InTurnAppend
  <2> QED BY <1>1, <1>2, <2>1, <2>2
<1>4. CASE out # <<>> /\ Last(out).role = m.role
  <2> DEFINE e == SyntheticEmpty(Opposite(m.role))
             a == Append(out, e)
  <2>1. Alternated(out, m) = Append(a, m)
    BY <1>4 DEF Alternated
  <2>2. Opposite(m.role) \in {"user", "assistant"} /\ Opposite(m.role) # m.role
    BY DEF Opposite
  <2>3. e.role = Opposite(m.role) /\ ResultIDs(e) = {}
    BY StringIsPlain, PlainHasNone DEF SyntheticEmpty
  <2>4. e \in M
    <3> DEFINE role == Opposite(m.role)
               text == <<Word("synthetic", "(empty)")>>
    <3>1. role \in Roles
      BY <2>2 DEF Roles
    <3>2. text \in Seq(W)
      <4>1. Word("synthetic", "(empty)") \in W
        BY DEF Telling, Fillers
      <4> QED BY <4>1, OneIn
    <3> HIDE DEF role, text
    <3>3. StringMessage(role, text) \in M
      BY <3>1, <3>2, StringMessageIn
    <3> QED BY <3>3 DEF SyntheticEmpty, role, text
  <2> HIDE DEF e, M
  <2>5. a \in Seq(M) /\ a # <<>> /\ Last(a) = e
    BY <1>1, <1>2, <2>4
  <2>6. Tidy(a, E)
    <3>1. Follows(e, out, E)
      BY <2>3 DEF Follows
    <3> QED BY <1>2, <2>4, <3>1, TidyAppend
  <2>7. InTurn(a)
    <3>1. e.role # Last(out).role /\ e.role \in {"user", "assistant"}
      BY <1>4, <2>2, <2>3
    <3> QED BY <1>2, <1>4, <2>4, <3>1, InTurnAppend
  <2> HIDE DEF a
  <2>8. Follows(m, a, E)
    <3>1. m.role = "assistant" \/ ResultIDs(m) \subseteq E
      BY <1>4 DEF Follows
    <3> QED BY <3>1 DEF Follows
  <2>9. Tidy(Append(a, m), E)
    BY <1>2, <2>5, <2>6, <2>8, TidyAppend
  <2>10. InTurn(Append(a, m))
    <3>1. m.role # Last(a).role
      BY <2>2, <2>3, <2>5
    <3> QED BY <1>2, <2>5, <2>7, <3>1, InTurnAppend
  <2> QED BY <1>1, <1>2, <2>1, <2>5, <2>9, <2>10
<1> QED BY <1>3, <1>4

(* In the end the roles take turns (ensureAlternatingRoles).               *)
LEMMA AlternationTidy ==
  ASSUME NEW E, NEW W, Telling(W), NEW s \in Seq(MessagesOf(W)), s # <<>>, Tidy(s, E), TwoRoles(s), s[1].role = "user"
  PROVE  Tidy(EnsureAlternatingRoles(s), E) /\ InTurn(EnsureAlternatingRoles(s))
<1>1. PICK f : IsAlternation(s, f)
  BY AlternationSteps
<1> DEFINE M == MessagesOf(W)
           o == Len(s)
           Fine(n) == /\ f[n] \in Seq(M) /\ Tidy(f[n], E) /\ InTurn(f[n])
                      /\ n > 0 => f[n] # <<>> /\ Last(f[n]) = s[n]
           Good == {n \in Nat : n <= o => Fine(n)}
<1>2. /\ o \in Nat /\ \A n \in 1 .. o : s[n] \in M
      /\ f[0] = <<>> /\ EnsureAlternatingRoles(s) = f[o]
      /\ \A n \in 1 .. o : f[n] = Alternated(f[n - 1], s[n])
  BY <1>1 DEF IsAlternation
<1>3. \A n \in 1 .. o : /\ s[n].role \in {"user", "assistant"}
                        /\ s[n].role # "assistant" /\ ~(ResultIDs(s[n]) \subseteq E) =>
                             n > 1 /\ s[n - 1].role = "assistant" /\ ResultIDs(s[n]) \subseteq UseIDsOf(s[n - 1])
  BY DEF Tidy, TwoRoles
<1> HIDE DEF o
<1>4. 0 \in Good
  <2>1. <<>> \in Seq(M) /\ Len(<<>>) = 0
    OBVIOUS
  <2>2. Tidy(<<>>, E) /\ InTurn(<<>>)
    BY <2>1 DEF Tidy, InTurn, TwoRoles
  <2> HIDE DEF M
  <2>3. Fine(0)
    BY <1>2, <2>1, <2>2
  <2> QED BY <2>3
<1>5. ASSUME NEW n \in Nat, n \in Good
      PROVE  n + 1 \in Good
  <2> SUFFICES ASSUME n + 1 <= o PROVE Fine(n + 1)
    OBVIOUS
  <2>1. n + 1 \in 1 .. o /\ (n + 1) - 1 = n /\ n <= o
    <3>1. o \in Nat
      BY <1>2
    <3> HIDE DEF Fine, Good
    <3> QED BY <3>1
  <2> DEFINE r == f[n]
             m == s[n + 1]
  <2>2. r \in Seq(M) /\ Tidy(r, E) /\ InTurn(r) /\ (n > 0 => r # <<>> /\ Last(r) = s[n])
    BY <1>5, <2>1
  <2>3. m \in M /\ m.role \in {"user", "assistant"}
        /\ (m.role # "assistant" /\ ~(ResultIDs(m) \subseteq E) =>
              n + 1 > 1 /\ s[n].role = "assistant" /\ ResultIDs(m) \subseteq UseIDsOf(s[n]))
    BY <1>2, <1>3, <2>1
  <2>4. f[n + 1] = Alternated(r, m)
    BY <1>2, <2>1
  <2>5. r = <<>> => m.role = "user"
    <3>1. r = <<>> => n = 0
      BY <2>2
    <3> QED BY <3>1
  <2> HIDE DEF r, m
  <2>6. Follows(m, r, E)
    <3> SUFFICES ASSUME m.role # "assistant", ~(ResultIDs(m) \subseteq E)
                 PROVE  r # <<>> /\ Last(r).role = "assistant" /\ ResultIDs(m) \subseteq UseIDsOf(Last(r))
      BY DEF Follows
    <3>1. n > 0
      BY <2>3
    <3> QED BY <2>2, <2>3, <3>1
  <2> DEFINE t == Alternated(r, m)
  <2>7. t \in Seq(M)
    BY <2>2, <2>3, AlternatedIn
  <2>8. Tidy(t, E) /\ InTurn(t) /\ t # <<>> /\ Last(t) = m
    BY <2>2, <2>3, <2>5, <2>6, AlternatedTidy
  <2> HIDE DEF t, M
  <2> QED BY <2>4, <2>7, <2>8 DEF t, m
<1>6. Nat \subseteq Good
  <2> HIDE DEF Good
  <2> QED BY <1>4, <1>5, Induction
<1>7. Fine(o)
  BY <1>2, <1>6
<1> QED BY <1>2, <1>7

(* Normalize, from its first step to its last.                             *)
LEMMA NormalizeTidy ==
  ASSUME NEW E, NEW W, Telling(W), NEW s \in Seq(MessagesOf(W)), s # <<>>, \A i \in DOMAIN s : Proper(s[i]),
         Excepted(s, E), NEW hasTools
  PROVE  /\ Normalize(s, hasTools) \in Seq(MessagesOf(W)) /\ Normalize(s, hasTools) # <<>>
         /\ Tidy(Normalize(s, hasTools), E) /\ InTurn(Normalize(s, hasTools))
<1> DEFINE M == MessagesOf(W)
           t == IF hasTools THEN TextualizeOrphanToolResults(s) ELSE TextualizeAllToolContent(s)
           r == NormalizeRoles(t)
           g == MergeAdjacentSameRole(r)
           b == EnsureStartsWithUser(g)
<1>1. t \in Seq(M) /\ Len(t) = Len(s) /\ Tidy(t, E)
  BY OrphansIn, OrphansTidy, AllTidy
<1>2. Normalize(s, hasTools) = EnsureAlternatingRoles(b)
  BY DEF Normalize
<1>3. Len(s) \in Nat /\ Len(s) # 0
  BY EmptySeq
<1> HIDE DEF t
<1>4. r \in Seq(M) /\ Len(r) = Len(t) /\ Tidy(r, E) /\ TwoRoles(r)
  BY <1>1, RolesIn, RolesTidy
<1>5. r # <<>>
  <2> HIDE DEF r
  <2>1. Len(<<>>) = 0
    OBVIOUS
  <2> QED BY <1>1, <1>3, <1>4, <2>1
<1> HIDE DEF r
<1>6. g \in Seq(M) /\ g # <<>> /\ Tidy(g, E) /\ TwoRoles(g)
  BY <1>4, <1>5, MergeIn, MergeTidy
<1> HIDE DEF g
<1>7. b \in Seq(M) /\ b # <<>> /\ Tidy(b, E) /\ TwoRoles(b) /\ b[1].role = "user"
  BY <1>6, StartIn, StartTidy
<1> HIDE DEF b
<1> QED BY <1>2, <1>7, AlternationIn, AlternationTidy

-----------------------------------------------------------------------------
(* The turns of a payload                                                  *)

(* The numbers of the turns are odd and even.                              *)
LEMMA Parity ==
  ASSUME NEW i \in Nat
  PROVE  i % 2 \in {0, 1} /\ (i + 2) % 2 = i % 2 /\ ((i + 1) % 2 = 1 <=> i % 2 = 0) /\ 1 % 2 = 1 /\ 2 % 2 = 0
OBVIOUS

RoleAt(i) == IF i % 2 = 1 THEN "user" ELSE "assistant"

(* Taking turns from the user on, the odd ones are the user's.             *)
LEMMA RoleByParity ==
  ASSUME NEW S, NEW s \in Seq(S), InTurn(s)
  PROVE  \A i \in 1 .. Len(s) : s[i].role = RoleAt(i)
<1> DEFINE o == Len(s)
           Good == {n \in Nat : n + 1 <= o => s[n + 1].role = RoleAt(n + 1)}
<1>1. o \in Nat
  OBVIOUS
<1>2. /\ \A i \in 1 .. o : s[i].role \in {"user", "assistant"}
      /\ o # 0 => s[1].role = "user"
      /\ \A i \in 2 .. o : s[i].role # s[i - 1].role
  BY DEF InTurn, TwoRoles
<1> HIDE DEF o
<1>3. 0 \in Good
  <2>1. 0 + 1 = 1 /\ RoleAt(1) = "user"
    BY DEF RoleAt
  <2> QED BY <1>1, <1>2, <2>1
<1>4. ASSUME NEW n \in Nat, n \in Good
      PROVE  n + 1 \in Good
  <2> SUFFICES ASSUME n + 1 + 1 <= o PROVE s[n + 1 + 1].role = RoleAt(n + 1 + 1)
    OBVIOUS
  <2> DEFINE k == n + 1
  <2>1. k \in Nat /\ k \in 1 .. o /\ k + 1 \in 2 .. o /\ k + 1 \in 1 .. o /\ (k + 1) - 1 = k
    BY <1>1
  <2>2. s[k].role = RoleAt(k)
    BY <1>4, <2>1
  <2> HIDE DEF k
  <2>3. s[k + 1].role # s[k].role /\ s[k + 1].role \in {"user", "assistant"}
    BY <1>2, <2>1
  <2>4. RoleAt(k) # RoleAt(k + 1) /\ RoleAt(k + 1) \in {"user", "assistant"} /\ RoleAt(k) \in {"user", "assistant"}
    <3>1. (k + 1) % 2 = 1 <=> k % 2 # 1
      BY <2>1, Parity
    <3> QED BY <3>1 DEF RoleAt
  <2>5. s[k + 1].role = RoleAt(k + 1)
    BY <2>2, <2>3, <2>4
  <2> QED BY <2>5 DEF k
<1>5. Nat \subseteq Good
  <2> HIDE DEF Good
  <2> QED BY <1>3, <1>4, Induction
<1> SUFFICES ASSUME NEW i \in 1 .. o PROVE s[i].role = RoleAt(i)
  BY DEF o
<1>6. i - 1 \in Nat /\ (i - 1) + 1 = i
  BY <1>1
<1>7. i - 1 \in Good /\ (i - 1) + 1 <= o
  <2>1. (i - 1) + 1 <= o
    BY <1>1, <1>6
  <2> HIDE DEF Good
  <2> QED BY <1>5, <1>6, <2>1
<1>8. s[(i - 1) + 1].role = RoleAt((i - 1) + 1)
  BY <1>7
<1> HIDE DEF Good
<1> QED BY <1>6, <1>8

-----------------------------------------------------------------------------
(* What the entry of the i-th message holds.                                *)
TurnOf(e, full, i) ==
  /\ e.role = full[i].role
  /\ full[i].role = "user" => e.results = ResultsOf(full[i], IDsBefore(full, i))
  /\ full[i].role = "assistant" => e.results = <<>> /\ e.uses = UsesOf(full[i])

(* The uses of an entry have the ids the results behind it are ordered by. *)
LEMMA UsesAndIDs ==
  ASSUME NEW msgs, NEW i \in Nat, i > 1
  PROVE  /\ DOMAIN IDsBefore(msgs, i) = DOMAIN UsesOf(msgs[i - 1])
         /\ \A u \in DOMAIN IDsBefore(msgs, i) : UsesOf(msgs[i - 1])[u].id = IDsBefore(msgs, i)[u]
<1> DEFINE us == Of(msgs[i - 1].blocks, IsToolUse)
<1>1. IDsBefore(msgs, i) = [n \in DOMAIN us |-> us[n].id]
  BY DEF IDsBefore, IDs
<1>2. UsesOf(msgs[i - 1]) = [n \in DOMAIN us |-> [id |-> us[n].id, name |-> Shorten(us[n].name)]]
  BY DEF UsesOf
<1> HIDE DEF us
<1> QED BY <1>1, <1>2

(* The n-th result answers a use behind the one the result before answers.  *)
Matches(us, rs, n) ==
  \E u \in DOMAIN us :
    us[u].id = rs[n].id /\ (n > 1 => \E v \in 1 .. u - 1 : us[v].id = rs[n - 1].id)

(* An entry with results stands behind one with uses, which they answer.   *)
LEMMA TurnFollows ==
  ASSUME NEW E, NEW W, Telling(W), NEW full \in Seq(MessagesOf(W)), Tidy(full, E), InTurn(full),
         NEW i \in 1 .. Len(full), NEW e, TurnOf(e, full, i), NEW n \in DOMAIN e.results,
         e.results[n].id \notin E
  PROVE  /\ i > 1
         /\ \A d : TurnOf(d, full, i - 1) => Matches(d.uses, e.results, n)
<1> DEFINE ids == IDsBefore(full, i)
           rs == ResultsOf(full[i], ids)
<1>1. full[i].role \in {"user", "assistant"}
  BY DEF InTurn, TwoRoles
<1>2. full[i].role # "assistant"
  <2>1. ASSUME full[i].role = "assistant"
        PROVE  FALSE
    <3>1. e.results = <<>>
      BY <2>1 DEF TurnOf
    <3> QED BY <3>1
  <2> QED BY <2>1
<1>3. e.results = rs
  BY <1>1, <1>2 DEF TurnOf
<1>4. Answers(rs, ids)
  <2>1. ~(ResultIDs(full[i]) \subseteq E)
    BY <1>3, TurnAmong
  <2>2. i > 1 /\ ResultIDs(full[i]) \subseteq UseIDsOf(full[i - 1])
    BY <1>2, <2>1 DEF Tidy
  <2> QED BY <2>2, TurnAnswers
<1>5. ids \in Seq(Nat)
  BY IDsBeforeIn
<1>6. i > 1
  <2>1. ASSUME ~(i > 1)
        PROVE  FALSE
    <3>1. ids = <<>>
      BY <2>1 DEF IDsBefore
    <3> QED BY <1>3, <1>4, <3>1 DEF Answers
  <2> QED BY <2>1
<1>7. full[i - 1].role = "assistant"
  <2>1. i \in 2 .. Len(full) /\ i - 1 \in 1 .. Len(full)
    BY <1>6
  <2> QED BY <1>1, <1>2, <2>1 DEF InTurn, TwoRoles
<1> HIDE DEF rs
<1>8. ASSUME NEW d, TurnOf(d, full, i - 1)
      PROVE  Matches(d.uses, e.results, n)
  <2>1. d.uses = UsesOf(full[i - 1])
    BY <1>7, <1>8 DEF TurnOf
  <2> DEFINE us == d.uses
             r == e.results
  <2>2. DOMAIN ids = DOMAIN us /\ \A u \in DOMAIN ids : us[u].id = ids[u]
    <3>1. i \in Nat
      OBVIOUS
    <3> QED BY <1>6, <2>1, <3>1, UsesAndIDs
  <2>3. DOMAIN ids = 1 .. Len(ids) /\ Len(ids) \in Nat
    BY <1>5
  <2>4. PICK u \in DOMAIN ids :
          ids[u] = r[n].id /\ (n > 1 => \E v \in 1 .. u - 1 : ids[v] = r[n - 1].id)
    BY <1>3, <1>4 DEF Answers
  <2>5. \A v \in 1 .. u - 1 : v \in DOMAIN ids
    BY <2>3
  <2> HIDE DEF us, r, ids
  <2>6. us[u].id = r[n].id /\ u \in DOMAIN us
    BY <2>2, <2>4
  <2>7. n > 1 => \E v \in 1 .. u - 1 : us[v].id = r[n - 1].id
    BY <2>2, <2>4, <2>5
  <2> QED BY <2>6, <2>7 DEF Matches, us, r
<1> QED BY <1>6, <1>8

(* So entries of messages in turn are turns as they should be, with a      *)
(* system prompt's pair before them or none.                               *)
LEMMA TurnsFit ==
  ASSUME NEW E, NEW W, Telling(W), NEW full \in Seq(MessagesOf(W)), Tidy(full, E), InTurn(full),
         NEW turns, NEW d \in {0, 2}, DOMAIN turns = 1 .. d + Len(full),
         \A i \in 1 .. Len(full) : TurnOf(turns[d + i], full, i),
         \A i \in 1 .. d : turns[i].results = <<>> /\ turns[i].role = RoleAt(i)
  PROVE  TurnsOK(turns, E)
<1> DEFINE o == Len(full)
<1>1. o \in Nat /\ d \in Nat
  OBVIOUS
<1>2. \A i \in 1 .. o : full[i].role = RoleAt(i)
  BY RoleByParity
<1> SUFFICES ASSUME NEW k \in 1 .. d + o
             PROVE  /\ turns[k].role = RoleAt(k)
                    /\ \A n \in DOMAIN turns[k].results : turns[k].results[n].id \notin E =>
                         Matches(turns[k - 1].uses, turns[k].results, n)
  BY DEF TurnsOK, RoleAt, Matches
<1>3. CASE k \in 1 .. d
  <2>1. turns[k].results = <<>> /\ turns[k].role = RoleAt(k)
    BY <1>3
  <2>2. DOMAIN turns[k].results = {}
    BY <2>1
  <2> QED BY <2>1, <2>2
<1>4. CASE k \notin 1 .. d
  <2> DEFINE i == k - d
             e == turns[k]
  <2>1. i \in 1 .. o /\ k = d + i
    BY <1>1, <1>4
  <2>2. TurnOf(e, full, i)
    BY <2>1
  <2>3. RoleAt(k) = RoleAt(i)
    <3>1. k % 2 = i % 2
      <4>1. i \in Nat /\ (k = i \/ k = i + 2)
        BY <1>1, <2>1
      <4> HIDE DEF i
      <4> QED BY <4>1, Parity
    <3> QED BY <3>1 DEF RoleAt
  <2> HIDE DEF i, e
  <2>4. e.role = RoleAt(k)
    BY <1>2, <2>1, <2>2, <2>3 DEF TurnOf
  <2>5. ASSUME NEW n \in DOMAIN e.results, e.results[n].id \notin E
        PROVE  Matches(turns[k - 1].uses, e.results, n)
    <3>1. i > 1
      BY <2>1, <2>2, <2>5, TurnFollows
    <3>2. i - 1 \in 1 .. o /\ k - 1 = d + (i - 1)
      BY <1>1, <2>1, <3>1
    <3>3. TurnOf(turns[k - 1], full, i - 1)
      BY <3>2
    <3> QED BY <2>1, <2>2, <2>5, <3>3, TurnFollows
  <2> QED BY <2>4, <2>5 DEF e
<1> QED BY <1>3, <1>4

(* A sequence is its front and its last element.                           *)
LEMMA FrontAndLast ==
  ASSUME NEW S, NEW s \in Seq(S), s # <<>>
  PROVE  Append(Front(s), Last(s)) = s
<1> DEFINE o == Len(s)
           f == Front(s)
           x == Last(s)
           t == Append(f, x)
<1>1. o \in Nat /\ o # 0
  BY EmptySeq
<1>2. f \in Seq(S) /\ x \in S
  BY LastIn
<1>3. x = s[o]
  BY DEF Last
<1>4. Len(f) = o - 1 /\ \A k \in 1 .. o - 1 : f[k] = s[k]
  <2>1. f = SubSeq(s, 1, o - 1)
    BY DEF Front
  <2>2. 1 \in Int /\ o - 1 \in Int /\ \A k \in 1 .. o - 1 : s[k] \in S
    BY <1>1
  <2>3. /\ Len(SubSeq(s, 1, o - 1)) = IF 1 <= o - 1 THEN (o - 1) - 1 + 1 ELSE 0
        /\ \A k \in 1 .. (o - 1) - 1 + 1 : SubSeq(s, 1, o - 1)[k] = s[1 + k - 1]
    <3> HIDE DEF o, f, x, t
    <3> QED BY <2>2, SubSeqProperties
  <2> HIDE DEF o, f, x, t
  <2>4. (IF 1 <= o - 1 THEN (o - 1) - 1 + 1 ELSE 0) = o - 1 /\ (o - 1) - 1 + 1 = o - 1
    BY <1>1
  <2>5. \A k \in 1 .. o - 1 : 1 + k - 1 = k
    BY <1>1
  <2> QED BY <2>1, <2>3, <2>4, <2>5
<1> HIDE DEF f, x
<1>5. t \in Seq(S) /\ Len(t) = Len(f) + 1 /\ t[Len(f) + 1] = x /\ \A k \in 1 .. Len(f) : t[k] = f[k]
  BY <1>2, AppendProperties
<1> HIDE DEF t, o
<1>6. Len(t) = o /\ \A k \in 1 .. o : t[k] = s[k]
  <2>1. \A k \in 1 .. o : k = o \/ k \in 1 .. o - 1
    BY <1>1
  <2> QED BY <1>1, <1>3, <1>4, <1>5, <2>1
<1>7. t = s
  BY <1>5, <1>6, SeqEqual DEF o
<1> QED BY <1>7 DEF t, f, x

(* The entries of a history belong to the messages before the last.         *)
LEMMA HistoryTurns ==
  ASSUME NEW M, NEW past \in Seq(M), NEW last \in M, TwoRoles(past)
  PROVE  /\ DOMAIN BuildHistory(past) = 1 .. Len(past)
         /\ \A i \in 1 .. Len(past) : TurnOf(BuildHistory(past)[i], Append(past, last), i)
<1> DEFINE full == Append(past, last)
           x(i) == ExtractTextContent(past[i])
           r(i) == ResultsOf(past[i], IDsBefore(past, i))
           u(i) == UsesOf(past[i])
           H(i) == IF past[i].role = "user" THEN Entry("user", x(i), r(i), <<>>)
                   ELSE Entry("assistant", x(i), <<>>, u(i))
           h == BuildHistory(past)
<1>1. h = [i \in DOMAIN past |-> H(i)] /\ DOMAIN past = 1 .. Len(past) /\ Len(past) \in Nat
  BY DEF BuildHistory
<1>2. \A i \in 1 .. Len(past) : full[i] = past[i]
  BY AppendProperties
<1>3. ASSUME NEW i \in 1 .. Len(past)
      PROVE  TurnOf(H(i), full, i)
  <2>1. past[i].role \in {"user", "assistant"}
    BY DEF TwoRoles
  <2>2. IDsBefore(past, i) = IDsBefore(full, i)
    <3>1. CASE i > 1
      <4>1. i - 1 \in 1 .. Len(past)
        BY <1>1, <3>1
      <4>2. past[i - 1] = full[i - 1]
        BY <1>2, <4>1
      <4> QED BY <4>2 DEF IDsBefore
    <3>2. CASE ~(i > 1)
      BY <3>2 DEF IDsBefore
    <3> QED BY <3>1, <3>2
  <2>3. full[i] = past[i]
    BY <1>2
  <2>4. r(i) = ResultsOf(full[i], IDsBefore(full, i)) /\ u(i) = UsesOf(full[i])
    BY <2>2, <2>3
  <2> HIDE DEF x, r, u, full
  <2>5. CASE past[i].role = "user"
    <3>1. H(i).role = "user" /\ H(i).results = r(i)
      BY <2>5 DEF Entry
    <3> QED BY <2>3, <2>4, <2>5, <3>1 DEF TurnOf
  <2>6. CASE past[i].role = "assistant"
    <3>1. H(i).role = "assistant" /\ H(i).results = <<>> /\ H(i).uses = u(i)
      BY <2>6 DEF Entry
    <3> QED BY <2>3, <2>4, <2>6, <3>1 DEF TurnOf
  <2> QED BY <2>1, <2>5, <2>6
<1> HIDE DEF H, full
<1> QED BY <1>1, <1>3 DEF full

(* The current message is the last one's (buildCurrentMessage).            *)
LEMMA CurrentTurn ==
  ASSUME NEW M, NEW past \in Seq(M), NEW last \in M, last.role = "user", NEW thinking
  PROVE  TurnOf(BuildCurrentMessage(last, IDsBefore(Append(past, last), Len(past) + 1), thinking),
                Append(past, last), Len(past) + 1)
<1> DEFINE full == Append(past, last)
           ids == IDsBefore(full, Len(past) + 1)
           c == BuildCurrentMessage(last, ids, thinking)
<1>1. full[Len(past) + 1] = last
  BY AppendProperties
<1> HIDE DEF full, ids
<1>2. c.role = "user" /\ c.results = ResultsOf(last, ids)
  BY DEF BuildCurrentMessage, Entry
<1> HIDE DEF c
<1> QED BY <1>1, <1>2 DEF TurnOf, ids, c, full

(* Where the entries stand with the system prompt before them and the      *)
(* current message behind (placeSystemPrompt).                             *)
LEMMA PlacedTurns ==
  ASSUME NEW h, NEW o \in Nat, DOMAIN h = 1 .. o, h \in Seq(ToSet(h)), NEW system, NEW c
  PROVE  LET turns == Append(PlaceSystemPrompt(system, h), c)
         IN  \E d \in {0, 2} :
               /\ Len(turns) = d + (o + 1) /\ DOMAIN turns = 1 .. d + (o + 1)
               /\ \A i \in 1 .. o : turns[d + i] = h[i]
               /\ turns[d + (o + 1)] = c
               /\ \A i \in 1 .. d : turns[i].results = <<>> /\ turns[i].role = RoleAt(i)
<1> DEFINE x == Entry("user", system, <<>>, <<>>)
           y == Entry("assistant", <<Word("synthetic", "ack")>>, <<>>, <<>>)
           E == ToSet(h) \cup {x, y, c}
           p == PlaceSystemPrompt(system, h)
           t == Append(p, c)
<1>1. h \in Seq(E) /\ c \in E /\ x \in E /\ y \in E
  <2>1. ToSet(h) \subseteq E
    OBVIOUS
  <2> HIDE DEF E
  <2>2. h \in Seq(E)
    BY <2>1, SeqMore
  <2> QED BY <2>2 DEF E
<1>2. Len(h) = o
  <2>1. DOMAIN h = 1 .. Len(h) /\ Len(h) \in Nat
    OBVIOUS
  <2>2. \A a, b \in Nat : 1 .. a = 1 .. b => a = b
    OBVIOUS
  <2> QED BY <2>1, <2>2
<1>3. CASE system = <<>>
  <2>1. p = h
    BY <1>3 DEF PlaceSystemPrompt
  <2> HIDE DEF E, p
  <2>2. t \in Seq(E) /\ Len(t) = o + 1 /\ t[o + 1] = c /\ \A i \in 1 .. o : t[i] = h[i]
    BY <1>1, <1>2, <2>1, AppendProperties
  <2>3. DOMAIN t = 1 .. o + 1
    BY <2>2
  <2> HIDE DEF t
  <2>4. 0 + (o + 1) = o + 1 /\ \A i \in 1 .. o : 0 + i = i
    OBVIOUS
  <2>5. /\ Len(t) = 0 + (o + 1) /\ DOMAIN t = 1 .. 0 + (o + 1)
        /\ \A i \in 1 .. o : t[0 + i] = h[i]
        /\ t[0 + (o + 1)] = c
        /\ \A i \in 1 .. 0 : t[i].results = <<>> /\ t[i].role = RoleAt(i)
    BY <2>2, <2>3, <2>4
  <2> QED BY <2>5 DEF t, p
<1>4. CASE system # <<>>
  <2>1. p = <<x, y>> \o h
    BY <1>4 DEF PlaceSystemPrompt
  <2>2. x.results = <<>> /\ x.role = "user" /\ y.results = <<>> /\ y.role = "assistant"
    BY DEF Entry
  <2> HIDE DEF x, y, E, p
  <2> DEFINE f == <<x, y>>
  <2>3. f \in Seq(E) /\ Len(f) = 2 /\ f[1] = x /\ f[2] = y
    BY <1>1
  <2> HIDE DEF f
  <2>4. /\ p \in Seq(E) /\ Len(p) = 2 + o
        /\ \A i \in 1 .. 2 + o : p[i] = IF i <= 2 THEN f[i] ELSE h[i - 2]
    <3>1. /\ f \o h \in Seq(E) /\ Len(f \o h) = Len(f) + Len(h)
          /\ \A i \in 1 .. Len(f) + Len(h) : (f \o h)[i] = IF i <= Len(f) THEN f[i] ELSE h[i - Len(f)]
      BY <1>1, <2>3, ConcatProperties
    <3> QED BY <1>2, <2>1, <2>3, <3>1 DEF f
  <2>5. t \in Seq(E) /\ Len(t) = 2 + o + 1 /\ t[2 + o + 1] = c /\ \A i \in 1 .. 2 + o : t[i] = p[i]
    BY <1>1, <2>4, AppendProperties
  <2>6. DOMAIN t = 1 .. 2 + o + 1
    BY <2>5
  <2> HIDE DEF t
  <2>7. \A i \in 1 .. o : t[2 + i] = h[i]
    <3> SUFFICES ASSUME NEW i \in 1 .. o PROVE t[2 + i] = h[i]
      OBVIOUS
    <3>1. 2 + i \in 1 .. 2 + o /\ ~(2 + i <= 2) /\ (2 + i) - 2 = i
      OBVIOUS
    <3> QED BY <2>4, <2>5, <3>1
  <2>8. t[1] = x /\ t[2] = y
    <3>1. 1 \in 1 .. 2 + o /\ 2 \in 1 .. 2 + o /\ 1 <= 2 /\ 2 <= 2
      OBVIOUS
    <3> QED BY <2>3, <2>4, <2>5, <3>1
  <2>9. RoleAt(1) = "user" /\ RoleAt(2) = "assistant"
    BY DEF RoleAt
  <2>10. \A i \in 1 .. 2 : t[i].results = <<>> /\ t[i].role = RoleAt(i)
    <3>1. \A i \in 1 .. 2 : i = 1 \/ i = 2
      OBVIOUS
    <3> QED BY <2>2, <2>8, <2>9, <3>1
  <2>11. 2 + (o + 1) = 2 + o + 1
    OBVIOUS
  <2>12. /\ Len(t) = 2 + (o + 1) /\ DOMAIN t = 1 .. 2 + (o + 1)
         /\ \A i \in 1 .. o : t[2 + i] = h[i]
         /\ t[2 + (o + 1)] = c
         /\ \A i \in 1 .. 2 : t[i].results = <<>> /\ t[i].role = RoleAt(i)
    BY <2>5, <2>6, <2>7, <2>10, <2>11
  <2> QED BY <2>12 DEF t, p
<1> QED BY <1>3, <1>4

(* The turns of a payload alternate and answer, whatever the messages      *)
(* (BuildPayload).                                                         *)
LEMMA PayloadTurns ==
  ASSUME NEW E, NEW W, Telling(W), NEW s \in Seq(MessagesOf(W)), s # <<>>, \A i \in DOMAIN s : Proper(s[i]),
         Excepted(s, E), NEW system, NEW offered, NEW extra, NEW thinking
  PROVE  LET p == BuildPayload(system, s, offered, extra, thinking)
             turns == Append(p.history, p.current)
         IN  TurnsOK(turns, E) /\ Len(turns) % 2 = 1
<1> DEFINE msgs == Normalize(s, offered # <<>> \/ extra # <<>>)
           prefilled == msgs # <<>> /\ Last(msgs).role = "assistant"
           reply == StringMessage("user", SyntheticContinue)
           past == IF prefilled THEN msgs ELSE Front(msgs)
           last == IF prefilled THEN reply ELSE Last(msgs)
           full == Append(past, last)
           p == BuildPayload(system, s, offered, extra, thinking)
           turns == Append(p.history, p.current)
           M == MessagesOf(W)
<1>1. msgs \in Seq(M) /\ msgs # <<>> /\ Tidy(msgs, E) /\ InTurn(msgs)
  <2> DEFINE some == offered # <<>> \/ extra # <<>>
  <2> HIDE DEF some
  <2>1. Normalize(s, some) \in Seq(M) /\ Normalize(s, some) # <<>>
        /\ Tidy(Normalize(s, some), E) /\ InTurn(Normalize(s, some))
    BY NormalizeTidy
  <2> QED BY <2>1 DEF some
<1>2. /\ p.history = PlaceSystemPrompt(system, BuildHistory(past))
      /\ p.current = BuildCurrentMessage(last, IDsBefore(full, Len(past) + 1), thinking)
  BY DEF BuildPayload
<1>3. reply \in M /\ reply.role = "user" /\ ResultIDs(reply) = {}
  <2>1. Word("synthetic", "Continue") \in W
    BY DEF Telling, Fillers
  <2>2. SyntheticContinue \in Seq(W)
    BY <2>1, OneIn DEF SyntheticContinue
  <2>3. "user" \in Roles
    BY DEF Roles
  <2> QED BY <2>2, <2>3, StringMessageIn, StringIsPlain, PlainHasNone
<1> HIDE DEF msgs, p, M, reply
<1>4. Last(msgs) \in M /\ Front(msgs) \in Seq(M) /\ Append(Front(msgs), Last(msgs)) = msgs
  BY <1>1, LastIn, FrontAndLast
<1>5. /\ past \in Seq(M) /\ last \in M /\ last.role = "user" /\ TwoRoles(past)
      /\ full \in Seq(M) /\ Tidy(full, E) /\ InTurn(full)
  <2>1. CASE prefilled
    <3>1. past = msgs /\ last = reply /\ Last(msgs).role = "assistant"
      BY <2>1
    <3>2. Follows(reply, msgs, E)
      BY <1>3 DEF Follows
    <3>3. Tidy(Append(msgs, reply), E)
      BY <1>1, <1>3, <3>2, TidyAppend
    <3>4. InTurn(Append(msgs, reply))
      BY <1>1, <1>3, <3>1, InTurnAppend
    <3>5. Append(msgs, reply) \in Seq(M)
      BY <1>1, <1>3, AppendProperties
    <3> QED BY <1>1, <1>3, <3>1, <3>3, <3>4, <3>5 DEF InTurn
  <2>2. CASE ~prefilled
    <3>1. past = Front(msgs) /\ last = Last(msgs) /\ full = msgs
      BY <1>4, <2>2
    <3>2. Last(msgs).role # "assistant"
      BY <1>1, <2>2
    <3>3. Last(msgs).role \in {"user", "assistant"}
      <4>1. Len(msgs) \in 1 .. Len(msgs)
        BY <1>1, EmptySeq
      <4> QED BY <1>1, <4>1 DEF InTurn, TwoRoles, Last
    <3>4. TwoRoles(Front(msgs))
      BY <1>1, TidyFront DEF InTurn
    <3> QED BY <1>1, <1>4, <3>1, <3>2, <3>3, <3>4
  <2> QED BY <2>1, <2>2
<1> HIDE DEF past, last
<1> DEFINE h == BuildHistory(past)
           c == p.current
           o == Len(past)
<1>6. o \in Nat /\ Len(full) = o + 1
  BY <1>5, AppendProperties
<1>7. DOMAIN h = 1 .. o /\ \A i \in 1 .. o : TurnOf(h[i], full, i)
  BY <1>5, HistoryTurns
<1>8. TurnOf(c, full, o + 1)
  BY <1>2, <1>5, CurrentTurn
<1>9. h \in Seq(ToSet(h))
  <2>1. h = [i \in 1 .. o |-> h[i]]
    BY <1>7 DEF BuildHistory
  <2> HIDE DEF h, o
  <2>2. \A i \in 1 .. o : h[i] \in ToSet(h)
    BY <1>7 DEF ToSet
  <2> QED BY <1>6, <2>1, <2>2
<1> HIDE DEF h, c, o, full
<1>10. turns = Append(PlaceSystemPrompt(system, h), c)
  BY <1>2 DEF h, c
<1> HIDE DEF turns
<1>11. PICK d \in {0, 2} :
         /\ Len(turns) = d + (o + 1) /\ DOMAIN turns = 1 .. d + (o + 1)
         /\ \A i \in 1 .. o : turns[d + i] = h[i]
         /\ turns[d + (o + 1)] = c
         /\ \A i \in 1 .. d : turns[i].results = <<>> /\ turns[i].role = RoleAt(i)
  BY <1>6, <1>7, <1>9, <1>10, PlacedTurns
<1>12. \A i \in 1 .. Len(full) : TurnOf(turns[d + i], full, i)
  <2>1. \A i \in 1 .. o + 1 : i = o + 1 \/ i \in 1 .. o
    BY <1>6
  <2> QED BY <1>6, <1>7, <1>8, <1>11, <2>1
<1>13. TurnsOK(turns, E)
  BY <1>5, <1>6, <1>11, <1>12, TurnsFit DEF M
<1>14. Len(turns) % 2 = 1
  <2>1. o + 1 \in 1 .. Len(full)
    BY <1>6
  <2>2. full[o + 1].role = RoleAt(o + 1)
    BY <1>5, <2>1, RoleByParity
  <2>3. full[o + 1] = last
    BY <1>5, AppendProperties DEF full, o
  <2>4. (o + 1) % 2 = 1
    BY <1>5, <2>2, <2>3 DEF RoleAt
  <2>5. o + 1 \in Nat
    BY <1>6
  <2> DEFINE k == o + 1
  <2> HIDE DEF k
  <2>6. (0 + k) % 2 = k % 2 /\ (2 + k) % 2 = k % 2
    <3>1. k \in Nat
      BY <2>5 DEF k
    <3>2. 0 + k = k /\ 2 + k = k + 2
      BY <3>1
    <3> QED BY <3>1, <3>2, Parity
  <2> QED BY <1>11, <2>4, <2>6 DEF k
<1> QED BY <1>13, <1>14 DEF turns, p

-----------------------------------------------------------------------------
(* The OpenAI route                                                        *)

(* The OpenAI route: what its messages are, and what they are halfway       *)
(* through the translation, when a tool's results have a role of their own. *)
ChatRoles == {"system", "user", "assistant", "tool"}
CallsOf == [id : Nat, name : OwnTools, json : BOOLEAN]
ChatsOf(W) == [role : ChatRoles, text : Seq(W), image : {"", "data"}, calls : Seq(CallsOf), id : Nat]
HalfRoles == {"user", "assistant", "tool"}
HalvesOf(W) ==
  {m \in [role : HalfRoles, isString : BOOLEAN, blocks : Seq(BlocksOf(W))] :
     m.isString => m.role # "tool" /\ ResultIDs(m) = {}}

(* A string of the user's or the assistant's, and                          *)
LEMMA HalfString ==
  ASSUME NEW W, NEW role \in {"user", "assistant"}, NEW text \in Seq(W)
  PROVE  StringMessage(role, text) \in HalvesOf(W)
<1> DEFINE m == StringMessage(role, text)
<1>1. m.blocks = <<TextBlock(text)>> /\ m.role = role
  BY DEF StringMessage
<1>2. <<TextBlock(text)>> \in Seq(BlocksOf(W))
  BY TextBlockIn, OneIn
<1>3. ResultIDs(m) = {}
  <2>1. IsPlainTextContent(StringMessage(role, text))
    BY StringIsPlain
  <2> QED BY <2>1, PlainHasNone
<1>4. m \in [role : HalfRoles, isString : BOOLEAN, blocks : Seq(BlocksOf(W))]
  BY <1>2 DEF StringMessage, HalfRoles
<1>5. m.role # "tool"
  BY <1>1
<1> HIDE DEF m
<1> QED BY <1>3, <1>4, <1>5 DEF HalvesOf, m

(* a message of blocks, halfway.                                           *)
LEMMA HalfMessage ==
  ASSUME NEW W, NEW role \in HalfRoles, NEW blocks \in Seq(BlocksOf(W))
  PROVE  Message(role, blocks) \in HalvesOf(W)
<1>1. Message(role, blocks) \in [role : HalfRoles, isString : BOOLEAN, blocks : Seq(BlocksOf(W))]
  BY DEF Message
<1>2. ~Message(role, blocks).isString
  BY DEF Message
<1> QED BY <1>1, <1>2 DEF HalvesOf

(* translateUserMessage,                                                   *)
LEMMA UserIn ==
  ASSUME NEW W, NEW m \in ChatsOf(W)
  PROVE  TranslateUserMessage(m) \in HalvesOf(W)
<1> DEFINE text == m.text
           bs == <<TextBlock(text), Plain("image")>>
<1>1. text \in Seq(W)
  BY DEF ChatsOf
<1>2. TranslateUserMessage(m) = StringMessage("user", text) \/ TranslateUserMessage(m) = Message("user", bs)
  BY DEF TranslateUserMessage
<1>3. StringMessage("user", text) \in HalvesOf(W)
  <2> HIDE DEF text
  <2> QED BY <1>1, HalfString
<1>4. bs \in Seq(BlocksOf(W))
  <2>1. "image" \in BlockTypes /\ NoID \in Nat /\ "" \in Names /\ <<>> \in Seq(W) /\ <<>> \in Seq(OwnTools)
    BY DEF BlockTypes, Textless, Names, NoID
  <2>2. Plain("image") \in BlocksOf(W)
    BY <2>1 DEF Plain, Block, BlocksOf
  <2>3. TextBlock(text) \in BlocksOf(W)
    BY <1>1, TextBlockIn
  <2> DEFINE a == TextBlock(text)
             b == Plain("image")
             B == BlocksOf(W)
  <2>4. a \in B /\ b \in B
    BY <2>2, <2>3
  <2> HIDE DEF a, b, B
  <2>5. <<a, b>> \in Seq(B)
    BY <2>4
  <2> QED BY <2>5 DEF a, b, B
<1>5. Message("user", bs) \in HalvesOf(W)
  <2> HIDE DEF bs
  <2>1. "user" \in HalfRoles
    BY DEF HalfRoles
  <2> QED BY <1>4, <2>1, HalfMessage
<1> QED BY <1>2, <1>3, <1>5

(* translateAssistantMessage,                                              *)
LEMMA AssistantIn ==
  ASSUME NEW W, NEW m \in ChatsOf(W)
  PROVE  TranslateAssistantMessage(m) \in HalvesOf(W)
<1> DEFINE text == m.text
           calls == m.calls
           a == IF text = <<>> THEN <<>> ELSE <<TextBlock(text)>>
           u == [n \in DOMAIN calls |-> ToolUse(calls[n].id, calls[n].name)]
           B == BlocksOf(W)
<1>1. text \in Seq(W) /\ calls \in Seq(CallsOf)
  BY DEF ChatsOf
<1>2. TranslateAssistantMessage(m) = StringMessage("assistant", <<>>)
      \/ TranslateAssistantMessage(m) = Message("assistant", a \o u)
  BY DEF TranslateAssistantMessage
<1>3. a \in Seq(B)
  <2>1. TextBlock(text) \in B
    BY <1>1, TextBlockIn
  <2>2. <<TextBlock(text)>> \in Seq(B) /\ <<>> \in Seq(B)
    <3> HIDE DEF B
    <3> QED BY <2>1, OneIn
  <2> QED BY <2>2
<1>4. u \in Seq(B)
  <2> DEFINE U(n) == ToolUse(calls[n].id, calls[n].name)
  <2> HIDE DEF calls
  <2>1. DOMAIN calls = 1 .. Len(calls) /\ Len(calls) \in Nat /\ \A n \in 1 .. Len(calls) : calls[n] \in CallsOf
    BY <1>1
  <2>2. \A n \in 1 .. Len(calls) : U(n) \in B
    <3> SUFFICES ASSUME NEW n \in 1 .. Len(calls) PROVE U(n) \in B
      OBVIOUS
    <3>1. calls[n].id \in Nat /\ calls[n].name \in OwnTools
      BY <2>1 DEF CallsOf
    <3> QED BY <3>1, ToolUseIn
  <2> HIDE DEF U, B
  <2>3. [n \in 1 .. Len(calls) |-> U(n)] \in Seq(B)
    BY <2>1, <2>2
  <2> QED BY <2>1, <2>3 DEF U
<1>5. StringMessage("assistant", <<>>) \in HalvesOf(W)
  <2>1. <<>> \in Seq(W)
    OBVIOUS
  <2> QED BY <2>1, HalfString
<1>6. Message("assistant", a \o u) \in HalvesOf(W)
  <2> HIDE DEF a, u
  <2> DEFINE bs == a \o u
  <2>1. bs \in Seq(B)
    <3> HIDE DEF B
    <3> QED BY <1>3, <1>4, ConcatProperties
  <2>2. "assistant" \in HalfRoles
    BY DEF HalfRoles
  <2> HIDE DEF bs
  <2>3. Message("assistant", bs) \in HalvesOf(W)
    BY <2>1, <2>2, HalfMessage
  <2> QED BY <2>3 DEF bs
<1> QED BY <1>2, <1>5, <1>6

(* and tool messages, each for itself or joined to the ones before         *)
(* (translateMessages).                                                    *)
LEMMA CoalescedIn ==
  ASSUME NEW W, NEW out \in Seq(HalvesOf(W)), NEW m \in ChatsOf(W)
  PROVE  Coalesced(out, m) \in Seq(HalvesOf(W))
<1> DEFINE b == TranslateToolResult(m)
           H == HalvesOf(W)
           o == Len(out)
<1>1. b \in BlocksOf(W)
  <2>1. m.id \in Nat /\ m.text \in Seq(W)
    BY DEF ChatsOf
  <2>2. <<>> \in Seq(OwnTools)
    OBVIOUS
  <2> QED BY <2>1, <2>2, ToolResultIn DEF TranslateToolResult
<1> HIDE DEF b
<1>2. CASE out # <<>> /\ Last(out).role = "tool"
  <2> DEFINE old == Last(out)
             new == [old EXCEPT !.blocks = Append(@, b)]
  <2>1. old \in H /\ old = out[o] /\ o \in 1 .. o /\ o \in Nat
    <3>1. old \in HalvesOf(W)
      BY <1>2, LastIn
    <3>2. o \in Nat /\ o # 0
      BY <1>2, EmptySeq
    <3> QED BY <3>1, <3>2 DEF Last
  <2>2. old.role = "tool"
    BY <1>2
  <2> HIDE DEF old
  <2>3. old \in [role : HalfRoles, isString : BOOLEAN, blocks : Seq(BlocksOf(W))] /\ ~old.isString
    BY <2>1, <2>2 DEF HalvesOf
  <2>4. Append(old.blocks, b) \in Seq(BlocksOf(W))
    <3>1. old.blocks \in Seq(BlocksOf(W))
      BY <2>3
    <3> QED BY <1>1, <3>1, AppendProperties
  <2>5. new \in [role : HalfRoles, isString : BOOLEAN, blocks : Seq(BlocksOf(W))] /\ ~new.isString
    <3> DEFINE bs == Append(old.blocks, b)
               B == BlocksOf(W)
    <3>1. new = [old EXCEPT !.blocks = bs]
      BY <2>3
    <3>2. bs \in Seq(B)
      BY <2>4
    <3> HIDE DEF bs, new, B
    <3>3. new \in [role : HalfRoles, isString : BOOLEAN, blocks : Seq(B)] /\ ~new.isString
      BY <2>3, <3>1, <3>2 DEF B
    <3> QED BY <3>3 DEF B
  <2> HIDE DEF new
  <2>6. new \in H
    BY <2>5 DEF HalvesOf
  <2>7. Coalesced(out, m) = [out EXCEPT ![o] = new]
    <3>1. Coalesced(out, m) = [out EXCEPT ![o].blocks = Append(@, b)]
      BY <1>2 DEF Coalesced, b
    <3>2. out[o] = old
      BY <2>1
    <3> HIDE DEF o
    <3>3. [out EXCEPT ![o].blocks = Append(@, b)] = [out EXCEPT ![o] = [old EXCEPT !.blocks = Append(@, b)]]
      BY <3>2
    <3> QED BY <3>1, <3>3 DEF new
  <2> HIDE DEF H
  <2>8. [out EXCEPT ![o] = new] \in Seq(H)
    <3>1. out \in Seq(H)
      BY DEF H
    <3> QED BY <2>1, <2>6, <3>1
  <2> QED BY <2>7, <2>8 DEF H
<1>3. CASE ~(out # <<>> /\ Last(out).role = "tool")
  <2> DEFINE x == Message("tool", <<b>>)
  <2>1. Coalesced(out, m) = Append(out, x)
    BY <1>3 DEF Coalesced, b
  <2>2. x \in H
    <3>1. <<b>> \in Seq(BlocksOf(W)) /\ "tool" \in HalfRoles
      BY <1>1, OneIn DEF HalfRoles
    <3> QED BY <3>1, HalfMessage
  <2> HIDE DEF x
  <2>3. Append(out, x) \in Seq(H)
    <3>1. out \in Seq(H)
      OBVIOUS
    <3> HIDE DEF H
    <3> QED BY <2>2, <3>1, AppendProperties
  <2> QED BY <2>1, <2>3
<1> QED BY <1>2, <1>3

TurnsOfChat(W) == {m \in ChatsOf(W) : m.role # "system"}

(* One step of translateMessages.                                          *)
LEMMA TranslatedIn ==
  ASSUME NEW W, NEW out \in Seq(HalvesOf(W)), NEW m \in TurnsOfChat(W)
  PROVE  Translated(out, m) \in Seq(HalvesOf(W))
<1> DEFINE H == HalvesOf(W)
<1>1. m \in ChatsOf(W) /\ m.role \in {"user", "assistant", "tool"} /\ out \in Seq(H)
  BY DEF TurnsOfChat, ChatsOf, ChatRoles
<1>2. TranslateUserMessage(m) \in H /\ TranslateAssistantMessage(m) \in H
  BY <1>1, UserIn, AssistantIn
<1>3. Coalesced(out, m) \in Seq(H)
  BY <1>1, CoalescedIn
<1> HIDE DEF H
<1>4. Append(out, TranslateUserMessage(m)) \in Seq(H) /\ Append(out, TranslateAssistantMessage(m)) \in Seq(H)
  BY <1>1, <1>2, AppendProperties
<1>5. CASE m.role = "user"
  <2>1. Translated(out, m) = Append(out, TranslateUserMessage(m))
    BY <1>5 DEF Translated
  <2> QED BY <1>4, <2>1 DEF H
<1>6. CASE m.role = "assistant"
  <2>1. Translated(out, m) = Append(out, TranslateAssistantMessage(m))
    BY <1>6 DEF Translated
  <2> QED BY <1>4, <2>1 DEF H
<1>7. CASE m.role = "tool"
  <2>1. Translated(out, m) = Coalesced(out, m)
    BY <1>7 DEF Translated
  <2> QED BY <1>3, <2>1 DEF H
<1> QED BY <1>1, <1>5, <1>6, <1>7

(* TranslateMessages takes one message behind the other,                    *)
Halfway(s) ==
  LET out[n \in 0 .. Len(s)] == IF n = 0 THEN <<>> ELSE Translated(out[n - 1], s[n])
  IN  out[Len(s)]
IsTranslation(s, f) ==
  /\ f[0] = <<>>
  /\ \A n \in 1 .. Len(s) : f[n] = Translated(f[n - 1], s[n])
  /\ Halfway(s) = f[Len(s)]

(* TranslateMessages is the end of its steps,                              *)
LEMMA TranslationSteps ==
  ASSUME NEW W, NEW s \in Seq(TurnsOfChat(W))
  PROVE  \E f : IsTranslation(s, f)
<1> DEFINE o == Len(s)
           S == Seq(HalvesOf(W))
           step == [p \in S \X TurnsOfChat(W) |-> Translated(p[1], p[2])]
           Loop(f) == f = [n \in 0 .. o |-> IF n = 0 THEN <<>> ELSE Translated(f[n - 1], s[n])]
<1>1. step \in [S \X TurnsOfChat(W) -> S]
  <2>1. ASSUME NEW p \in S \X TurnsOfChat(W)
        PROVE  (Translated(p[1], p[2])) \in S
    BY TranslatedIn
  <2> QED BY <2>1
<1>2. <<>> \in S
  OBVIOUS
<1>3. PICK g : IsFold(S, step, <<>>, s, g)
  <2> HIDE DEF step, S
  <2> QED BY <1>1, <1>2, FoldExists
<1> HIDE DEF S
<1>4. o \in Nat /\ g \in [0 .. o -> S] /\ g[0] = <<>> /\ \A n \in 1 .. o : s[n] \in TurnsOfChat(W)
  BY <1>3 DEF IsFold
<1>5. \A n \in 1 .. o : g[n] = step[<<g[n - 1], s[n]>>]
  BY <1>3 DEF IsFold
<1> HIDE DEF o
<1>6. ASSUME NEW n \in 1 .. o
      PROVE  g[n] = Translated(g[n - 1], s[n])
  <2>1. n - 1 \in 0 .. o
    BY <1>4
  <2>2. g[n - 1] \in S /\ s[n] \in TurnsOfChat(W)
    BY <1>4, <2>1
  <2>3. step[<<g[n - 1], s[n]>>] = Translated(g[n - 1], s[n])
    BY <2>2
  <2> QED BY <1>5, <2>3
<1>7. Loop(g)
  <2>1. g = [n \in 0 .. o |-> g[n]]
    BY <1>4
  <2>2. ASSUME NEW n \in 0 .. o
        PROVE  g[n] = IF n = 0 THEN <<>> ELSE Translated(g[n - 1], s[n])
    <3>1. n = 0 \/ n \in 1 .. o
      BY <1>4
    <3> QED BY <1>4, <1>6, <3>1
  <2> QED BY <2>1, <2>2
<1> DEFINE f == CHOOSE r : Loop(r)
<1>8. Loop(f)
  <2> HIDE DEF Loop
  <2> QED BY <1>7
<1>9. Halfway(s) = f[o]
  BY DEF Halfway, o
<1>10. f[0] = <<>> /\ \A n \in 1 .. o : f[n] = Translated(f[n - 1], s[n])
  <2> HIDE DEF f
  <2>1. ASSUME NEW n \in 0 .. o
        PROVE  f[n] = IF n = 0 THEN <<>> ELSE Translated(f[n - 1], s[n])
    BY <1>8
  <2> QED BY <1>4, <2>1
<1> HIDE DEF f
<1> QED BY <1>9, <1>10 DEF o, IsTranslation

(* whose messages are of its kind,                                         *)
LEMMA HalfwayIn ==
  ASSUME NEW W, NEW s \in Seq(TurnsOfChat(W))
  PROVE  Halfway(s) \in Seq(HalvesOf(W))
<1> DEFINE H == HalvesOf(W)
<1>1. PICK f : IsTranslation(s, f)
  BY TranslationSteps
<1> DEFINE o == Len(s)
           Fine(n) == f[n] \in Seq(H)
           Good == {n \in Nat : n <= o => Fine(n)}
<1>2. /\ o \in Nat /\ \A n \in 1 .. o : s[n] \in TurnsOfChat(W)
      /\ f[0] = <<>> /\ Halfway(s) = f[o]
      /\ \A n \in 1 .. o : f[n] = Translated(f[n - 1], s[n])
  <2>1. Len(s) \in Nat /\ \A n \in 1 .. Len(s) : s[n] \in TurnsOfChat(W)
    OBVIOUS
  <2> QED BY <1>1, <2>1 DEF IsTranslation
<1> HIDE DEF o
<1>4. 0 \in Good
  <2>1. <<>> \in Seq(H)
    OBVIOUS
  <2> QED BY <1>2, <2>1
<1>5. ASSUME NEW n \in Nat, n \in Good
      PROVE  n + 1 \in Good
  <2> SUFFICES ASSUME n + 1 <= o PROVE Fine(n + 1)
    OBVIOUS
  <2>1. n + 1 \in 1 .. o /\ (n + 1) - 1 = n /\ n <= o
    BY <1>2
  <2>2. f[n] \in Seq(H)
    BY <1>5, <2>1
  <2>3. f[n + 1] = Translated(f[n], s[n + 1]) /\ s[n + 1] \in TurnsOfChat(W)
    BY <1>2, <2>1
  <2> QED BY <2>2, <2>3, TranslatedIn
<1>6. Nat \subseteq Good
  <2> HIDE DEF Good
  <2> QED BY <1>4, <1>5, Induction
<1>7. Fine(o)
  BY <1>2, <1>6
<1> QED BY <1>2, <1>7

(* and its messages are an Anthropic client's.                              *)
LEMMA TranslationProper ==
  ASSUME NEW W, NEW s \in Seq(TurnsOfChat(W))
  PROVE  /\ TranslateMessages(s) \in Seq(MessagesOf(W))
         /\ \A i \in DOMAIN TranslateMessages(s) : Proper(TranslateMessages(s)[i])
<1> DEFINE all == Halfway(s)
           E(m) == [m EXCEPT !.role = IF @ = "tool" THEN "user" ELSE @]
           t == [i \in DOMAIN all |-> E(all[i])]
<1>1. TranslateMessages(s) = t
  BY DEF TranslateMessages, Halfway
<1>2. all \in Seq(HalvesOf(W))
  BY HalfwayIn
<1>3. ASSUME NEW m \in HalvesOf(W)
      PROVE  E(m) \in MessagesOf(W) /\ Proper(E(m))
  <2>1. m \in [role : HalfRoles, isString : BOOLEAN, blocks : Seq(BlocksOf(W))]
        /\ (m.isString => ResultIDs(m) = {})
    BY DEF HalvesOf
  <2> DEFINE e == E(m)
             role == IF m.role = "tool" THEN "user" ELSE m.role
  <2>2. e = [m EXCEPT !.role = role] /\ role \in {"user", "assistant"}
    BY <2>1 DEF HalfRoles
  <2> HIDE DEF e, role
  <2>3. e.role = role /\ e.isString = m.isString /\ e.blocks = m.blocks
    BY <2>1, <2>2
  <2>4. e \in [role : {"user", "assistant"}, isString : BOOLEAN, blocks : Seq(BlocksOf(W))]
    BY <2>1, <2>2
  <2>5. e \in MessagesOf(W)
    <3>1. {"user", "assistant"} \subseteq Roles
      BY DEF Roles
    <3> QED BY <2>4, <3>1 DEF MessagesOf
  <2>6. ResultIDs(e) = ResultIDs(m)
    BY <2>3 DEF ResultIDs
  <2>7. Proper(e)
    BY <2>1, <2>3, <2>6 DEF Proper
  <2> QED BY <2>5, <2>7 DEF e
<1> HIDE DEF E, all
<1> DEFINE M == MessagesOf(W)
           H == HalvesOf(W)
<1>4. DOMAIN all = 1 .. Len(all) /\ Len(all) \in Nat /\ \A i \in 1 .. Len(all) : all[i] \in H
  BY <1>2
<1>5. \A i \in 1 .. Len(all) : E(all[i]) \in M /\ Proper(E(all[i]))
  BY <1>3, <1>4
<1> HIDE DEF M, H
<1>6. t \in Seq(M) /\ DOMAIN t = DOMAIN all /\ \A i \in DOMAIN all : t[i] = E(all[i])
  BY <1>4, <1>5
<1> HIDE DEF t
<1>7. \A i \in DOMAIN t : Proper(t[i])
  BY <1>4, <1>5, <1>6
<1> QED BY <1>1, <1>6, <1>7 DEF M

(* The whole request's translation leaves the system's messages out.        *)
LEMMA RequestProper ==
  ASSUME NEW W, NEW conversation \in Seq(ChatsOf(W))
  PROVE  LET r == TranslateRequest(conversation)
         IN  /\ r.messages \in Seq(MessagesOf(W))
             /\ \A i \in DOMAIN r.messages : Proper(r.messages[i])
<1> DEFINE prompts == {m \in ToSet(conversation) : m.role = "system"}
           rest == ToSet(conversation) \ prompts
           s == Only(conversation, rest)
<1>1. TranslateRequest(conversation).messages = TranslateMessages(s)
  BY DEF TranslateRequest
<1>2. ChatsOf(W) \cap rest \subseteq TurnsOfChat(W)
  BY DEF TurnsOfChat
<1> HIDE DEF rest
<1>3. s \in Seq(ChatsOf(W) \cap rest)
  BY OnlyIn
<1>4. s \in Seq(TurnsOfChat(W))
  <2> HIDE DEF s
  <2> QED BY <1>2, <1>3, SeqMore
<1> HIDE DEF s
<1> QED BY <1>1, <1>4, TranslationProper

-----------------------------------------------------------------------------
(* What every request sends                                                *)

AllProper(s) == \A i \in DOMAIN s : Proper(s[i])

(* The OpenAI client's messages are well formed, an Anthropic client has    *)
(* none, and strings hold no results.                                       *)
Forms ==
  /\ chat \in Seq(ChatsOf(Told({})))
  /\ ~options.openAI => chat = <<>>
  /\ AllProper(messages) /\ AllProper(working)

(* Messages that are proper, one by one,                                   *)
LEMMA StringProper ==
  ASSUME NEW role, NEW text
  PROVE  Proper(StringMessage(role, text))
BY StringIsPlain, PlainHasNone DEF Proper

LEMMA MessageProper ==
  ASSUME NEW role, NEW blocks
  PROVE  Proper(Message(role, blocks))
BY DEF Proper, Message

LEMMA NoneProper == AllProper(<<>>)
BY DEF AllProper

(* appended, and                                                           *)
LEMMA ProperAppend ==
  ASSUME NEW S, NEW s \in Seq(S), NEW m, AllProper(s), Proper(m)
  PROVE  AllProper(Append(s, m))
<1> DEFINE t == Append(s, m)
           o == Len(s)
<1>1. o \in Nat /\ DOMAIN s = 1 .. o
  OBVIOUS
<1>2. Len(t) = o + 1 /\ t[o + 1] = m /\ DOMAIN t = 1 .. o + 1 /\ \A k \in 1 .. o : t[k] = s[k]
  <2> DEFINE X == S \cup {m}
  <2>1. m \in X /\ s \in Seq(X)
    OBVIOUS
  <2> HIDE DEF X
  <2>2. t \in Seq(X) /\ Len(t) = o + 1 /\ t[o + 1] = m /\ \A k \in 1 .. o : t[k] = s[k]
    BY <2>1, AppendProperties
  <2>3. DOMAIN t = 1 .. o + 1
    BY <2>2
  <2> QED BY <2>2, <2>3
<1> HIDE DEF t, o
<1>3. \A k \in 1 .. o + 1 : k = o + 1 \/ k \in 1 .. o
  BY <1>1
<1> QED BY <1>1, <1>2, <1>3 DEF AllProper, t

(* in a pair of the proxy's.                                               *)
LEMMA ProperPair ==
  ASSUME NEW S, NEW s \in Seq(S), NEW a \in S, NEW b \in S, AllProper(s), Proper(a), Proper(b)
  PROVE  AllProper(s \o <<a, b>>)
<1>1. s \o <<a, b>> = Append(Append(s, a), b)
  OBVIOUS
<1>2. Append(s, a) \in Seq(S) /\ AllProper(Append(s, a))
  BY ProperAppend, AppendProperties
<1> QED BY <1>1, <1>2, ProperAppend

(* So it is at first.                                                      *)
LEMMA FormsInit == Init => Forms
<1> SUFFICES ASSUME Init PROVE Forms
  OBVIOUS
<1>1. chat = <<>> /\ messages = <<>> /\ working = <<>>
  BY DEF Init
<1> QED BY <1>1, NoneProper DEF Forms

(* The tool a chat's calls name, and                                       *)
LEMMA FirstTool ==
  ASSUME ActiveTools # <<>>
  PROVE  ActiveTools[1] \in OwnTools
<1> DEFINE s == ActiveTools
           T == ToSet(ActiveTools)
<1>1. s \in Seq(T) /\ s # <<>>
  BY ToolsAssumption
<1>2. T \subseteq OwnTools
  BY DEF OwnTools
<1> HIDE DEF s, T
<1>3. Len(s) \in Nat /\ Len(s) # 0
  BY <1>1, EmptySeq
<1>4. 1 \in 1 .. Len(s)
  BY <1>3
<1>5. s[1] \in T
  BY <1>1, <1>4
<1> QED BY <1>2, <1>5 DEF s

(* the calls.                                                              *)
LEMMA CallsIn ==
  ASSUME NEW first \in Nat, NEW n \in Nat, n > 0 => ActiveTools # <<>>
  PROVE  [k \in 1 .. n |-> Call(first + k - 1, ActiveTools[1], TRUE)] \in Seq(CallsOf)
<1> DEFINE F(k) == Call(first + k - 1, ActiveTools[1], TRUE)
<1>1. ASSUME NEW k \in 1 .. n
      PROVE  F(k) \in CallsOf
  <2>1. n > 0 /\ first + k - 1 \in Nat
    OBVIOUS
  <2>2. ActiveTools[1] \in OwnTools
    BY <2>1, FirstTool
  <2> QED BY <2>1, <2>2 DEF Call, CallsOf
<1> HIDE DEF F
<1>2. [k \in 1 .. n |-> F(k)] \in Seq(CallsOf)
  BY <1>1
<1> QED BY <1>2 DEF F

(* Numbers, and                                                            *)
LEMMA FromZero == \A n : 0 .. n \subseteq Nat
OBVIOUS

(* more of them.                                                           *)
LEMMA SumIn == \A x, y \in Nat : x + y \in Nat
OBVIOUS

(* A message of an OpenAI client's,                                        *)
LEMMA ChatMessageIn ==
  ASSUME NEW first \in Nat, NEW n \in Nat, n > 0 => ActiveTools # <<>>,
         NEW role \in ChatRoles, NEW id \in Nat, NEW image \in {"", "data"}
  PROVE  ChatMessage(role, IF role = "tool" THEN <<Word("out", first)>> ELSE Said(first + n), image,
                     [k \in 1 .. n |-> Call(first + k - 1, ActiveTools[1], TRUE)], id)
            \in ChatsOf(Told({}))
<1> DEFINE W == Told({})
           text == IF role = "tool" THEN <<Word("out", first)>> ELSE Said(first + n)
           calls == [k \in 1 .. n |-> Call(first + k - 1, ActiveTools[1], TRUE)]
<1>1. first + n \in Nat
  BY SumIn
<1>2. Said(first + n) \in Seq(W)
  BY <1>1, SaidIn
<1>3. <<Word("out", first)>> \in Seq(W)
  <2>1. "out" \in WordKinds /\ "out" # "found"
    BY DEF WordKinds
  <2>2. first \in Whose
    BY DEF Whose
  <2>3. Word("out", first) \in W
    BY <2>1, <2>2, WordIn
  <2> QED BY <2>3, OneIn
<1>4. text \in Seq(W)
  BY <1>2, <1>3
<1>5. calls \in Seq(CallsOf)
  BY CallsIn
<1> HIDE DEF text, calls, W
<1>6. ChatMessage(role, text, image, calls, id) \in ChatsOf(W)
  BY <1>4, <1>5 DEF ChatMessage, ChatsOf
<1> QED BY <1>6 DEF text, calls, W

(* which it composes.                                                      *)
LEMMA ChatForms ==
  ASSUME SearchInv, Forms, ComposeChat
  PROVE  Forms'
<1> DEFINE C == ChatsOf(Told({}))
<1>1. options.openAI /\ UNCHANGED <<options, messages, working>> /\ made \in Nat /\ chat \in Seq(C)
  BY DEF ComposeChat, request, SearchInv, Talk, Forms
<1>2. PICK role \in {"system", "user", "assistant", "tool"}, n \in 0 .. 2, id \in 0 .. made - 1,
         image \in {"", "data"} :
        /\ n > 0 => role = "assistant" /\ ActiveTools # <<>>
        /\ id > 0 => role = "tool" /\ \A k \in DOMAIN chat : chat[k].id # id
        /\ image # "" => role \in {"user", "tool"}
        /\ chat' = Append(chat, ChatMessage(role,
                     IF role = "tool" THEN <<Word("out", made)>> ELSE Said(made + n), image,
                     [k \in 1 .. n |-> Call(made + k - 1, ActiveTools[1], TRUE)], id))
        /\ made' = made + n + 1
  BY Zenon DEF ComposeChat
<1> DEFINE c == ChatMessage(role,
                     IF role = "tool" THEN <<Word("out", made)>> ELSE Said(made + n), image,
                     [k \in 1 .. n |-> Call(made + k - 1, ActiveTools[1], TRUE)], id)
<1>3. n \in Nat /\ id \in Nat
  BY FromZero
<1>4. role \in ChatRoles
  BY DEF ChatRoles
<1>5. n > 0 => ActiveTools # <<>>
  BY <1>2
<1>6. c \in C /\ chat' = Append(chat, c)
  BY <1>1, <1>2, <1>3, <1>4, <1>5, ChatMessageIn
<1> HIDE DEF c, C
<1>7. chat' \in Seq(C)
  BY <1>1, <1>6, AppendProperties
<1>8. AllProper(messages)' /\ AllProper(working)'
  BY <1>1 DEF Forms, AllProper
<1> QED BY <1>1, <1>7, <1>8 DEF Forms, C

(* An Anthropic client composes one.                                       *)
LEMMA ComposeForms ==
  ASSUME SearchInv, Forms, ComposeMessage
  PROVE  Forms'
<1>1. UNCHANGED <<options, chat, working>>
  BY DEF ComposeMessage, request
<1> DEFINE R(out, ids) ==
             [n \in 1 .. out.count |-> ToolResult(ids[n], <<Word(out.what, <<made, n>>)>>, out.refs)]
           T(text) == IF text THEN <<TextBlock(Said(made))>> ELSE <<>>
<1>2. \/ \E role \in {"user", "assistant", "developer"} :
           messages' = Append(messages, StringMessage(role, Said(made)))
      \/ \E role \in {"user", "developer"}, out \in Outputs :
           \E ids \in [1 .. out.count -> UseIDs \cup {NoID}] :
             messages' = Append(messages, Message(role, R(out, ids) \o T(out.text)))
  BY DEF ComposeMessage
<1> HIDE DEF R, T
<1>3. \E m : Proper(m) /\ messages' = Append(messages, m)
  BY <1>2, StringProper, MessageProper
<1>4. AllProper(messages')
  BY <1>3, ProperAppend DEF SearchInv, Talk, Forms
<1>5. AllProper(messages)' /\ AllProper(working)'
  BY <1>1, <1>4 DEF Forms, AllProper
<1> QED BY <1>1, <1>5 DEF Forms

(* Nothing new is in the working messages, or what is proper.              *)
LEMMA OverForms ==
  ASSUME Forms, UNCHANGED <<options, chat, messages>>,
         working' = working \/ working' = messages \/ AllProper(working')
  PROVE  Forms'
BY DEF Forms, AllProper

(* The two messages of a search are proper (appendSearchMessages).         *)
LEMMA SearchedForms ==
  ASSUME SearchInv, Forms, Searched
  PROVE  Forms'
<1>1. PICK content \in Contents, tail \in {<<>>, Tail1}, after \in {<<>>, Tail1}, query \in Queries :
        SearchedFor(content, tail, after, query)
  BY DEF Searched
<1>2. UNCHANGED <<options, chat, messages>>
  BY DEF Searched
<1> DEFINE found == IF query.valid THEN Search(query, tools.deferred) ELSE <<>>
<1>3. CASE round = MaxToolSearchRounds
  <2>1. \E s, p : Finish(s, p)
    BY <1>1, <1>3 DEF SearchedFor
  <2>2. working' = working
    BY <2>1 DEF Finish, Over
  <2> QED BY <1>2, <2>2, OverForms
<1>4. CASE round # MaxToolSearchRounds
  <2>1. working' = AppendSearchMessages(made + 2, found)
    BY <1>1, <1>4 DEF SearchedFor
  <2> HIDE DEF found
  <2> DEFINE M == MessagesOf(Told(ShortOf(tools.active)))
             a == Message("assistant", <<Block("server_tool_use", made + 2, KiroToolSearchName, <<>>, <<>>)>>)
             b == Message("user", <<ToolResult(made + 2, <<Word("result", made + 2)>> \o Found(found), <<>>)>>)
  <2>2. Proper(a) /\ Proper(b)
    BY MessageProper
  <2>3. working' = working \o <<a, b>>
    BY <2>1 DEF AppendSearchMessages
  <2>4. working \in Seq(M) /\ AllProper(working)
    BY DEF SearchInv, Talk, Forms
  <2> DEFINE S == M \cup {a, b}
  <2>5. a \in S /\ b \in S /\ working \in Seq(S)
    <3> HIDE DEF M, a, b
    <3>1. M \subseteq S /\ a \in S /\ b \in S
      OBVIOUS
    <3> QED BY <2>4, <3>1, SeqMore
  <2> HIDE DEF S, a, b, M
  <2>6. AllProper(working')
    BY <2>2, <2>3, <2>4, <2>5, ProperPair
  <2> QED BY <1>2, <2>6, OverForms
<1> QED BY <1>3, <1>4

(* The rest of the steps.                                                  *)
LEMMA RestForms ==
  ASSUME SearchInv, Forms, Send \/ CallFails \/ Replied \/ Broken \/ SearchedBadly \/ Read \/ UNCHANGED vars
  PROVE  Forms'
<1>1. CASE Send
  BY <1>1, OverForms DEF Send
<1>2. CASE CallFails \/ Broken \/ SearchedBadly
  <2>1. UNCHANGED <<options, chat, messages>>
    BY <1>2 DEF CallFails, Broken, SearchedBadly
  <2>2. \E how, s, p : Over(how, s, p)
    BY <1>2 DEF CallFails, Broken, SearchedBadly, StreamingOrJSONError
  <2>3. working' = working
    BY <2>2 DEF Over
  <2> QED BY <2>1, <2>3, OverForms
<1>3. CASE Replied
  <2>1. UNCHANGED <<options, chat, messages>>
    BY <1>3 DEF Replied
  <2>2. RetryEmpty(shown) \/ \E s, p : Finish(s, p)
    BY <1>3 DEF Replied
  <2>3. working' = working \/ working' = messages
    BY <2>2 DEF RetryEmpty, Finish, Over
  <2> QED BY <2>1, <2>3, OverForms
<1>4. CASE Read
  <2>1. UNCHANGED <<options, chat>> /\ working' = <<>>
        /\ (messages' = Append(messages, Message("assistant", shown)) \/ messages' = messages)
    BY <1>4 DEF Read
  <2>2. AllProper(Append(messages, Message("assistant", shown)))
    BY MessageProper, ProperAppend DEF SearchInv, Talk, Forms
  <2>3. AllProper(messages') /\ AllProper(working')
    BY <2>1, <2>2, NoneProper DEF Forms
  <2> QED BY <2>1, <2>3 DEF Forms, AllProper
<1>5. CASE UNCHANGED vars
  <2>1. UNCHANGED <<options, chat, messages, working>>
    BY <1>5 DEF vars, request
  <2> QED BY <2>1, OverForms
<1> QED BY <1>1, <1>2, <1>3, <1>4, <1>5

(* Every step keeps the form.                                              *)
LEMMA FormsStep ==
  ASSUME SearchInv, Forms, [Next]_vars
  PROVE  Forms'
BY ChatForms, ComposeForms, SearchedForms, RestForms DEF Next

(* The results of a developer's messages are the ones excepted.            *)
LEMMA DeveloperExcepted == Excepted(SentMessages, DeveloperResults)
<1> SUFFICES ASSUME NEW i \in DOMAIN SentMessages, SentMessages[i].role = "developer"
             PROVE  ResultIDs(SentMessages[i]) \subseteq DeveloperResults
  BY DEF Excepted
<1> DEFINE m == SentMessages[i]
           D == {x \in ToSet(SentMessages) : x.role = "developer"}
           IDsIn(x) == {b.id : b \in {b \in ToSet(x.blocks) : IsToolResult(b)}}
<1>1. m \in D
  BY DEF ToSet
<1>2. DeveloperResults = UNION {IDsIn(x) : x \in D}
  BY DEF DeveloperResults
<1>3. ResultIDs(m) = IDsIn(m)
  BY DEF ResultIDs
<1> HIDE DEF m, D, IDsIn
<1>4. IDsIn(m) \subseteq DeveloperResults
  BY <1>1, <1>2
<1> QED BY <1>3, <1>4 DEF m

(* The turns of every payload, on both routes and in every round, alternate*)
(* from the user's to the user's, and each result, but for those of a      *)
(* developer's messages, stands right behind the turn whose use it         *)
(* answers, in the order of the uses                                       *)
(* (message_normalizer.go Normalize, tool_results.go ReorderToolResults,   *)
(* translate_request.go translateMessages).                                *)
THEOREM PayloadsWellFormed == Spec => []PayloadWellFormed
<1>1. Init => SearchInv /\ Forms
  BY SearchInit, FormsInit
<1>2. SearchInv /\ Forms /\ [Next]_vars => (SearchInv /\ Forms)'
  BY SearchStep, FormsStep
<1>3. SearchInv /\ Forms => PayloadWellFormed
  <2> SUFFICES ASSUME SearchInv, Forms, Sending PROVE TurnsOK(Turns, DeveloperResults) /\ Len(Turns) % 2 = 1
    BY DEF PayloadWellFormed
  <2> DEFINE E == DeveloperResults
  <2>0. Excepted(SentMessages, E)
    BY DeveloperExcepted
  <2> HIDE DEF E
  <2>1. CASE options.openAI
    <3> DEFINE W == Told({})
               s == ChatRequest.messages
               system == ChatRequest.system
               p == BuildPayload(system, s, ChatTools, <<>>, FALSE)
    <3>1. stage # "calling"
      BY <2>1 DEF SearchInv, Offer
    <3>2. s # <<>>
      BY <3>1 DEF Sending
    <3>3. s \in Seq(MessagesOf(W)) /\ \A i \in DOMAIN s : Proper(s[i])
      BY RequestProper DEF Forms, ChatRequest
    <3>4. Telling(W)
      BY ToldTelling
    <3>5. Turns = Append(p.history, p.current) /\ Excepted(s, E)
      BY <2>0, <2>1 DEF Turns, Sent, SentMessages
    <3> HIDE DEF W, s, system, p
    <3>6. LET q == BuildPayload(system, s, ChatTools, <<>>, FALSE)
              turns == Append(q.history, q.current)
          IN  TurnsOK(turns, E) /\ Len(turns) % 2 = 1
      BY <3>2, <3>3, <3>4, <3>5, PayloadTurns
    <3> QED BY <3>5, <3>6 DEF p, E
  <2>2. CASE ~options.openAI
    <3> DEFINE W == Told(ShortOf(tools.active))
               active == tools.active
               p == BuildPayload(SystemPrompt, working, active, <<KiroToolSearchName>>, TRUE)
    <3>1. chat = <<>>
      BY <2>2 DEF Forms
    <3>2. stage = "calling"
      BY <3>1 DEF Sending, Accepted
    <3>3. working # <<>>
      BY <3>2 DEF SearchInv, Offer
    <3>4. working \in Seq(MessagesOf(W)) /\ \A i \in DOMAIN working : Proper(working[i])
      BY DEF SearchInv, Talk, Forms, AllProper
    <3>5. Telling(W)
      BY ToldTelling
    <3>6. Turns = Append(p.history, p.current) /\ Excepted(working, E)
      BY <2>0, <2>2 DEF Turns, Sent, Payload, SentMessages
    <3> HIDE DEF W, active, p
    <3>7. LET q == BuildPayload(SystemPrompt, working, active, <<KiroToolSearchName>>, TRUE)
              turns == Append(q.history, q.current)
          IN  TurnsOK(turns, E) /\ Len(turns) % 2 = 1
      BY <3>3, <3>4, <3>5, <3>6, PayloadTurns
    <3> QED BY <3>6, <3>7 DEF p, E
  <2> QED BY <2>1, <2>2
<1> QED BY <1>1, <1>2, <1>3, PTL DEF Spec

-----------------------------------------------------------------------------
(* The gate                                                                *)

(* What the client has received came through the gate, and the gate opens   *)
(* for streams only.                                                        *)
Gate ==
  /\ options.stream \in BOOLEAN /\ promoted \in BOOLEAN /\ delivered \in BOOLEAN
  /\ delivered => promoted
  /\ promoted => options.stream

(* The gate is closed when a request comes in.                             *)
LEMMA GateInit == Init => Gate
BY DEF Init, Gate

(* The end of a request leaves it open for streams only.                   *)
LEMMA OverGate ==
  ASSUME Gate, NEW how, NEW s, NEW p \in BOOLEAN, options' = options, Over(how, s, p),
         promoted => p, p => options.stream
  PROVE  Gate'
BY DEF Over, Gate

Once == (run' = 2 /\ run = 1) \/ (answer' = "json" /\ answer # "json") => ~delivered'

(* No step delivers to one who is not streaming; and once something was    *)
(* delivered no second run begins and no JSON error is written.            *)
LEMMA GateStep ==
  ASSUME Gate, [Next]_vars
  PROVE  Gate' /\ Once
<1> USE DEF Once
<1>0. /\ options.stream \in BOOLEAN /\ promoted \in BOOLEAN /\ delivered \in BOOLEAN
      /\ delivered => promoted
      /\ promoted => options.stream
  BY DEF Gate
<1>1. ASSUME UNCHANGED <<options, promoted, delivered, run, answer>>
      PROVE  Gate' /\ Once
  BY <1>0, <1>1 DEF Gate
<1>2. CASE ComposeChat \/ ComposeMessage \/ UNCHANGED vars
  <2>1. UNCHANGED <<options, promoted, delivered, run, answer>>
    BY <1>2 DEF ComposeChat, ComposeMessage, vars, request
  <2> QED BY <1>1, <2>1
<1>3. CASE Send \/ Read
  <2>1. options' = options /\ promoted' = FALSE /\ delivered' = FALSE
    BY <1>3 DEF Send, Read
  <2>2. Gate'
    BY <1>0, <2>1 DEF Gate
  <2> QED BY <2>1, <2>2
<1>4. ASSUME NEW how, NEW s, NEW p \in BOOLEAN, options' = options, Over(how, s, p),
             promoted => p, p => options.stream, how = "json" => ~p
      PROVE  Gate' /\ Once
  <2>1. Gate'
    BY <1>4, OverGate
  <2>2. run' = run /\ answer' = how /\ (how = "json" => ~delivered')
    <3>1. how = "json" => ~p /\ ~delivered
      BY <1>0, <1>4
    <3> QED BY <1>4, <3>1 DEF Over
  <2>3. run = 1 => run' # 2
    BY <2>2
  <2> QED BY <2>1, <2>2, <2>3
<1>5. ASSUME NEW s, NEW p \in BOOLEAN, options' = options, StreamingOrJSONError(s, p),
             promoted => p, p => options.stream
      PROVE  Gate' /\ Once
  <2>1. CASE p
    <3>1. Over("error", s, p)
      BY <1>5, <2>1 DEF StreamingOrJSONError
    <3> QED BY <1>4, <1>5, <3>1
  <2>2. CASE ~p
    <3>1. Over("json", s, p)
      BY <1>5, <2>2 DEF StreamingOrJSONError
    <3> QED BY <1>4, <1>5, <2>2, <3>1
  <2> QED BY <2>1, <2>2
<1>6. ASSUME NEW s, NEW p \in BOOLEAN, options' = options, Finish(s, p),
             promoted => p, p => options.stream
      PROVE  Gate' /\ Once
  <2>1. Over("lost", s, p) \/ Over("complete", s, p)
    BY <1>6 DEF Finish
  <2>2. "lost" # "json" /\ "complete" # "json"
    OBVIOUS
  <2>3. CASE Over("lost", s, p)
    BY <1>4, <1>6, <2>2, <2>3
  <2>4. CASE Over("complete", s, p)
    BY <1>4, <1>6, <2>2, <2>4
  <2> QED BY <2>1, <2>3, <2>4
<1>7. \A bs : IsVisible(bs) \in BOOLEAN /\ (IsVisible(bs) => options.stream)
  BY <1>0 DEF IsVisible
<1>8. ASSUME NEW bs
      PROVE  /\ (promoted \/ IsVisible(bs)) \in BOOLEAN
             /\ promoted => (promoted \/ IsVisible(bs))
             /\ (promoted \/ IsVisible(bs)) => options.stream
  BY <1>0, <1>7
<1>9. CASE CallFails
  <2>1. options' = options /\ StreamingOrJSONError(shown, promoted)
    BY <1>9 DEF CallFails
  <2> QED BY <1>0, <1>5, <2>1
<1>10. CASE Replied
  <2>1. options' = options
    BY <1>10 DEF Replied
  <2>2. PICK content \in Contents, tail \in {<<>>, Tail1} :
           LET all == content \o tail
               p == promoted \/ IsVisible(content)
           IN \/ IF EmptyVisibleEndTurn(all, p) THEN RetryEmpty(shown)
                   ELSE Finish(shown \o all, p \/ IsVisible(tail))
              \/ Finish(shown \o all, p \/ IsVisible(tail))
    BY <1>10 DEF Replied
  <2> DEFINE all == content \o tail
             p == promoted \/ IsVisible(content)
             q == p \/ IsVisible(tail)
             s == shown \o all
  <2>3. p \in BOOLEAN /\ (promoted => p) /\ (p => options.stream)
        /\ q \in BOOLEAN /\ (promoted => q) /\ (q => options.stream)
    BY <1>7, <1>8
  <2>4. (EmptyVisibleEndTurn(all, p) /\ RetryEmpty(shown)) \/ Finish(s, q)
    BY <2>2
  <2> HIDE DEF all, q, s
  <2>5. CASE Finish(s, q)
    BY <1>6, <2>1, <2>3, <2>5
  <2>6. CASE EmptyVisibleEndTurn(all, p) /\ RetryEmpty(shown)
    <3>1. ~p
      BY <2>6 DEF EmptyVisibleEndTurn
    <3>2. ~promoted
      BY <2>3, <3>1
    <3>3. CASE run = 1
      <4>1. UNCHANGED <<options, promoted, delivered, answer>>
        BY <2>1, <2>6, <3>3 DEF RetryEmpty
      <4> QED BY <1>0, <3>2, <4>1 DEF Gate
    <3>4. CASE run # 1
      <4>1. Over("json", <<>>, promoted)
        BY <2>6, <3>4 DEF RetryEmpty
      <4> QED BY <1>0, <1>4, <2>1, <3>2, <4>1
    <3> QED BY <3>3, <3>4
  <2> QED BY <2>4, <2>5, <2>6
<1>11. CASE Broken
  <2>1. options' = options
    BY <1>11 DEF Broken
  <2>2. PICK content \in Contents :
           LET s == shown \o content
               p == promoted \/ IsVisible(content)
           IN StreamingOrJSONError(s, p) \/ (p /\ Over("open", s, p))
    BY <1>11 DEF Broken
  <2> DEFINE s == shown \o content
             p == promoted \/ IsVisible(content)
  <2>3. p \in BOOLEAN /\ (promoted => p) /\ (p => options.stream)
    BY <1>8
  <2>4. StreamingOrJSONError(s, p) \/ Over("open", s, p)
    BY <2>2
  <2> HIDE DEF s, p
  <2>5. CASE StreamingOrJSONError(s, p)
    BY <1>5, <2>1, <2>3, <2>5
  <2>6. CASE Over("open", s, p)
    <3>1. "open" # "json"
      OBVIOUS
    <3> QED BY <1>4, <2>1, <2>3, <2>6, <3>1
  <2> QED BY <2>4, <2>5, <2>6
<1>12. CASE SearchedBadly
  <2>1. options' = options
    BY <1>12 DEF SearchedBadly
  <2>2. PICK content \in Contents : StreamingOrJSONError(shown \o content, promoted \/ IsVisible(content))
    BY <1>12 DEF SearchedBadly
  <2> DEFINE s == shown \o content
             p == promoted \/ IsVisible(content)
  <2>3. p \in BOOLEAN /\ (promoted => p) /\ (p => options.stream)
    BY <1>8
  <2>4. StreamingOrJSONError(s, p)
    BY <2>2
  <2> HIDE DEF s, p
  <2> QED BY <1>5, <2>1, <2>3, <2>4
<1>13. CASE Searched
  <2>1. options' = options
    BY <1>13 DEF Searched
  <2>2. (\E s : Finish(s, options.stream))
        \/ (promoted' = options.stream /\ delivered' = options.stream /\ UNCHANGED <<run, answer>>)
    <3>1. PICK content, tail, after, query : SearchedFor(content, tail, after, query)
      BY <1>13 DEF Searched
    <3>2. CASE round = MaxToolSearchRounds
      <4>1. \E s : Finish(s, options.stream)
        BY <3>1, <3>2 DEF SearchedFor
      <4> QED BY <4>1
    <3>3. CASE round # MaxToolSearchRounds
      BY <3>1, <3>3 DEF SearchedFor
    <3> QED BY <3>2, <3>3
  <2>3. CASE \E s : Finish(s, options.stream)
    BY <1>0, <1>6, <2>1, <2>3
  <2>4. CASE promoted' = options.stream /\ delivered' = options.stream /\ UNCHANGED <<run, answer>>
    BY <1>0, <2>1, <2>4 DEF Gate
  <2> QED BY <2>2, <2>3, <2>4
<1> QED BY <1>2, <1>3, <1>9, <1>10, <1>11, <1>12, <1>13 DEF Next

(* Once a client has received something of an answer there is no second    *)
(* run, and no error takes the answer's place (toolsearch.go               *)
(* writeStreamingOrJSONError, handler.go runToolSearch).                   *)
THEOREM AnswersOnce == Spec => AnsweredOnce
<1>1. Init => Gate
  BY GateInit
<1>2. Gate /\ [Next]_vars => Gate'
  BY GateStep
<1>3. Gate /\ [Next]_vars =>
        [(run' = 2 /\ run = 1) \/ (answer' = "json" /\ answer # "json") => ~delivered']_vars
  BY GateStep DEF Once
<1> QED BY <1>1, <1>2, <1>3, PTL DEF Spec, AnsweredOnce

=============================================================================
