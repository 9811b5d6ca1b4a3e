--------------------------- MODULE DatabufProofs ---------------------------
(***************************************************************************)
(* Facts about the ring of blocks, for every n_block: the remainder in     *)
(* NextBlock, distances along the ring, and what SetFilled at the writer's *)
(* block and SetFree at the reader's do to the window of filled blocks.    *)
(***************************************************************************)
EXTENDS Databuf, TLAPS

LEMMA NextBlockWraps ==
    ASSUME NEW b \in Block
    PROVE  NextBlock(b) = IF b = NBlock - 1 THEN 0 ELSE b + 1
<1>1. CASE b = NBlock - 1
  BY <1>1, NBlockAssumption DEF NextBlock, Block
<1>2. CASE b # NBlock - 1
  BY <1>2, NBlockAssumption DEF NextBlock, Block
<1> QED BY <1>1, <1>2

LEMMA NextBlockType ==
    ASSUME NEW b \in Block
    PROVE  NextBlock(b) \in Block
BY NextBlockWraps, NBlockAssumption DEF Block

LEMMA DistFacts ==
    ASSUME NEW r \in Block, NEW b \in Block
    PROVE  /\ Dist(r, b) \in 0 .. NBlock - 1
           /\ Dist(r, b) = 0 <=> b = r
           /\ Dist(NextBlock(r), b) = IF b = r THEN NBlock - 1 ELSE Dist(r, b) - 1
           /\ NextBlock(b) = r => Dist(r, b) = NBlock - 1
           /\ NextBlock(b) # r => Dist(r, NextBlock(b)) = Dist(r, b) + 1
BY NextBlockWraps, NBlockAssumption DEF Dist, Block

LEMMA DistInjective ==
    ASSUME NEW r \in Block, NEW b \in Block, NEW c \in Block, Dist(r, b) = Dist(r, c)
    PROVE  b = c
BY NBlockAssumption DEF Dist, Block

LEMMA DepthType ==
    ASSUME NEW sv \in [Block -> {0, 1}], NEW r \in Block, NEW w \in Block
    PROVE  DepthOf(sv, r, w) \in 0 .. NBlock
BY DistFacts, NBlockAssumption DEF DepthOf

(* Filling the writer's block, when it is free, and stepping to the next   *)
(* one keeps the window and makes it one block longer.                     *)
LEMMA FillExtendsWindow ==
    ASSUME NEW sv \in [Block -> {0, 1}], NEW r \in Block, NEW w \in Block,
           Window(sv, r, w), sv[w] = 0
    PROVE  /\ DepthOf(sv, r, w) = Dist(r, w)
           /\ DepthOf(SetFilled(sv, w), r, NextBlock(w)) = DepthOf(sv, r, w) + 1
           /\ Window(SetFilled(sv, w), r, NextBlock(w))
<1> DEFINE sw == SetFilled(sv, w)
           nw == NextBlock(w)
           n  == Dist(r, w)
<1>1. DepthOf(sv, r, w) = n
  BY DistFacts DEF DepthOf, Window
<1>2. sw[r] = 1 /\ sw[w] = 1 /\ \A b \in Block : b # w => sw[b] = sv[b]
  <2>1. r = w \/ sv[r] = 1
    BY DEF Window
  <2> QED BY <2>1 DEF SetFilled
<1>3. DepthOf(sw, r, nw) = n + 1
  <2>1. CASE nw = r
    BY <2>1, <1>2, DistFacts, NBlockAssumption DEF DepthOf
  <2>2. CASE nw # r
    BY <2>2, <1>2, DistFacts DEF DepthOf
  <2> QED BY <2>1, <2>2
<1>4. \A b \in Block : sw[b] = 1 <=> Dist(r, b) < n + 1
  <2> SUFFICES ASSUME NEW b \in Block
               PROVE  sw[b] = 1 <=> Dist(r, b) < n + 1
    OBVIOUS
  <2>1. CASE b = w
    BY <2>1, <1>2, DistFacts DEF Block
  <2>2. CASE b # w
    <3>1. sv[b] = 1 <=> Dist(r, b) < n
      BY <1>1 DEF Window
    <3>2. Dist(r, b) # n
      BY <2>2, DistInjective
    <3> QED BY <3>1, <3>2, <2>2, <1>2, DistFacts
  <2> QED BY <2>1, <2>2
<1>5. sw[r] # 0
  BY <1>2
<1> QED BY <1>1, <1>3, <1>4, <1>5 DEF Window

(* Freeing the reader's block, when it is filled, and stepping to the next *)
(* one keeps the window and makes it one block shorter.                    *)
LEMMA FreeShrinksWindow ==
    ASSUME NEW sv \in [Block -> {0, 1}], NEW r \in Block, NEW w \in Block,
           Window(sv, r, w), sv[r] = 1
    PROVE  /\ DepthOf(SetFree(sv, r), NextBlock(r), w) = DepthOf(sv, r, w) - 1
           /\ Window(SetFree(sv, r), NextBlock(r), w)
<1> DEFINE sf == SetFree(sv, r)
           nr == NextBlock(r)
           n  == DepthOf(sv, r, w)
<1>1. nr \in Block /\ n \in 1 .. NBlock
  BY NextBlockType, DistFacts, NBlockAssumption DEF DepthOf
<1>2. sf[r] = 0 /\ sf \in [Block -> {0, 1}] /\ \A b \in Block : b # r => sf[b] = sv[b]
  BY DEF SetFree
<1>3. \A b \in Block : sf[b] = 1 <=> Dist(nr, b) < n - 1
  <2> SUFFICES ASSUME NEW b \in Block
               PROVE  sf[b] = 1 <=> Dist(nr, b) < n - 1
    OBVIOUS
  <2>1. CASE b = r
    BY <2>1, <1>1, <1>2, DistFacts, NBlockAssumption
  <2>2. CASE b # r
    <3>1. Dist(nr, b) = Dist(r, b) - 1
      BY <2>2, DistFacts
    <3>2. sv[b] = 1 <=> Dist(r, b) < n
      BY DEF Window
    <3> QED BY <3>1, <3>2, <2>2, <1>1, <1>2, DistFacts
  <2> QED BY <2>1, <2>2
<1>4. Dist(nr, nr) = 0
  BY <1>1, DistFacts
<1>5. sf[nr] = 1 <=> 0 < n - 1
  BY <1>1, <1>3, <1>4
<1>6. CASE n = 1
  <2>1. w = nr
    <3>1. CASE NBlock = 1
      BY <3>1, <1>1 DEF Block
    <3>2. CASE NBlock # 1
      <4>1. w # r /\ Dist(r, w) = 1
        BY <3>2, <1>6 DEF DepthOf
      <4>2. Dist(nr, w) = 0
        BY <4>1, DistFacts
      <4> QED BY <4>2, <1>1, DistFacts
    <3> QED BY <3>1, <3>2
  <2>2. sf[nr] = 0
    BY <1>1, <1>2, <1>5, <1>6
  <2>3. DepthOf(sf, nr, w) = n - 1
    BY <2>2, <1>6 DEF DepthOf
  <2> QED BY <2>1, <2>3, <1>3 DEF Window
<1>7. CASE n # 1
  <2>1. sf[nr] = 1
    BY <1>1, <1>5, <1>7
  <2>2. DepthOf(sf, nr, w) = n - 1
    <3>1. CASE w = r
      <4>1. n = NBlock /\ nr # r
        BY <3>1, <1>2, <2>1 DEF DepthOf
      <4>2. Dist(nr, w) = NBlock - 1
        BY <3>1, DistFacts
      <4> QED BY <3>1, <4>1, <4>2, <2>1 DEF DepthOf
    <3>2. CASE w # r
      <4>1. n = Dist(r, w) /\ Dist(nr, w) = n - 1
        BY <3>2, DistFacts DEF DepthOf
      <4>2. w # nr
        BY <4>1, <1>4, <1>7, <1>1
      <4> QED BY <4>1, <4>2, <2>1 DEF DepthOf
    <3> QED BY <3>1, <3>2
  <2> QED BY <2>1, <2>2, <1>3 DEF Window
<1> QED BY <1>6, <1>7
=============================================================================
