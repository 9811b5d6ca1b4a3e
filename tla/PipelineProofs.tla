--------------------------- MODULE PipelineProofs ---------------------------
(***************************************************************************)
(* Safety of the pipeline for every number of threads and every n_block.   *)
(* The inductive invariant is IInv; the facts about one ring of blocks are *)
(* in DatabufProofs.                                                       *)
(***************************************************************************)
EXTENDS Pipeline, DatabufProofs

USE DEF Stage, Ring, Sink, HasIn, HasOut

LEMMA RingStages ==
    ASSUME NEW d \in Ring
    PROVE  d \in Stage /\ d + 1 \in Stage /\ HasOut(d) /\ HasIn(d + 1)
BY PipelineAssumption

LEMMA InitInv == Init => IInv
<1> SUFFICES ASSUME Init PROVE IInv
  OBVIOUS
<1>1. 0 \in Block /\ AllFree \in [Block -> {0, 1}] /\ 0 \in Item /\ 0 \in 0 .. MaxBoot
  BY NBlockAssumption, PipelineAssumption DEF Block, AllFree, Item
<1>2. TypeOK
  BY <1>1 DEF Init, TypeOK, PC
<1>3. \A d \in Ring : sem[d] = AllFree /\ iblk[d+1] = 0 /\ oblk[d] = 0
  BY <1>1, PipelineAssumption DEF Init
<1>4. \A d \in Ring : Depth(d) = 0
  BY <1>1, <1>3 DEF Depth, DepthOf, AllFree
<1>5. FilledWindow
  BY <1>1, <1>3, <1>4, DistFacts DEF FilledWindow, Window, Depth, AllFree
<1>6. Holding /\ Roles /\ Written
  BY PipelineAssumption DEF Init, Holding, Roles, Written, Reading, Writing
<1>7. Numbering
  BY <1>3, <1>4, PipelineAssumption DEF Init, Numbering, Copied, AllFree
<1> QED BY <1>2, <1>5, <1>6, <1>7 DEF IInv

(* A step that changes nothing but the run flag and where threads are, and *)
(* in which no thread gets hold of a block it did not wait for.            *)
LEMMA ControlStepInv ==
    ASSUME IInv,
           UNCHANGED <<sem, block, iblk, oblk, last, boot>>,
           run' \in BOOLEAN,
           pc' \in [Stage -> PC],
           \A s \in Stage : \/ pc'[s] \in {pc[s], "exited"}
                            \/ pc[s] = "top" /\ pc'[s] = "wait_filled" /\ HasIn(s)
                            \/ pc[s] = "top" /\ pc'[s] = "wait_free" /\ ~HasIn(s)
                            \/ /\ pc[s] = "wait_filled"
                               /\ sem[s-1][iblk[s]] = 1
                               /\ pc'[s] = IF HasOut(s) THEN "wait_free" ELSE "set_free"
                            \/ /\ pc[s] = "wait_free"
                               /\ sem[s][oblk[s]] = 0
                               /\ pc'[s] = "process"
    PROVE  IInv'
<1>1. TypeOK'
  BY DEF IInv, TypeOK
<1>2. FilledWindow'
  BY DEF IInv, FilledWindow
<1>3. Holding'
  BY DEF IInv, Holding, Reading, Writing
<1>4. Roles'
  BY PipelineAssumption DEF IInv, Roles
<1>5. Numbering'
  <2> SUFFICES ASSUME NEW d \in Ring, pc'[d+1] # "exited"
               PROVE  /\ last[d] = last[d+1] - Copied(d+1)' + Depth(d)
                      /\ \A b \in Block : sem[d][b] = 1 =>
                           block[d][b] = last[d+1] - Copied(d+1)' + 1 + Dist(iblk[d+1], b)
    BY DEF Numbering, Depth
  <2>1. d + 1 \in Stage /\ pc[d+1] # "exited"
    BY RingStages
  <2>2. Copied(d+1)' = Copied(d+1)
    BY <2>1 DEF Copied
  <2> QED BY <2>1, <2>2 DEF IInv, Numbering
<1>6. Written'
  BY DEF IInv, Written
<1> QED BY <1>1, <1>2, <1>3, <1>4, <1>5, <1>6 DEF IInv

(* The first thread or a filter fills the block it waited for.             *)
LEMMA ProcessInv ==
    ASSUME IInv, NEW s \in Stage, Process(s)
    PROVE  IInv'
<1> DEFINE o == oblk[s]
           i == block'[s][o]
<1>1. s \in Ring /\ o \in Block /\ sem[s][o] = 0
  BY PipelineAssumption DEF Process, IInv, TypeOK, Roles, Holding, Writing
<1>2. PICK item \in IF HasIn(s) THEN {block[s-1][iblk[s]]} ELSE {last[s] + 1} \cap Item :
         block' = [block EXCEPT ![s][o] = item]
  BY DEF Process
<1>3. item \in Item /\ item = last[s] + 1
  <2>1. CASE HasIn(s)
    <3>1. s - 1 \in Ring /\ (s - 1) + 1 = s /\ iblk[s] \in Block
      BY <2>1, <1>1, PipelineAssumption DEF IInv, TypeOK
    <3>2. Reading(s) /\ Copied(s) = 0 /\ pc[s] # "exited"
      BY <2>1 DEF Process, Reading, Copied
    <3>3. sem[s-1][iblk[s]] = 1 /\ Dist(iblk[s], iblk[s]) = 0
      BY <3>1, <3>2, DistFacts DEF IInv, Holding
    <3>4. block[s-1][iblk[s]] = last[s] - 0 + 1 + 0
      BY <3>1, <3>2, <3>3 DEF IInv, Numbering
    <3> QED BY <2>1, <1>2, <3>1, <3>4 DEF IInv, TypeOK, Item
  <2>2. CASE ~HasIn(s)
    BY <2>2, <1>2
  <2> QED BY <2>1, <2>2
<1>4. TypeOK'
  BY <1>1, <1>2, <1>3 DEF IInv, TypeOK, Process, Goto, PC
<1>5. FilledWindow'
  BY DEF IInv, FilledWindow, Process
<1>6. Holding'
  BY <1>1 DEF IInv, TypeOK, Holding, Reading, Writing, Process, Goto
<1>7. Roles'
  BY <1>1, PipelineAssumption DEF IInv, TypeOK, Roles, Process, Goto
<1>8. \A d \in Ring, b \in Block : sem[d][b] = 1 => block'[d][b] = block[d][b]
  BY <1>1, <1>2 DEF IInv, TypeOK
<1>9. \A t \in Stage : Copied(t)' = Copied(t) /\ (pc'[t] # "exited" => pc[t] # "exited")
  BY DEF IInv, TypeOK, Copied, Process, Goto
<1>10. \A d \in Ring : Depth(d)' = Depth(d)
  BY DEF Depth, Process
<1>11. Numbering'
  BY <1>8, <1>9, <1>10, RingStages DEF IInv, Numbering, Process
<1>12. Written'
  BY <1>1, <1>2, <1>3 DEF IInv, TypeOK, Written, Process, Goto
<1> QED BY <1>4, <1>5, <1>6, <1>7, <1>11, <1>12 DEF IInv

(* set_filled makes the window of the output databuf one block longer.     *)
LEMMA MarkFilledInv ==
    ASSUME IInv, NEW s \in Stage, MarkFilled(s)
    PROVE  /\ IInv'
           /\ s \in Ring
           /\ last'[s] = last[s] + 1
           /\ Depth(s) = Dist(iblk[s+1], oblk[s])
           /\ Depth(s)' = Depth(s) + 1
<1> DEFINE o == oblk[s]
<1>1. s \in Ring /\ s + 1 \in Stage /\ o \in Block /\ iblk[s+1] \in Block
  BY PipelineAssumption DEF MarkFilled, IInv, TypeOK, Roles
<1>2. sem[s] \in [Block -> {0, 1}] /\ sem[s][o] = 0 /\ Window(sem[s], iblk[s+1], o)
  <2>1. sem[s] \in [Block -> {0, 1}]
    BY <1>1 DEF IInv, TypeOK
  <2>2. Writing(s)
    BY <1>1, RingStages DEF MarkFilled, Writing
  <2>3. sem[s][o] = 0
    BY <2>2 DEF IInv, Holding
  <2>4. Window(sem[s], iblk[s+1], o)
    BY <1>1 DEF IInv, FilledWindow
  <2> QED BY <2>1, <2>3, <2>4
<1>3. sem'[s] = SetFilled(sem[s], o) /\ oblk'[s] = NextBlock(o)
  BY <1>1 DEF MarkFilled, IInv, TypeOK
<1>4. /\ Depth(s) = Dist(iblk[s+1], o)
      /\ Depth(s)' = Depth(s) + 1
      /\ Window(sem'[s], iblk[s+1], oblk'[s])
  BY <1>1, <1>2, <1>3, FillExtendsWindow DEF Depth, MarkFilled
<1>5. last' = [last EXCEPT ![s] = last[s] + 1] /\ last[s] + 1 \in Item
  <2>1. block[s][o] = last[s] + 1 /\ block[s][o] \in Item
    BY <1>1 DEF MarkFilled, IInv, Written, TypeOK
  <2> QED BY <2>1 DEF MarkFilled
<1>6. TypeOK'
  <2>1. SetFilled(sem[s], o) \in [Block -> {0, 1}]
    BY <1>1, <1>2 DEF SetFilled
  <2>2. NextBlock(o) \in Block
    BY <1>1, NextBlockType
  <2> QED BY <1>5, <2>1, <2>2 DEF IInv, TypeOK, MarkFilled, Goto, PC
<1>7. \A d \in Ring : d # s => sem'[d] = sem[d] /\ oblk'[d] = oblk[d]
  BY DEF MarkFilled, IInv, TypeOK
<1>8. FilledWindow'
  BY <1>1, <1>4, <1>7 DEF IInv, FilledWindow, MarkFilled
<1>9. Holding'
  <2> SUFFICES ASSUME NEW t \in Stage
               PROVE  /\ Reading(t)' => sem'[t-1][iblk[t]] = 1
                      /\ Writing(t)' => sem'[t][oblk'[t]] = 0
    BY DEF Holding, MarkFilled
  <2>1. CASE t = s
    <3>1. Reading(t)' => Reading(t) /\ t - 1 \in Ring /\ t - 1 # s
      BY <2>1, <1>1, PipelineAssumption DEF Reading, MarkFilled
    <3>2. ~Writing(t)'
      BY <2>1 DEF Writing, MarkFilled, Goto, IInv, TypeOK
    <3> QED BY <3>1, <3>2, <1>7 DEF IInv, Holding
  <2>2. CASE t # s
    <3>1. (Reading(t)' <=> Reading(t)) /\ (Writing(t)' <=> Writing(t))
      BY <2>2 DEF Reading, Writing, MarkFilled, Goto, IInv, TypeOK
    <3>2. Reading(t) => t - 1 \in Ring /\ iblk[t] \in Block
      BY PipelineAssumption DEF Reading, IInv, TypeOK
    <3>3. Reading(t) => sem[t-1][iblk[t]] = 1
      BY DEF IInv, Holding
    <3>4. Reading(t) => sem'[t-1][iblk[t]] = 1
      <4>1. CASE Reading(t) /\ t - 1 = s
        BY <4>1, <3>2, <3>3, <1>2, <1>3 DEF SetFilled
      <4>2. CASE Reading(t) /\ t - 1 # s
        BY <4>2, <3>2, <3>3, <1>7
      <4> QED BY <4>1, <4>2
    <3>5. Writing(t) => t \in Ring /\ sem[t][oblk[t]] = 0
      BY PipelineAssumption DEF Writing, IInv, Holding
    <3>6. Writing(t) => sem'[t][oblk'[t]] = 0
      BY <3>5, <2>2, <1>7
    <3> QED BY <3>1, <3>4, <3>6
  <2> QED BY <2>1, <2>2
<1>10. Roles'
  BY <1>1, PipelineAssumption DEF IInv, TypeOK, Roles, MarkFilled, Goto
<1>11. Numbering'
  <2> SUFFICES ASSUME NEW d \in Ring, pc'[d+1] # "exited"
               PROVE  /\ last'[d] = last'[d+1] - Copied(d+1)' + Depth(d)'
                      /\ \A b \in Block : sem'[d][b] = 1 =>
                           block[d][b] = last'[d+1] - Copied(d+1)' + 1 + Dist(iblk[d+1], b)
    BY DEF Numbering, MarkFilled
  <2>1. d \in Stage /\ d + 1 \in Stage /\ d + 1 # d /\ pc[d+1] # "exited"
    BY RingStages, PipelineAssumption DEF MarkFilled, Goto, IInv, TypeOK
  <2>2. /\ last[d] = last[d+1] - Copied(d+1) + Depth(d)
        /\ \A b \in Block : sem[d][b] = 1 =>
              block[d][b] = last[d+1] - Copied(d+1) + 1 + Dist(iblk[d+1], b)
    BY <2>1 DEF IInv, Numbering
  <2>3. \A t \in Stage : last[t] \in Int /\ Copied(t) \in {0, 1}
    BY PipelineAssumption DEF IInv, TypeOK, Item, Copied
  <2>4. CASE d = s
    <3>1. Copied(d+1)' = Copied(d+1) /\ last'[d+1] = last[d+1] /\ last'[d] = last[d] + 1
      BY <2>1, <2>4, <1>5 DEF Copied, MarkFilled, Goto, IInv, TypeOK
    <3>2. Depth(d) \in 0 .. NBlock
      BY <1>1, <1>2, <2>4, DepthType DEF Depth
    <3>3. \A b \in Block : b # o => sem'[d][b] = sem[d][b]
      BY <1>2, <1>3, <2>4 DEF SetFilled
    <3>4. block[d][o] = last[d] + 1
      BY <2>4, <1>1 DEF MarkFilled, IInv, Written
    <3>5. block[d][o] = last[d+1] - Copied(d+1) + 1 + Dist(iblk[d+1], o)
      BY <3>2, <3>4, <2>1, <2>2, <2>3, <2>4, <1>4
    <3>6. last[d] + 1 = last[d+1] - Copied(d+1) + (Depth(d) + 1)
      BY <3>2, <2>1, <2>2, <2>3
    <3> QED BY <3>1, <3>3, <3>5, <3>6, <2>2, <2>4, <1>4
  <2>5. CASE d + 1 = s
    <3>1. Copied(s) = 0 /\ Copied(s)' = 1 /\ last'[s] = last[s] + 1
      BY <2>5, <1>1, <1>5, PipelineAssumption DEF Copied, MarkFilled, Goto, IInv, TypeOK
    <3>2. last'[d] = last[d] /\ sem'[d] = sem[d] /\ Depth(d)' = Depth(d)
      BY <2>1, <2>5, <1>5, <1>7 DEF Depth, MarkFilled, IInv, TypeOK
    <3>3. last[s] - 0 = (last[s] + 1) - 1
      BY <2>3
    <3> QED BY <3>1, <3>2, <3>3, <2>2, <2>5
  <2>6. CASE d # s /\ d + 1 # s
    <3>1. Copied(d+1)' = Copied(d+1)
      BY <2>1, <2>6 DEF Copied, MarkFilled, Goto, IInv, TypeOK
    <3>2. last'[d] = last[d] /\ last'[d+1] = last[d+1]
      BY <2>1, <2>6, <1>5 DEF IInv, TypeOK
    <3>3. sem'[d] = sem[d] /\ Depth(d)' = Depth(d)
      BY <2>6, <1>7 DEF Depth, MarkFilled
    <3> QED BY <3>1, <3>2, <3>3, <2>2
  <2> QED BY <2>4, <2>5, <2>6
<1>12. Written'
  BY DEF IInv, TypeOK, Written, MarkFilled, Goto
<1> QED BY <1>1, <1>4, <1>5, <1>6, <1>8, <1>9, <1>10, <1>11, <1>12 DEF IInv, TypeOK

(* set_free makes the window of the input databuf one block shorter.       *)
LEMMA MarkFreeInv ==
    ASSUME IInv, NEW s \in Stage, MarkFree(s)
    PROVE  /\ IInv'
           /\ s - 1 \in Ring
           /\ sem[s-1][iblk[s]] = 1
           /\ last'[s] = last[s] + (IF s = Sink THEN 1 ELSE 0)
           /\ Depth(s-1)' = Depth(s-1) - 1
<1> DEFINE p == s - 1
           r == iblk[s]
<1>1. p \in Ring /\ p + 1 = s /\ p \in Stage /\ p # s /\ r \in Block /\ oblk[p] \in Block
  BY PipelineAssumption DEF MarkFree, IInv, TypeOK, Roles
<1>2. sem[p] \in [Block -> {0, 1}] /\ sem[p][r] = 1 /\ Window(sem[p], r, oblk[p])
  <2>1. Reading(s)
    BY <1>1, RingStages DEF MarkFree, Reading
  <2>2. sem[p][r] = 1
    BY <2>1 DEF IInv, Holding
  <2>3. sem[p] \in [Block -> {0, 1}]
    BY <1>1 DEF IInv, TypeOK
  <2>4. Window(sem[p], r, oblk[p])
    BY <1>1 DEF IInv, FilledWindow
  <2> QED BY <2>2, <2>3, <2>4
<1>3. sem'[p] = SetFree(sem[p], r) /\ iblk'[s] = NextBlock(r) /\ oblk' = oblk
  BY <1>1 DEF MarkFree, IInv, TypeOK
<1>4. Depth(p)' = Depth(p) - 1 /\ Window(sem'[p], iblk'[s], oblk[p])
  BY <1>1, <1>2, <1>3, FreeShrinksWindow DEF Depth
<1>5. \A d \in Ring : d # p => sem'[d] = sem[d] /\ iblk'[d+1] = iblk[d+1]
  BY <1>1 DEF MarkFree, IInv, TypeOK
<1>6. block[p][r] \in Item /\ (s = Sink => block[p][r] = last[s] + 1)
  <2>1. block[p][r] \in Item
    BY <1>1 DEF IInv, TypeOK
  <2>2. CASE s = Sink
    <3>1. Copied(s) = 0 /\ pc[s] # "exited" /\ Dist(r, r) = 0
      BY <2>2, <1>1, DistFacts DEF Copied, MarkFree
    <3>2. block[p][r] = last[p+1] - Copied(p+1) + 1 + Dist(iblk[p+1], r)
      BY <1>1, <1>2, <3>1 DEF IInv, Numbering
    <3> QED BY <2>1, <3>1, <3>2, <1>1, PipelineAssumption DEF IInv, TypeOK, Item
  <2> QED BY <2>1, <2>2
<1>7. last' = IF s = Sink THEN [last EXCEPT ![s] = last[s] + 1] ELSE last
  BY <1>6 DEF MarkFree
<1>8. TypeOK'
  <2>1. SetFree(sem[p], r) \in [Block -> {0, 1}]
    BY <1>1, <1>2 DEF SetFree
  <2>2. NextBlock(r) \in Block
    BY <1>1, NextBlockType
  <2>3. last' \in [Stage -> Item]
    BY <1>6 DEF MarkFree, IInv, TypeOK
  <2> QED BY <2>1, <2>2, <2>3 DEF IInv, TypeOK, MarkFree, Goto, PC
<1>9. FilledWindow'
  BY <1>1, <1>3, <1>4, <1>5 DEF IInv, FilledWindow
<1>10. Holding'
  <2> SUFFICES ASSUME NEW t \in Stage
               PROVE  /\ Reading(t)' => sem'[t-1][iblk'[t]] = 1
                      /\ Writing(t)' => sem'[t][oblk[t]] = 0
    BY <1>3 DEF Holding
  <2>1. CASE t = s
    BY <2>1 DEF Reading, Writing, MarkFree, Goto, IInv, TypeOK
  <2>2. CASE t # s
    <3>1. (Reading(t)' <=> Reading(t)) /\ (Writing(t)' <=> Writing(t))
      BY <2>2 DEF Reading, Writing, MarkFree, Goto, IInv, TypeOK
    <3>2. Reading(t) => /\ t - 1 \in Ring /\ t - 1 # p /\ (t - 1) + 1 = t
                        /\ sem[t-1][iblk[t]] = 1
      BY <2>2, PipelineAssumption DEF Reading, IInv, Holding
    <3>3. Reading(t) => sem'[t-1][iblk'[t]] = 1
      BY <3>2, <1>5
    <3>4. Writing(t) => t \in Ring /\ sem[t][oblk[t]] = 0 /\ oblk[t] \in Block
      BY PipelineAssumption DEF Writing, IInv, Holding, TypeOK
    <3>5. Writing(t) => sem'[t][oblk[t]] = 0
      <4>1. CASE Writing(t) /\ t = p
        BY <4>1, <3>4, <1>2, <1>3 DEF SetFree
      <4>2. CASE Writing(t) /\ t # p
        BY <4>2, <3>4, <1>5
      <4> QED BY <4>1, <4>2
    <3> QED BY <3>1, <3>3, <3>5
  <2> QED BY <2>1, <2>2
<1>11. Roles'
  BY <1>1, PipelineAssumption DEF IInv, TypeOK, Roles, MarkFree, Goto
<1>12. Numbering'
  <2> SUFFICES ASSUME NEW d \in Ring, pc'[d+1] # "exited"
               PROVE  /\ last'[d] = last'[d+1] - Copied(d+1)' + Depth(d)'
                      /\ \A b \in Block : sem'[d][b] = 1 =>
                           block[d][b] = last'[d+1] - Copied(d+1)' + 1 + Dist(iblk'[d+1], b)
    BY DEF Numbering, MarkFree
  <2>1. d \in Stage /\ d + 1 \in Stage /\ d + 1 # d /\ d # Sink /\ pc[d+1] # "exited"
    BY RingStages, PipelineAssumption DEF MarkFree, Goto, IInv, TypeOK
  <2>2. /\ last[d] = last[d+1] - Copied(d+1) + Depth(d)
        /\ \A b \in Block : sem[d][b] = 1 =>
              block[d][b] = last[d+1] - Copied(d+1) + 1 + Dist(iblk[d+1], b)
    BY <2>1 DEF IInv, Numbering
  <2>3. \A t \in Stage : last[t] \in Int /\ Copied(t) \in {0, 1}
    BY PipelineAssumption DEF IInv, TypeOK, Item, Copied
  <2>4. last'[d] = last[d]
    BY <2>1, <1>7 DEF IInv, TypeOK
  <2>5. CASE d = p
    <3>1. last'[s] - Copied(s)' = last[s] - Copied(s) + 1
      <4>1. Copied(s)' = 0
        BY DEF Copied, MarkFree, Goto, IInv, TypeOK
      <4>2. CASE s = Sink
        BY <4>1, <4>2, <2>3, <1>7 DEF Copied, IInv, TypeOK
      <4>3. CASE s # Sink
        <5>1. Copied(s) = 1 /\ last'[s] = last[s]
          BY <4>3, <1>7, PipelineAssumption DEF Copied, MarkFree
        <5> QED BY <4>1, <5>1, <2>3
      <4> QED BY <4>2, <4>3
    <3>2. Depth(d) \in 0 .. NBlock
      BY <1>1, <1>2, <2>5, DepthType DEF Depth
    <3>3. last[d] = (last[s] - Copied(s) + 1) + (Depth(d) - 1)
      BY <3>2, <2>2, <2>3, <2>5, <1>1
    <3>4. \A b \in Block : sem'[d][b] = 1 => b # r /\ sem[d][b] = 1
      BY <1>2, <1>3, <2>5 DEF SetFree
    <3>5. \A b \in Block : b # r => Dist(iblk'[s], b) = Dist(r, b) - 1 /\ Dist(r, b) \in Int
      BY <1>1, <1>3, DistFacts
    <3>6. \A b \in Block : sem'[d][b] = 1 =>
             block[d][b] = (last[s] - Copied(s) + 1) + 1 + Dist(iblk'[s], b)
      BY <3>4, <3>5, <2>2, <2>3, <2>5, <1>1
    <3> QED BY <3>1, <3>3, <3>6, <2>4, <2>5, <1>1, <1>4
  <2>6. CASE d # p
    <3>1. d + 1 # s
      BY <2>6, <1>1
    <3>2. last'[d+1] = last[d+1] /\ Copied(d+1)' = Copied(d+1)
      BY <3>1, <2>1, <1>7 DEF Copied, MarkFree, Goto, IInv, TypeOK
    <3>3. Depth(d)' = Depth(d) /\ sem'[d] = sem[d] /\ iblk'[d+1] = iblk[d+1]
      BY <2>6, <1>3, <1>5 DEF Depth
    <3> QED BY <3>2, <3>3, <2>2, <2>4
  <2> QED BY <2>5, <2>6
<1>13. Written'
  <2> SUFFICES ASSUME NEW t \in Stage, pc'[t] = "set_filled"
               PROVE  block[t][oblk[t]] = last'[t] + 1
    BY DEF Written, MarkFree
  <2>1. t # s /\ pc[t] = "set_filled"
    BY DEF MarkFree, Goto, IInv, TypeOK
  <2>2. last'[t] = last[t]
    BY <2>1, <1>7 DEF IInv, TypeOK
  <2> QED BY <2>1, <2>2 DEF IInv, Written
<1>14. last'[s] = last[s] + (IF s = Sink THEN 1 ELSE 0)
  BY <1>7, PipelineAssumption DEF IInv, TypeOK, Item
<1> QED BY <1>1, <1>2, <1>4, <1>8, <1>9, <1>10, <1>11, <1>12, <1>13, <1>14 DEF IInv

(* A new process finds the databufs empty, whatever the old one left.      *)
LEMMA RestartInv ==
    ASSUME IInv, Restart
    PROVE  IInv'
<1>1. 0 \in Block /\ AllFree \in [Block -> {0, 1}] /\ last[1] \in Item
  BY NBlockAssumption, PipelineAssumption DEF Block, AllFree, IInv, TypeOK
<1>2. TypeOK'
  BY <1>1, PipelineAssumption DEF Restart, IInv, TypeOK, PC
<1>3. \A d \in Ring : sem'[d] = AllFree /\ iblk'[d+1] = 0 /\ oblk'[d] = 0
  BY PipelineAssumption DEF Restart
<1>4. \A d \in Ring : Depth(d)' = 0
  BY <1>1, <1>3 DEF Depth, DepthOf, AllFree
<1>5. FilledWindow'
  BY <1>1, <1>3, <1>4, DistFacts DEF FilledWindow, Window, Depth, AllFree
<1>6. Holding' /\ Roles' /\ Written'
  BY PipelineAssumption DEF Restart, Holding, Roles, Written, Reading, Writing
<1>7. Numbering'
  <2> SUFFICES ASSUME NEW d \in Ring
               PROVE  /\ last'[d] = last'[d+1] - Copied(d+1)' + Depth(d)'
                      /\ \A b \in Block : sem'[d][b] # 1
    BY DEF Numbering
  <2>1. last'[d] = last[1] /\ last'[d+1] = last[1] /\ last[1] \in Int
    BY <1>1, PipelineAssumption DEF Restart, Item
  <2>2. Copied(d+1)' = 0
    BY PipelineAssumption DEF Copied, Restart
  <2> QED BY <2>1, <2>2, <1>3, <1>4 DEF AllFree
<1> QED BY <1>2, <1>5, <1>6, <1>7 DEF IInv

(* The steps that move one thread without touching data or semaphores.     *)
LEMMA WaitInv ==
    ASSUME IInv, NEW s \in Stage, WaitFilled(s) \/ WaitFree(s)
    PROVE  IInv'
<1>1. CASE WaitFilled(s)
  <2>1. PICK rv \in WaitFilledResults(sem[s-1], iblk[s]) :
           AfterWait(s, rv, IF HasOut(s) THEN "wait_free" ELSE "set_free")
    BY <1>1 DEF WaitFilled
  <2>2. s - 1 \in Ring /\ sem[s-1][iblk[s]] \in {0, 1}
    BY <1>1, PipelineAssumption DEF WaitFilled, IInv, TypeOK, Roles
  <2>3. \/ rv = "OK" /\ sem[s-1][iblk[s]] = 1
        \/ rv \in {"TIMEOUT", "ERR_SYS"}
    BY <2>2 DEF WaitFilledResults, WaitError
  <2>4. pc' = [pc EXCEPT ![s] = IF rv = "OK" THEN (IF HasOut(s) THEN "wait_free" ELSE "set_free")
                                ELSE IF rv = "TIMEOUT" THEN "wait_filled" ELSE "exited"]
    BY <2>1, <2>3, <1>1 DEF AfterWait, Goto, WaitFilled
  <2>5. pc' \in [Stage -> PC] /\ run' \in BOOLEAN
    BY <2>4, <1>1 DEF WaitFilled, IInv, TypeOK, PC
  <2>6. UNCHANGED <<sem, block, iblk, oblk, last, boot>> /\ pc[s] = "wait_filled"
    BY <1>1 DEF WaitFilled
  <2>7. \A t \in Stage : t # s => pc'[t] = pc[t]
    BY <2>4 DEF IInv, TypeOK
  <2>8. \/ pc'[s] \in {pc[s], "exited"}
        \/ /\ sem[s-1][iblk[s]] = 1
           /\ pc'[s] = IF HasOut(s) THEN "wait_free" ELSE "set_free"
    BY <2>3, <2>4, <2>6 DEF IInv, TypeOK
  <2> QED BY <2>5, <2>6, <2>7, <2>8, ControlStepInv
<1>2. CASE WaitFree(s)
  <2>1. PICK rv \in WaitFreeResults(sem[s], oblk[s]) : AfterWait(s, rv, "process")
    BY <1>2 DEF WaitFree
  <2>2. \/ rv = "OK" /\ sem[s][oblk[s]] = 0
        \/ rv \in {"TIMEOUT", "ERR_SYS"}
    BY DEF WaitFreeResults, WaitError
  <2>3. pc' = [pc EXCEPT ![s] = IF rv = "OK" THEN "process"
                                ELSE IF rv = "TIMEOUT" THEN "wait_free" ELSE "exited"]
    BY <2>1, <2>2, <1>2 DEF AfterWait, Goto, WaitFree
  <2>4. pc' \in [Stage -> PC] /\ run' \in BOOLEAN
    BY <2>3, <1>2 DEF WaitFree, IInv, TypeOK, PC
  <2>5. UNCHANGED <<sem, block, iblk, oblk, last, boot>> /\ pc[s] = "wait_free"
    BY <1>2 DEF WaitFree
  <2>6. \A t \in Stage : t # s => pc'[t] = pc[t]
    BY <2>3 DEF IInv, TypeOK
  <2>7. pc'[s] \in {pc[s], "exited"} \/ (sem[s][oblk[s]] = 0 /\ pc'[s] = "process")
    BY <2>2, <2>3, <2>5 DEF IInv, TypeOK
  <2> QED BY <2>4, <2>5, <2>6, <2>7, ControlStepInv
<1> QED BY <1>1, <1>2

LEMMA MoveInv ==
    ASSUME IInv, NEW s \in Stage, Enter(s) \/ Leave(s) \/ Return(s) \/ Cancel(s)
    PROVE  IInv'
<1>1. UNCHANGED <<sem, block, iblk, oblk, last, boot>> /\ run' \in BOOLEAN
  BY DEF Enter, Leave, Return, Cancel, IInv, TypeOK
<1>2. pc' \in [Stage -> PC]
  BY DEF Enter, Leave, Return, Cancel, Goto, IInv, TypeOK, PC
<1>3. \A t \in Stage : t # s => pc'[t] = pc[t]
  BY DEF Enter, Leave, Return, Cancel, Goto, IInv, TypeOK
<1>4. \/ pc'[s] = "exited"
      \/ pc[s] = "top" /\ pc'[s] = IF HasIn(s) THEN "wait_filled" ELSE "wait_free"
  BY DEF Enter, Leave, Return, Cancel, Goto, IInv, TypeOK
<1> QED BY <1>1, <1>2, <1>3, <1>4, ControlStepInv

LEMMA StepInv == IInv /\ [Next]_vars => IInv'
<1> SUFFICES ASSUME IInv, [Next]_vars PROVE IInv'
  OBVIOUS
<1>1. ASSUME NEW s \in Stage, ThreadStep(s) \/ Return(s)
      PROVE  IInv'
  BY <1>1, MoveInv, WaitInv, ProcessInv, MarkFilledInv, MarkFreeInv DEF ThreadStep
<1>2. CASE Signal
  BY <1>2, ControlStepInv DEF Signal, IInv, TypeOK
<1>3. CASE Kill
  BY <1>3, ControlStepInv DEF Kill, IInv, TypeOK, PC
<1>4. CASE Restart
  BY <1>4, RestartInv
<1>5. CASE UNCHANGED vars
  BY <1>5, ControlStepInv DEF vars, IInv, TypeOK
<1> QED BY <1>1, <1>2, <1>3, <1>4, <1>5 DEF Next

LEMMA Invariance == Spec => []IInv
BY InitInv, StepInv, PTL DEF Spec

(* Every variable keeps its type.                                          *)
THEOREM TypeCorrect == Spec => []TypeOK
<1>1. IInv => TypeOK
  BY DEF IInv
<1> QED BY <1>1, Invariance, PTL

(* The thread that fills a databuf and the thread that empties it never    *)
(* use the same block at the same time.                                    *)
THEOREM Exclusion == Spec => []ExclusiveBlocks
<1>1. IInv => ExclusiveBlocks
  <2> SUFFICES ASSUME IInv, NEW d \in Ring, Writing(d), Reading(d+1)
               PROVE  oblk[d] # iblk[d+1]
    BY DEF ExclusiveBlocks
  <2>1. d \in Stage /\ d + 1 \in Stage /\ (d + 1) - 1 = d
    BY PipelineAssumption
  <2>2. sem[d][oblk[d]] = 0 /\ sem[d][iblk[d+1]] = 1
    BY <2>1 DEF IInv, Holding
  <2> QED BY <2>2
<1> QED BY <1>1, Invariance, PTL

(* The filled blocks of a databuf are those between the two indices.       *)
THEOREM WindowKept == Spec => []FilledWindow
<1>1. IInv => FilledWindow
  BY DEF IInv
<1> QED BY <1>1, Invariance, PTL

-----------------------------------------------------------------------------
(* Which steps change the data and the history.                            *)
LEMMA QuietStep ==
    ASSUME Next, ~Restart,
           \A s \in Stage : ~Process(s) /\ ~MarkFilled(s) /\ ~MarkFree(s)
    PROVE  UNCHANGED <<sem, block, iblk, oblk, last, boot>>
BY DEF Next, ThreadStep, Enter, Leave, Return, WaitFilled, WaitFree, Cancel, Signal, Kill

(* No step writes into a block that stays filled.                          *)
THEOREM Untouched == Spec => FilledUntouched
<1> DEFINE Safe == \A d \in Ring, b \in Block :
                     sem[d][b] = 1 /\ sem'[d][b] = 1 => block'[d][b] = block[d][b]
<1>1. IInv /\ [Next]_vars => [Safe]_vars
  <2> SUFFICES ASSUME IInv, Next PROVE Safe
    OBVIOUS
  <2>1. CASE \E s \in Stage : Process(s)
    <3>1. PICK s \in Stage : Process(s)
      BY <2>1
    <3>2. s \in Ring /\ sem[s][oblk[s]] = 0
      BY <3>1, PipelineAssumption DEF Process, IInv, TypeOK, Roles, Holding, Writing
    <3>3. \A d \in Ring, b \in Block : d # s \/ b # oblk[s] => block'[d][b] = block[d][b]
      BY <3>1 DEF Process, IInv, TypeOK
    <3> QED BY <3>2, <3>3
  <2>2. CASE ~(\E s \in Stage : Process(s))
    <3>1. block' = block
      BY <2>2, QuietStep DEF Restart, MarkFilled, MarkFree
    <3> QED BY <3>1
  <2> QED BY <2>1, <2>2
<1> QED BY <1>1, Invariance, PTL DEF Spec, FilledUntouched

(* Every thread finishes every item exactly once and in order.             *)
THEOREM Ordered == Spec => InOrder
<1> DEFINE Safe == boot' = boot =>
                     \A s \in Stage : last'[s] = last[s] \/ last'[s] = last[s] + 1
<1>1. IInv /\ [Next]_vars => [Safe]_vars
  <2> SUFFICES ASSUME IInv, Next, boot' = boot
               PROVE  \A s \in Stage : last'[s] = last[s] \/ last'[s] = last[s] + 1
    OBVIOUS
  <2>1. ~Restart
    BY DEF Restart, IInv, TypeOK
  <2>2. CASE \E s \in Stage : MarkFilled(s)
    <3>1. PICK s \in Stage : MarkFilled(s)
      BY <2>2
    <3>2. last'[s] = last[s] + 1
      BY <3>1, MarkFilledInv
    <3>3. \A t \in Stage : t # s => last'[t] = last[t]
      BY <3>1 DEF MarkFilled, IInv, TypeOK
    <3> QED BY <3>2, <3>3
  <2>3. CASE \E s \in Stage : MarkFree(s)
    <3>1. PICK s \in Stage : MarkFree(s)
      BY <2>3
    <3>2. last'[s] = last[s] + (IF s = Sink THEN 1 ELSE 0)
      BY <3>1, MarkFreeInv
    <3>3. \A t \in Stage : t # s => last'[t] = last[t]
      BY <3>1 DEF MarkFree, IInv, TypeOK
    <3>4. last[s] \in Int
      BY PipelineAssumption DEF IInv, TypeOK, Item
    <3> QED BY <3>2, <3>3, <3>4
  <2>4. CASE \E s \in Stage : Process(s)
    BY <2>4 DEF Process
  <2> QED BY <2>1, <2>2, <2>3, <2>4, QuietStep
<1> QED BY <1>1, Invariance, PTL DEF Spec, InOrder

-----------------------------------------------------------------------------
(* The databufs implement the queues of BlockFifo.                         *)

(* The k-th block from r on.                                               *)
LEMMA SlotFacts ==
    ASSUME NEW r \in Block, NEW k \in 1 .. NBlock
    PROVE  /\ (r + k - 1) % NBlock \in Block
           /\ Dist(r, (r + k - 1) % NBlock) = k - 1
<1>1. CASE r + k - 1 < NBlock
  <2>1. (r + k - 1) % NBlock = r + k - 1
    BY <1>1, NBlockAssumption DEF Block
  <2> QED BY <2>1, <1>1, NBlockAssumption DEF Block, Dist
<1>2. CASE r + k - 1 >= NBlock
  <2>1. (r + k - 1) % NBlock = r + k - 1 - NBlock
    BY <1>2, NBlockAssumption DEF Block
  <2> QED BY <2>1, <1>2, NBlockAssumption DEF Block, Dist
<1> QED BY <1>1, <1>2, NBlockAssumption DEF Block

LEMMA SlotOfNext ==
    ASSUME NEW r \in Block, NEW k \in 1 .. NBlock - 1
    PROVE  (NextBlock(r) + k - 1) % NBlock = (r + (k + 1) - 1) % NBlock
<1>1. /\ NextBlock(r) \in Block /\ k \in 1 .. NBlock /\ k + 1 \in 1 .. NBlock
  BY NextBlockType, NBlockAssumption
<1> DEFINE a == (NextBlock(r) + k - 1) % NBlock
           b == (r + (k + 1) - 1) % NBlock
<1>2. a \in Block /\ b \in Block /\ Dist(NextBlock(r), a) = k - 1 /\ Dist(r, b) = k
  BY <1>1, SlotFacts
<1>3. b # r
  BY <1>2, DistFacts
<1>4. Dist(NextBlock(r), b) = k - 1
  BY <1>2, <1>3, DistFacts
<1> QED BY <1>1, <1>2, <1>4, DistInjective

LEMMA QueueType ==
    ASSUME IInv, NEW d \in Ring
    PROVE  /\ Depth(d) \in 0 .. NBlock
           /\ Queue(d) \in Seq(Item)
           /\ Len(Queue(d)) = Depth(d)
<1>1. d + 1 \in Stage /\ iblk[d+1] \in Block /\ oblk[d] \in Block
      /\ sem[d] \in [Block -> {0, 1}] /\ block[d] \in [Block -> Item]
  BY PipelineAssumption DEF IInv, TypeOK
<1>2. Depth(d) \in 0 .. NBlock
  BY <1>1, DepthType DEF Depth
<1>3. \A k \in 1 .. Depth(d) : block[d][(iblk[d+1] + k - 1) % NBlock] \in Item
  BY <1>1, <1>2, SlotFacts, NBlockAssumption
<1>4. Queue(d) \in [1 .. Depth(d) -> Item]
  BY <1>3 DEF Queue
<1> QED BY <1>2, <1>4, NBlockAssumption

(* A queue is unchanged when its filled blocks and the indices are.        *)
LEMMA QueueUnchanged ==
    ASSUME IInv, NEW d \in Ring,
           sem'[d] = sem[d], iblk'[d+1] = iblk[d+1], oblk'[d] = oblk[d],
           \A b \in Block : sem[d][b] = 1 => block'[d][b] = block[d][b]
    PROVE  Queue(d)' = Queue(d)
<1>1. Depth(d)' = Depth(d)
  BY DEF Depth
<1>2. Depth(d) \in 0 .. NBlock /\ iblk[d+1] \in Block
  BY QueueType, PipelineAssumption DEF IInv, TypeOK
<1>3. \A k \in 1 .. Depth(d) : sem[d][(iblk[d+1] + k - 1) % NBlock] = 1
                              /\ (iblk[d+1] + k - 1) % NBlock \in Block
  <2> SUFFICES ASSUME NEW k \in 1 .. Depth(d)
               PROVE  /\ sem[d][(iblk[d+1] + k - 1) % NBlock] = 1
                      /\ (iblk[d+1] + k - 1) % NBlock \in Block
    OBVIOUS
  <2>1. k \in 1 .. NBlock /\ k - 1 < Depth(d)
    BY <1>2, NBlockAssumption
  <2>2. /\ (iblk[d+1] + k - 1) % NBlock \in Block
        /\ Dist(iblk[d+1], (iblk[d+1] + k - 1) % NBlock) = k - 1
    BY <1>2, <2>1, SlotFacts
  <2> QED BY <2>1, <2>2 DEF IInv, FilledWindow, Window, Depth
<1> QED BY <1>1, <1>3 DEF Queue

(* set_filled appends the block it marks.                                  *)
LEMMA MarkFilledPuts ==
    ASSUME IInv, NEW s \in Stage, MarkFilled(s)
    PROVE  /\ s \in Ring
           /\ Len(Queue(s)) < NBlock
           /\ Queue(s)' = Append(Queue(s), block[s][oblk[s]])
<1> DEFINE n == Depth(s)
           r == iblk[s+1]
<1>1. /\ s \in Ring /\ IInv' /\ r \in Block /\ oblk[s] \in Block
      /\ n = Dist(r, oblk[s]) /\ Depth(s)' = n + 1
  BY MarkFilledInv, PipelineAssumption DEF IInv, TypeOK
<1>2. n \in 0 .. NBlock - 1 /\ n + 1 \in 1 .. NBlock
  BY <1>1, DistFacts, NBlockAssumption
<1>3. (r + (n + 1) - 1) % NBlock = oblk[s]
  BY <1>1, <1>2, SlotFacts, DistInjective
<1>4. Queue(s)' = [k \in 1 .. n + 1 |-> block[s][(r + k - 1) % NBlock]]
  BY <1>1 DEF Queue, MarkFilled
<1>5. Len(Queue(s)) = n /\ Queue(s) \in Seq(Item)
  BY <1>1, QueueType
<1>6. Append(Queue(s), block[s][oblk[s]]) =
         [k \in 1 .. n + 1 |-> IF k = n + 1 THEN block[s][oblk[s]] ELSE Queue(s)[k]]
  BY <1>5, <1>2
<1>7. \A k \in 1 .. n + 1 : k # n + 1 => Queue(s)[k] = block[s][(r + k - 1) % NBlock]
  BY <1>2 DEF Queue
<1>8. \A k \in 1 .. n + 1 : block[s][(r + k - 1) % NBlock] =
                              IF k = n + 1 THEN block[s][oblk[s]] ELSE Queue(s)[k]
  BY <1>3, <1>7
<1>9. Queue(s)' = Append(Queue(s), block[s][oblk[s]])
  BY <1>4, <1>6, <1>8
<1>10. Len(Queue(s)) < NBlock
  BY <1>2, <1>5, NBlockAssumption
<1> QED BY <1>1, <1>9, <1>10

(* set_free removes the oldest block.                                      *)
LEMMA MarkFreeGets ==
    ASSUME IInv, NEW s \in Stage, MarkFree(s)
    PROVE  /\ s - 1 \in Ring
           /\ Queue(s-1) # << >>
           /\ Queue(s-1)' = Tail(Queue(s-1))
<1> DEFINE p == s - 1
           n == Depth(p)
           r == iblk[s]
<1>1. /\ p \in Ring /\ p + 1 = s /\ IInv' /\ r \in Block /\ Depth(p)' = n - 1
      /\ iblk'[s] = NextBlock(r)
  <2>1. p \in Ring /\ IInv' /\ Depth(p)' = n - 1
    BY MarkFreeInv
  <2>2. p + 1 = s
    BY PipelineAssumption
  <2>3. r \in Block /\ iblk'[s] = NextBlock(r)
    BY DEF IInv, TypeOK, MarkFree
  <2> QED BY <2>1, <2>2, <2>3
<1>2. n \in 1 .. NBlock /\ Len(Queue(p)) = n /\ Queue(p) \in Seq(Item)
  <2>1. Depth(p)' \in 0 .. NBlock
    <3>1. /\ sem'[p] \in [Block -> {0, 1}] /\ iblk'[p+1] \in Block
          /\ oblk'[p] \in Block
      BY <1>1, PipelineAssumption DEF IInv, TypeOK
    <3> QED BY <3>1, DepthType DEF Depth
  <2> QED BY <2>1, <1>1, QueueType, NBlockAssumption
<1>3. Queue(p)' = [k \in 1 .. n - 1 |-> block[p][(NextBlock(r) + k - 1) % NBlock]]
  BY <1>1 DEF Queue, MarkFree
<1>4. \A k \in 1 .. n - 1 :
         block[p][(NextBlock(r) + k - 1) % NBlock] = Queue(p)[k+1]
  <2> SUFFICES ASSUME NEW k \in 1 .. n - 1
               PROVE  block[p][(NextBlock(r) + k - 1) % NBlock] = Queue(p)[k+1]
    OBVIOUS
  <2>1. k \in 1 .. NBlock - 1 /\ k + 1 \in 1 .. n
    BY <1>2, NBlockAssumption
  <2>2. (NextBlock(r) + k - 1) % NBlock = (r + (k + 1) - 1) % NBlock
    BY <2>1, <1>1, SlotOfNext
  <2>3. Queue(p)[k+1] = block[p][(r + (k + 1) - 1) % NBlock]
    BY <2>1, <1>1 DEF Queue
  <2> QED BY <2>2, <2>3
<1>5. Tail(Queue(p)) = [k \in 1 .. n - 1 |-> Queue(p)[k+1]]
  BY <1>2
<1>6. Queue(p)' = Tail(Queue(p))
  BY <1>3, <1>4, <1>5
<1>7. Queue(p) # << >>
  BY <1>2
<1> QED BY <1>1, <1>6, <1>7

(* The pipeline implements the queues.                                     *)
THEOREM Refinement == Spec => DatabufsAreFifos
<1> DEFINE q == [d \in Ring |-> Queue(d)]
           empty == [d \in Ring |-> << >>]
<1>1. Init => Fifo!Init
  <2> SUFFICES ASSUME Init PROVE q = empty
    BY DEF Fifo!Init
  <2>1. \A d \in Ring : Depth(d) = 0
    BY NBlockAssumption, PipelineAssumption DEF Init, Depth, DepthOf, AllFree, Block
  <2>2. \A d \in Ring : Queue(d) = << >>
    BY <2>1 DEF Queue
  <2> QED BY <2>2
<1>2. IInv /\ [Next]_vars => [Fifo!Next]_q
  <2> SUFFICES ASSUME IInv, [Next]_vars PROVE Fifo!Next \/ q' = q
    OBVIOUS
  <2>1. ASSUME NEW s \in Stage, MarkFilled(s) PROVE Fifo!Next
    <3>1. /\ s \in Ring /\ Len(q[s]) < NBlock
          /\ Queue(s)' = Append(q[s], block[s][oblk[s]])
          /\ block[s][oblk[s]] \in Item
      BY <2>1, MarkFilledPuts DEF IInv, TypeOK
    <3>2. \A d \in Ring : d # s => Queue(d)' = Queue(d)
      <4> SUFFICES ASSUME NEW d \in Ring, d # s PROVE Queue(d)' = Queue(d)
        OBVIOUS
      <4>1. sem'[d] = sem[d] /\ oblk'[d] = oblk[d] /\ iblk' = iblk /\ block' = block
        BY <2>1 DEF MarkFilled, IInv, TypeOK
      <4> QED BY <4>1, QueueUnchanged
    <3>3. q' = [q EXCEPT ![s] = Append(@, block[s][oblk[s]])]
      BY <3>1, <3>2
    <3>4. Fifo!Put(s, block[s][oblk[s]])
      BY <3>1, <3>3 DEF Fifo!Put
    <3> QED BY <3>1, <3>4 DEF Fifo!Next
  <2>2. ASSUME NEW s \in Stage, MarkFree(s) PROVE Fifo!Next
    <3>1. /\ s - 1 \in Ring /\ q[s-1] # << >> /\ Queue(s-1)' = Tail(q[s-1])
      BY <2>2, MarkFreeGets
    <3>2. \A d \in Ring : d # s - 1 => Queue(d)' = Queue(d)
      <4> SUFFICES ASSUME NEW d \in Ring, d # s - 1 PROVE Queue(d)' = Queue(d)
        OBVIOUS
      <4>1. /\ sem'[d] = sem[d] /\ iblk'[d+1] = iblk[d+1]
            /\ oblk' = oblk /\ block' = block
        BY <2>2, <3>1 DEF MarkFree, IInv, TypeOK
      <4> QED BY <4>1, QueueUnchanged
    <3>3. q' = [q EXCEPT ![s-1] = Tail(@)]
      BY <3>1, <3>2
    <3>4. Fifo!Get(s-1)
      BY <3>1, <3>3 DEF Fifo!Get
    <3> QED BY <3>1, <3>4 DEF Fifo!Next
  <2>3. CASE Restart
    <3>1. \A d \in Ring : Depth(d)' = 0
      BY <2>3, NBlockAssumption, PipelineAssumption DEF Restart, Depth, DepthOf, AllFree, Block
    <3>2. \A d \in Ring : Queue(d)' = << >>
      BY <3>1 DEF Queue
    <3>3. q' = empty
      BY <3>2
    <3> QED BY <3>3 DEF Fifo!Next, Fifo!Flush
  <2>4. ASSUME NEW s \in Stage, Process(s) PROVE q' = q
    <3>1. s \in Ring /\ sem[s][oblk[s]] = 0
      BY <2>4, PipelineAssumption DEF Process, IInv, TypeOK, Roles, Holding, Writing
    <3>2. \A d \in Ring, b \in Block : sem[d][b] = 1 => block'[d][b] = block[d][b]
      BY <2>4, <3>1 DEF Process, IInv, TypeOK
    <3>3. \A d \in Ring : Queue(d)' = Queue(d)
      BY <2>4, <3>2, QueueUnchanged DEF Process
    <3> QED BY <3>3
  <2>5. CASE UNCHANGED <<sem, block, iblk, oblk>>
    BY <2>5 DEF Queue, Depth
  <2>6. CASE /\ Next /\ ~Restart
             /\ \A s \in Stage : ~Process(s) /\ ~MarkFilled(s) /\ ~MarkFree(s)
    BY <2>5, <2>6, QuietStep
  <2> QED BY <2>1, <2>2, <2>3, <2>4, <2>5, <2>6 DEF vars
<1> QED BY <1>1, <1>2, Invariance, PTL DEF Spec, DatabufsAreFifos, Fifo!Spec
=============================================================================
