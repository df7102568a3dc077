----------------------------- MODULE FlowProofs -----------------------------
(***************************************************************************)
(* Proofs that the dataflow components neither repeat, nor reorder, nor    *)
(* lose messages, for any edges, budgets and bounds.  What was sent and    *)
(* what is held are treated as values (out, kept): a few lemmas say what   *)
(* sending and holding an output do to them, and each step of a component  *)
(* is one of those.                                                        *)
(***************************************************************************)
EXTENDS ComponentProofs, SequenceTheorems

-----------------------------------------------------------------------------
(* The messages on their way.  An output is <<in-edge, number, part>>.     *)

Flows == IsDataflow /\ kind # Count

Msg == InPorts \X Int \X Int
Before(x, y) == x[1] = y[1] => x[2] < y[2] \/ (x[2] = y[2] /\ x[3] < y[3])

\* What was sent over each out-edge, and up to which number the messages of
\* each in-edge were taken (the ticks of Cron: sent).
Out == [q \in OutPorts |-> OutOf(q)]
Mark == [p \in InPorts |->
           IF kind.steps = "tick" THEN branch - 1 ELSE sent[p] - Len(inq[p])]

\* No output is on two out-edges or twice on one, is held twice, or is both
\* sent and held.
Distinct(out, kept) ==
    /\ \A q, r \in OutPorts : \A i \in 1..Len(out[q]), j \in 1..Len(out[r]) :
           out[q][i] = out[r][j] => q = r /\ i = j
    /\ \A i, j \in 1..Len(kept) : kept[i][2] = kept[j][2] => i = j
    /\ \A q \in OutPorts : \A i \in 1..Len(out[q]), j \in 1..Len(kept) : out[q][i] # kept[j][2]

\* Every output is made of a message that was taken.
Taken(out, kept, mark) ==
    /\ \A q \in OutPorts : \A i \in 1..Len(out[q]) : out[q][i][2] <= mark[out[q][i][1]]
    /\ \A i \in 1..Len(kept) : kept[i][2][2] <= mark[kept[i][2][1]]

\* Outputs are sent, and held, in the order of their messages.
Ordered(out, kept) ==
    /\ \A q \in OutPorts : \A i, j \in 1..Len(out[q]) : i < j => Before(out[q][i], out[q][j])
    /\ \A i, j \in 1..Len(kept) : i < j => Before(kept[i][2], kept[j][2])
    /\ \A q \in OutPorts : \A i \in 1..Len(out[q]), j \in 1..Len(kept) :
           Before(out[q][i], kept[j][2])

\* The outputs still to send of the message last taken follow all that were sent.
Later(items, out, mark) ==
    /\ \A i \in 1..Len(items) : items[i][1] = 1 /\ items[i][2] = mark[1]
    /\ \A i, j \in 1..Len(items) : i < j => items[i][3] < items[j][3]
    /\ \A q \in OutPorts : \A i \in 1..Len(out[q]), j \in 1..Len(items) :
           out[q][i][1] = 1 /\ out[q][i][2] = mark[1] => out[q][i][3] < items[j][3]

\* The in-edges hold the messages they were given last, by number.
Numbered(p) ==
    /\ Len(inq[p]) <= sent[p]
    /\ \A j \in 1..Len(inq[p]) : inq[p][j] = sent[p] - Len(inq[p]) + j

InputInv ==
    Flows =>
        /\ sent \in [InPorts -> Nat] /\ inq \in [InPorts -> Seq(Int)]
        /\ \A p \in InPorts : Numbered(p)
        /\ open \subseteq InPorts
        /\ port = 1 \/ port \in kind.inports

\* What was sent and what is held are vectors of outputs; only the components
\* that keep a refused message, and Delay, hold any.
OutputInv ==
    Flows =>
        /\ outq \in [OutPorts -> Seq(Msg)] /\ delivered \in [OutPorts -> Seq(Msg)]
        /\ pending \in Seq(OutPorts \X Msg)
        /\ kind \notin Keepers \cup {Delay} => pending = <<>>
        /\ line_iter # <<>> => line_iter[1] \in Seq(Msg)
        /\ branch \in Nat

\* A component that ended runs no more, and the phases of Delay, Cron, Count and
\* of an iterator belong to them.
StepsInv ==
    IsDataflow =>
        /\ ended \in {"no", "finished", "panicked"} /\ (ended # "no" => phase = "retired")
        /\ phase \in {"idle", "retired", "config", "flush", "work", "emit", "release", "take", "tick",
                      "report", "eof"}
        /\ phase \in {"release", "take"} => kind = Delay
        /\ phase = "tick" => kind.steps = "tick"
        /\ phase = "report" => kind.full = "report"
        /\ phase = "emit" => line_iter # <<>> /\ kind.steps \in {"several", "lines"}

\* All outputs are distinct and made of taken messages; those of a component
\* without a pending queue of its own are in order, what its iterator has left too.
FlowInv ==
    Flows =>
        /\ Distinct(Out, pending)
        /\ Taken(Out, pending, Mark)
        /\ kind \notin Keepers => Ordered(Out, pending)
        /\ kind.steps \in {"several", "lines"} /\ line_iter # <<>> => Later(line_iter[1], Out, Mark)

\* The first n messages of the first in-edge were sent or are held, and a node
\* that finished with a clean queue holds none.
Kept(out, kept, n) ==
    \A m \in 1..n :
       \/ \E q \in OutPorts : \E i \in 1..Len(out[q]) : out[q][i] = <<1, m, 1>>
       \/ \E i \in 1..Len(kept) : kept[i][2] = <<1, m, 1>>

KeptInv ==
    kind \in Keepers \cup {Delay} /\ ended # "panicked"
      /\ (ended = "finished" => kind.eof = "clean") =>
        /\ Kept(Out, pending, Mark[1]) /\ (ended = "finished" => pending = <<>>)

-----------------------------------------------------------------------------
(* Sending an output over an out-edge, and holding one.                    *)

Outs == [OutPorts -> Seq(Msg)]
Helds == Seq(OutPorts \X Msg)
Marks == [InPorts -> Int]

\* The out-edges with one more output on one of them.
Sending(out, q, x) == [out EXCEPT ![q] = Append(out[q], x)]

\* Where the outputs are after one more was sent.
LEMMA SendingAt ==
    ASSUME NEW out \in Outs, NEW q \in OutPorts, NEW x \in Msg
    PROVE  /\ Sending(out, q, x) \in Outs
           /\ \A r \in OutPorts :
                /\ Len(out[r]) \in Nat
                /\ Len(Sending(out, q, x)[r]) = IF r = q THEN Len(out[r]) + 1 ELSE Len(out[r])
                /\ \A i \in 1..Len(out[r]) : Sending(out, q, x)[r][i] = out[r][i] /\ out[r][i] \in Msg
           /\ Sending(out, q, x)[q][Len(out[q]) + 1] = x
<1>1. \A r \in OutPorts : out[r] \in Seq(Msg)  BY DEF Outs
<1>2. \A r \in OutPorts : Sending(out, q, x)[r] = IF r = q THEN Append(out[q], x) ELSE out[r]
  BY DEF Outs, Sending
<1>3. Append(out[q], x) \in Seq(Msg)  BY <1>1
<1>4. Sending(out, q, x) \in Outs
  BY <1>3 DEF Outs, Sending
<1>5. ASSUME NEW r \in OutPorts
      PROVE  /\ Len(out[r]) \in Nat
             /\ Len(Sending(out, q, x)[r]) = IF r = q THEN Len(out[r]) + 1 ELSE Len(out[r])
             /\ \A i \in 1..Len(out[r]) : Sending(out, q, x)[r][i] = out[r][i] /\ out[r][i] \in Msg
  <2>1. out[r] \in Seq(Msg)  BY <1>1
  <2>2. Len(out[r]) \in Nat /\ \A i \in 1..Len(out[r]) : out[r][i] \in Msg
    BY <2>1, LenProperties, ElementOfSeq
  <2>3. CASE r = q
    <3>1. Sending(out, q, x)[r] = Append(out[r], x)  BY <1>2, <2>3
    <3>. QED  BY <2>1, <2>2, <2>3, <3>1, AppendProperties
  <2>4. CASE r # q  BY <1>2, <2>2, <2>4
  <2>. QED  BY <2>3, <2>4
<1>6. Sending(out, q, x)[q][Len(out[q]) + 1] = x
  <2>1. out[q] \in Seq(Msg) /\ Sending(out, q, x)[q] = Append(out[q], x)  BY <1>1, <1>2
  <2>. QED  BY <2>1, AppendProperties
<1>. QED  BY <1>4, <1>5, <1>6

\* Where the held outputs are after one more was added.
LEMMA HoldingAt ==
    ASSUME NEW kept \in Helds, NEW q \in OutPorts, NEW x \in Msg
    PROVE  /\ Append(kept, <<q, x>>) \in Helds
           /\ Len(kept) \in Nat /\ Len(Append(kept, <<q, x>>)) = Len(kept) + 1
           /\ \A i \in 1..Len(kept) :
                 Append(kept, <<q, x>>)[i] = kept[i] /\ kept[i] \in OutPorts \X Msg
           /\ Append(kept, <<q, x>>)[Len(kept) + 1] = <<q, x>>
<1>1. <<q, x>> \in OutPorts \X Msg  OBVIOUS
<1>. QED  BY <1>1, AppendProperties, ElementOfSeq, LenProperties DEF Helds

\* And after the first was taken.
LEMMA RestAt ==
    ASSUME NEW kept \in Helds, kept # <<>>
    PROVE  /\ Tail(kept) \in Helds /\ Len(kept) \in Nat \ {0} /\ Len(Tail(kept)) = Len(kept) - 1
           /\ \A i \in 1..Len(Tail(kept)) : Tail(kept)[i] = kept[i + 1]
           /\ \A i \in 1..Len(kept) : kept[i] \in OutPorts \X Msg
           /\ kept[1][1] \in OutPorts /\ kept[1][2] \in Msg
<1>1. Len(kept) \in Nat \ {0}  BY EmptySeq DEF Helds
<1>2. \A i \in 1..Len(kept) : kept[i] \in OutPorts \X Msg  BY ElementOfSeq DEF Helds
<1>3. kept[1] \in OutPorts \X Msg  BY <1>1, <1>2
<1>. QED  BY <1>1, <1>2, <1>3, HeadTailProperties DEF Helds

\* An output of a message that was not taken before is a new one.
Fresh(x, mark) == x[2] > mark[x[1]]

\* The three parts of an output.
LEMMA MsgParts == ASSUME NEW x \in Msg PROVE x[1] \in InPorts /\ x[2] \in Int /\ x[3] \in Int
BY DEF Msg

\* It follows everything sent or held, and is none of that.
LEMMA FreshFollows ==
    ASSUME NEW out \in Outs, NEW kept \in Helds, NEW mark \in Marks, NEW x \in Msg,
           Taken(out, kept, mark), Fresh(x, mark)
    PROVE  /\ \A q \in OutPorts : \A i \in 1..Len(out[q]) : out[q][i] # x /\ Before(out[q][i], x)
           /\ \A i \in 1..Len(kept) : kept[i][2] # x /\ Before(kept[i][2], x)
<1>1. mark[x[1]] \in Int /\ x[2] \in Int  BY MsgParts DEF Marks
<1>2. ASSUME NEW y \in Msg, y[2] <= mark[y[1]] PROVE y # x /\ Before(y, x)
  <2>1. mark[y[1]] \in Int /\ y[2] \in Int  BY MsgParts DEF Marks
  <2>. QED  BY <1>1, <1>2, <2>1 DEF Before, Fresh
<1>3. \A q \in OutPorts : \A i \in 1..Len(out[q]) : out[q][i] \in Msg  BY DEF Outs
<1>4. \A i \in 1..Len(kept) : kept[i][2] \in Msg
  <2>1. \A i \in 1..Len(kept) : kept[i] \in OutPorts \X Msg  BY ElementOfSeq DEF Helds
  <2>. QED  BY <2>1
<1>. QED  BY <1>2, <1>3, <1>4 DEF Taken

\* Sending a new output keeps all outputs distinct.
LEMMA DistinctSending ==
    ASSUME NEW out \in Outs, NEW kept, NEW q \in OutPorts, NEW x \in Msg, Distinct(out, kept),
           \A r \in OutPorts : \A i \in 1..Len(out[r]) : out[r][i] # x,
           \A i \in 1..Len(kept) : kept[i][2] # x
    PROVE  Distinct(Sending(out, q, x), kept)
<1> DEFINE new == Sending(out, q, x)
<1>1. /\ \A r \in OutPorts :
            /\ Len(out[r]) \in Nat
            /\ Len(new[r]) = IF r = q THEN Len(out[r]) + 1 ELSE Len(out[r])
            /\ \A i \in 1..Len(out[r]) : new[r][i] = out[r][i] /\ out[r][i] \in Msg
      /\ new[q][Len(out[q]) + 1] = x
  BY SendingAt
<1> HIDE DEF new
<1>2. ASSUME NEW r \in OutPorts, NEW i \in 1..Len(new[r])
      PROVE  \/ i \in 1..Len(out[r]) /\ new[r][i] = out[r][i]
             \/ r = q /\ i = Len(out[q]) + 1 /\ new[r][i] = x
  BY <1>1
<1>3. ASSUME NEW r \in OutPorts, NEW s \in OutPorts, NEW i \in 1..Len(new[r]), NEW j \in 1..Len(new[s]),
             new[r][i] = new[s][j]
      PROVE  r = s /\ i = j
  <2>1. CASE i \in 1..Len(out[r]) /\ new[r][i] = out[r][i]
    <3>1. new[r][i] # x  BY <2>1
    <3>2. j \in 1..Len(out[s]) /\ new[s][j] = out[s][j]  BY <1>2, <1>3, <3>1
    <3>3. out[r][i] = out[s][j]  BY <1>3, <2>1, <3>2
    <3>4. \A a, b \in OutPorts : \A k \in 1..Len(out[a]), l \in 1..Len(out[b]) :
            out[a][k] = out[b][l] => a = b /\ k = l
      BY Zenon DEF Distinct
    <3>5. \A l \in 1..Len(out[s]) : out[r][i] = out[s][l] => r = s /\ i = l  BY <2>1, <3>4
    <3>. QED  BY <3>2, <3>3, <3>5
  <2>2. CASE r = q /\ i = Len(out[q]) + 1 /\ new[r][i] = x
    <3>1. ~(j \in 1..Len(out[s]) /\ new[s][j] = out[s][j])  BY <1>3, <2>2
    <3>2. s = q /\ j = Len(out[q]) + 1  BY <1>2, <3>1
    <3>. QED  BY <2>2, <3>2
  <2>. QED  BY <1>2, <2>1, <2>2
<1>4. ASSUME NEW r \in OutPorts, NEW i \in 1..Len(new[r]), NEW j \in 1..Len(kept)
      PROVE  new[r][i] # kept[j][2]
  <2>1. CASE i \in 1..Len(out[r]) /\ new[r][i] = out[r][i]  BY <2>1 DEF Distinct
  <2>2. CASE new[r][i] = x  BY <2>2
  <2>. QED  BY <1>2, <2>1, <2>2
<1>5. Distinct(new, kept)  BY <1>3, <1>4 DEF Distinct
<1>. QED  BY <1>5 DEF new

\* So does holding one.
LEMMA DistinctHolding ==
    ASSUME NEW out \in Outs, NEW kept \in Helds, NEW q \in OutPorts, NEW x \in Msg, Distinct(out, kept),
           \A r \in OutPorts : \A i \in 1..Len(out[r]) : out[r][i] # x,
           \A i \in 1..Len(kept) : kept[i][2] # x
    PROVE  Distinct(out, Append(kept, <<q, x>>))
<1> DEFINE new == Append(kept, <<q, x>>)
<1>1. /\ Len(kept) \in Nat /\ Len(new) = Len(kept) + 1
      /\ \A i \in 1..Len(kept) : new[i] = kept[i]
      /\ new[Len(kept) + 1] = <<q, x>>
  BY HoldingAt
<1> HIDE DEF new
<1>2. ASSUME NEW i \in 1..Len(new)
      PROVE  \/ i \in 1..Len(kept) /\ new[i][2] = kept[i][2]
             \/ i = Len(kept) + 1 /\ new[i][2] = x
  BY <1>1
<1>3. ASSUME NEW i \in 1..Len(new), NEW j \in 1..Len(new), new[i][2] = new[j][2] PROVE i = j
  BY <1>2, <1>3 DEF Distinct
<1>4. ASSUME NEW r \in OutPorts, NEW i \in 1..Len(out[r]), NEW j \in 1..Len(new)
      PROVE  out[r][i] # new[j][2]
  <2>1. CASE j \in 1..Len(kept) /\ new[j][2] = kept[j][2]  BY <2>1 DEF Distinct
  <2>2. CASE new[j][2] = x  BY <2>2
  <2>. QED  BY <1>2, <2>1, <2>2
<1>5. Distinct(out, new)  BY <1>3, <1>4 DEF Distinct
<1>. QED  BY <1>5 DEF new

\* An output that is no longer held.
LEMMA DistinctRest ==
    ASSUME NEW out \in Outs, NEW kept \in Helds, kept # <<>>, Distinct(out, kept)
    PROVE  /\ Distinct(out, Tail(kept))
           /\ \A r \in OutPorts : \A i \in 1..Len(out[r]) : out[r][i] # kept[1][2]
           /\ \A i \in 1..Len(Tail(kept)) : Tail(kept)[i][2] # kept[1][2]
<1> DEFINE new == Tail(kept)
<1>1. Len(kept) \in Nat \ {0} /\ Len(new) = Len(kept) - 1 /\ \A i \in 1..Len(new) : new[i] = kept[i + 1]
  BY RestAt
<1> HIDE DEF new
<1>2. \A i \in 1..Len(new) : i + 1 \in 1..Len(kept) /\ new[i] = kept[i + 1]  BY <1>1
<1>3. \A i, j \in 1..Len(new) : new[i][2] = new[j][2] => i = j
  <2> TAKE i, j \in 1..Len(new)
  <2> HAVE new[i][2] = new[j][2]
  <2>1. i + 1 = j + 1  BY <1>2 DEF Distinct
  <2>. QED  BY <2>1, <1>1
<1>4. \A r \in OutPorts : \A i \in 1..Len(out[r]), j \in 1..Len(new) : out[r][i] # new[j][2]
  BY <1>2 DEF Distinct
<1>5. Distinct(out, new)  BY <1>3, <1>4 DEF Distinct
<1>6. 1 \in 1..Len(kept)  BY <1>1
<1>7. \A r \in OutPorts : \A i \in 1..Len(out[r]) : out[r][i] # kept[1][2]  BY <1>6 DEF Distinct
<1>8. \A i \in 1..Len(new) : new[i][2] # kept[1][2]
  <2> TAKE i \in 1..Len(new)
  <2>1. i + 1 \in 1..Len(kept) /\ i + 1 # 1 /\ new[i] = kept[i + 1]  BY <1>2, <1>1
  <2>. QED  BY <2>1, <1>6 DEF Distinct
<1>. QED  BY <1>5, <1>7, <1>8 DEF new

\* Outputs of taken messages stay such as more is taken.
LEMMA TakenOn ==
    ASSUME NEW out \in Outs, NEW kept \in Helds, NEW mark \in Marks, NEW more \in Marks,
           Taken(out, kept, mark), \A p \in InPorts : mark[p] <= more[p]
    PROVE  Taken(out, kept, more)
<1>1. ASSUME NEW y \in Msg, y[2] <= mark[y[1]] PROVE y[2] <= more[y[1]]
  <2>1. y[1] \in InPorts /\ y[2] \in Int  BY MsgParts
  <2>2. mark[y[1]] \in Int /\ more[y[1]] \in Int /\ mark[y[1]] <= more[y[1]]  BY <2>1 DEF Marks
  <2>. QED  BY <1>1, <2>1, <2>2
<1>2. \A q \in OutPorts : \A i \in 1..Len(out[q]) : out[q][i] \in Msg  BY DEF Outs
<1>3. \A i \in 1..Len(kept) : kept[i][2] \in Msg
  <2>1. \A i \in 1..Len(kept) : kept[i] \in OutPorts \X Msg  BY ElementOfSeq DEF Helds
  <2>. QED  BY <2>1
<1>. QED  BY <1>1, <1>2, <1>3 DEF Taken

\* One more such output is sent.
LEMMA TakenSending ==
    ASSUME NEW out \in Outs, NEW kept, NEW mark, NEW q \in OutPorts, NEW x \in Msg,
           Taken(out, kept, mark), x[2] <= mark[x[1]]
    PROVE  Taken(Sending(out, q, x), kept, mark)
<1> DEFINE new == Sending(out, q, x)
<1>1. /\ \A r \in OutPorts :
            /\ Len(out[r]) \in Nat
            /\ Len(new[r]) = IF r = q THEN Len(out[r]) + 1 ELSE Len(out[r])
            /\ \A i \in 1..Len(out[r]) : new[r][i] = out[r][i] /\ out[r][i] \in Msg
      /\ new[q][Len(out[q]) + 1] = x
  BY SendingAt
<1> HIDE DEF new
<1>2. ASSUME NEW r \in OutPorts, NEW i \in 1..Len(new[r])
      PROVE  new[r][i][2] <= mark[new[r][i][1]]
  <2>1. \/ i \in 1..Len(out[r]) /\ new[r][i] = out[r][i]
        \/ r = q /\ i = Len(out[q]) + 1 /\ new[r][i] = x
    BY <1>1
  <2>. QED  BY <2>1 DEF Taken
<1>3. Taken(new, kept, mark)  BY <1>2 DEF Taken
<1>. QED  BY <1>3 DEF new

\* One more is held.
LEMMA TakenHolding ==
    ASSUME NEW out, NEW kept \in Helds, NEW mark, NEW q \in OutPorts, NEW x \in Msg,
           Taken(out, kept, mark), x[2] <= mark[x[1]]
    PROVE  Taken(out, Append(kept, <<q, x>>), mark)
<1> DEFINE new == Append(kept, <<q, x>>)
<1>1. /\ Len(kept) \in Nat /\ Len(new) = Len(kept) + 1
      /\ \A i \in 1..Len(kept) : new[i] = kept[i]
      /\ new[Len(kept) + 1] = <<q, x>>
  BY HoldingAt
<1> HIDE DEF new
<1>2. ASSUME NEW i \in 1..Len(new) PROVE new[i][2][2] <= mark[new[i][2][1]]
  <2>1. \/ i \in 1..Len(kept) /\ new[i][2] = kept[i][2]
        \/ i = Len(kept) + 1 /\ new[i][2] = x
    BY <1>1
  <2>. QED  BY <2>1 DEF Taken
<1>3. Taken(out, new, mark)  BY <1>2 DEF Taken
<1>. QED  BY <1>3 DEF new

\* One is no longer held.
LEMMA TakenRest ==
    ASSUME NEW out, NEW kept \in Helds, kept # <<>>, NEW mark, Taken(out, kept, mark)
    PROVE  Taken(out, Tail(kept), mark) /\ kept[1][2][2] <= mark[kept[1][2][1]]
<1> DEFINE new == Tail(kept)
<1>1. Len(kept) \in Nat \ {0} /\ Len(new) = Len(kept) - 1 /\ \A i \in 1..Len(new) : new[i] = kept[i + 1]
  BY RestAt
<1> HIDE DEF new
<1>2. \A i \in 1..Len(new) : i + 1 \in 1..Len(kept) /\ new[i] = kept[i + 1]  BY <1>1
<1>3. 1 \in 1..Len(kept)  BY <1>1
<1>4. Taken(out, new, mark) /\ kept[1][2][2] <= mark[kept[1][2][1]]
  BY <1>2, <1>3 DEF Taken
<1>. QED  BY <1>4 DEF new

\* An output that follows what was sent, and precedes what is held, is sent.
LEMMA OrderedSending ==
    ASSUME NEW out \in Outs, NEW kept, NEW q \in OutPorts, NEW x \in Msg, Ordered(out, kept),
           \A i \in 1..Len(out[q]) : Before(out[q][i], x),
           \A i \in 1..Len(kept) : Before(x, kept[i][2])
    PROVE  Ordered(Sending(out, q, x), kept)
<1> DEFINE new == Sending(out, q, x)
<1>1. /\ \A r \in OutPorts :
            /\ Len(out[r]) \in Nat
            /\ Len(new[r]) = IF r = q THEN Len(out[r]) + 1 ELSE Len(out[r])
            /\ \A i \in 1..Len(out[r]) : new[r][i] = out[r][i] /\ out[r][i] \in Msg
      /\ new[q][Len(out[q]) + 1] = x
  BY SendingAt
<1> HIDE DEF new
<1>2. ASSUME NEW r \in OutPorts, NEW i \in 1..Len(new[r])
      PROVE  \/ i \in 1..Len(out[r]) /\ new[r][i] = out[r][i]
             \/ r = q /\ i = Len(out[q]) + 1 /\ new[r][i] = x
  BY <1>1
<1>3. ASSUME NEW r \in OutPorts, NEW i \in 1..Len(new[r]), NEW j \in 1..Len(new[r]), i < j
      PROVE  Before(new[r][i], new[r][j])
  <2>1. i \in 1..Len(out[r]) /\ new[r][i] = out[r][i]  BY <1>1, <1>3
  <2>2. CASE j \in 1..Len(out[r]) /\ new[r][j] = out[r][j]  BY <1>3, <2>1, <2>2 DEF Ordered
  <2>3. CASE r = q /\ new[r][j] = x  BY <2>1, <2>3
  <2>. QED  BY <1>2, <2>2, <2>3
<1>4. ASSUME NEW r \in OutPorts, NEW i \in 1..Len(new[r]), NEW j \in 1..Len(kept)
      PROVE  Before(new[r][i], kept[j][2])
  <2>1. CASE i \in 1..Len(out[r]) /\ new[r][i] = out[r][i]  BY <2>1 DEF Ordered
  <2>2. CASE new[r][i] = x  BY <2>2
  <2>. QED  BY <1>2, <2>1, <2>2
<1>5. Ordered(new, kept)  BY <1>3, <1>4 DEF Ordered
<1>. QED  BY <1>5 DEF new

\* An output that follows everything is held.
LEMMA OrderedHolding ==
    ASSUME NEW out \in Outs, NEW kept \in Helds, NEW q \in OutPorts, NEW x \in Msg, Ordered(out, kept),
           \A r \in OutPorts : \A i \in 1..Len(out[r]) : Before(out[r][i], x),
           \A i \in 1..Len(kept) : Before(kept[i][2], x)
    PROVE  Ordered(out, Append(kept, <<q, x>>))
<1> DEFINE new == Append(kept, <<q, x>>)
<1>1. /\ Len(kept) \in Nat /\ Len(new) = Len(kept) + 1
      /\ \A i \in 1..Len(kept) : new[i] = kept[i]
      /\ new[Len(kept) + 1] = <<q, x>>
  BY HoldingAt
<1> HIDE DEF new
<1>2. ASSUME NEW i \in 1..Len(new)
      PROVE  \/ i \in 1..Len(kept) /\ new[i][2] = kept[i][2]
             \/ i = Len(kept) + 1 /\ new[i][2] = x
  BY <1>1
<1>3. ASSUME NEW i \in 1..Len(new), NEW j \in 1..Len(new), i < j PROVE Before(new[i][2], new[j][2])
  <2>1. i \in 1..Len(kept) /\ new[i][2] = kept[i][2]  BY <1>1, <1>3
  <2>2. CASE j \in 1..Len(kept) /\ new[j][2] = kept[j][2]  BY <1>3, <2>1, <2>2 DEF Ordered
  <2>3. CASE new[j][2] = x  BY <2>1, <2>3
  <2>. QED  BY <1>2, <2>2, <2>3
<1>4. ASSUME NEW r \in OutPorts, NEW i \in 1..Len(out[r]), NEW j \in 1..Len(new)
      PROVE  Before(out[r][i], new[j][2])
  <2>1. CASE j \in 1..Len(kept) /\ new[j][2] = kept[j][2]  BY <2>1 DEF Ordered
  <2>2. CASE new[j][2] = x  BY <2>2
  <2>. QED  BY <1>2, <2>1, <2>2
<1>5. Ordered(out, new)  BY <1>3, <1>4 DEF Ordered
<1>. QED  BY <1>5 DEF new

\* The first that is held follows what was sent and precedes the rest.
LEMMA OrderedRest ==
    ASSUME NEW out \in Outs, NEW kept \in Helds, kept # <<>>, Ordered(out, kept)
    PROVE  /\ Ordered(out, Tail(kept))
           /\ \A r \in OutPorts : \A i \in 1..Len(out[r]) : Before(out[r][i], kept[1][2])
           /\ \A i \in 1..Len(Tail(kept)) : Before(kept[1][2], Tail(kept)[i][2])
<1> DEFINE new == Tail(kept)
<1>1. Len(kept) \in Nat \ {0} /\ Len(new) = Len(kept) - 1 /\ \A i \in 1..Len(new) : new[i] = kept[i + 1]
  BY RestAt
<1> HIDE DEF new
<1>2. \A i \in 1..Len(new) : i + 1 \in 1..Len(kept) /\ 1 < i + 1 /\ new[i] = kept[i + 1]  BY <1>1
<1>3. 1 \in 1..Len(kept)  BY <1>1
<1>4. \A i, j \in 1..Len(new) : i < j => Before(new[i][2], new[j][2])
  <2> TAKE i, j \in 1..Len(new)
  <2> HAVE i < j
  <2>1. i + 1 < j + 1 /\ i + 1 \in 1..Len(kept) /\ j + 1 \in 1..Len(kept)  BY <1>1
  <2>2. Before(kept[i + 1][2], kept[j + 1][2])  BY <2>1 DEF Ordered
  <2>. QED  BY <1>2, <2>2
<1>5. \A r \in OutPorts : \A i \in 1..Len(out[r]), j \in 1..Len(new) : Before(out[r][i], new[j][2])
  BY <1>2 DEF Ordered
<1>6. Ordered(out, new)  BY <1>4, <1>5 DEF Ordered
<1>7. \A r \in OutPorts : \A i \in 1..Len(out[r]) : Before(out[r][i], kept[1][2])  BY <1>3 DEF Ordered
<1>8. \A i \in 1..Len(new) : Before(kept[1][2], new[i][2])  BY <1>2, <1>3 DEF Ordered
<1>. QED  BY <1>6, <1>7, <1>8 DEF new

\* The outputs of a message that was just taken come after everything sent.
LEMMA LaterStart ==
    ASSUME NEW out \in Outs, NEW kept, NEW mark \in Marks, NEW more, Taken(out, kept, mark),
           NEW n \in Nat, NEW items, items = [i \in 1..n |-> <<1, more[1], i>>],
           more[1] \in Int, mark[1] < more[1]
    PROVE  items \in Seq(Msg) /\ Later(items, out, more)
<1>1. \A i \in 1..n : <<1, more[1], i>> \in Msg  BY DEF Msg, InPorts
<1>2. items \in Seq(Msg) /\ Len(items) = n /\ \A i \in 1..n : items[i] = <<1, more[1], i>>
  BY <1>1
<1>3. ASSUME NEW q \in OutPorts, NEW i \in 1..Len(out[q])
      PROVE  ~(out[q][i][1] = 1 /\ out[q][i][2] = more[1])
  <2>1. out[q][i][2] <= mark[out[q][i][1]]  BY DEF Taken
  <2>2. mark[1] \in Int  BY DEF Marks, InPorts
  <2>. QED  BY <2>1, <2>2
<1>. QED  BY <1>2, <1>3 DEF Later

\* The first of them comes after everything sent, too, and before the rest.
LEMMA LaterSend ==
    ASSUME NEW out \in Outs, NEW mark \in Marks, NEW items \in Seq(Msg), items # <<>>,
           Taken(out, <<>>, mark), Later(items, out, mark)
    PROVE  /\ Head(items) \in Msg /\ Head(items)[2] <= mark[Head(items)[1]]
           /\ \A q \in OutPorts : \A i \in 1..Len(out[q]) :
                 out[q][i] # Head(items) /\ Before(out[q][i], Head(items))
           /\ Tail(items) \in Seq(Msg) /\ Later(Tail(items), out, mark)
           /\ Later(Tail(items), Sending(out, 1, Head(items)), mark)
<1> DEFINE x == Head(items)  rest == Tail(items)  new == Sending(out, 1, x)
<1>1. /\ Len(items) \in Nat \ {0} /\ x = items[1] /\ x \in Msg
      /\ rest \in Seq(Msg) /\ Len(rest) = Len(items) - 1
      /\ \A i \in 1..Len(rest) : rest[i] = items[i + 1]
  BY HeadTailProperties, EmptySeq
<1>2. /\ \A r \in OutPorts :
            /\ Len(out[r]) \in Nat
            /\ Len(new[r]) = IF r = 1 THEN Len(out[r]) + 1 ELSE Len(out[r])
            /\ \A i \in 1..Len(out[r]) : new[r][i] = out[r][i] /\ out[r][i] \in Msg
      /\ new[1][Len(out[1]) + 1] = x
  <2>1. 1 \in OutPorts  BY DEF OutPorts
  <2>. QED  BY <1>1, <2>1, SendingAt
<1> HIDE DEF x, rest, new
<1>3. 1 \in 1..Len(items) /\ \A i \in 1..Len(rest) : i + 1 \in 1..Len(items) /\ 1 < i + 1  BY <1>1
<1>4. x[1] = 1 /\ x[2] = mark[1] /\ mark[1] \in Int /\ x[3] \in Int
  BY <1>1, <1>3, MsgParts DEF Later, Marks, InPorts
<1>5. ASSUME NEW q \in OutPorts, NEW i \in 1..Len(out[q])
      PROVE  out[q][i] # x /\ Before(out[q][i], x)
  <2>1. out[q][i][2] <= mark[out[q][i][1]]  BY DEF Taken
  <2>2. out[q][i] \in Msg  BY <1>2
  <2>3. out[q][i][1] = 1 /\ out[q][i][2] = mark[1] => out[q][i][3] < x[3]
    BY <1>1, <1>3 DEF Later
  <2>4. out[q][i][2] \in Int /\ out[q][i][3] \in Int  BY <2>2, MsgParts
  <2>. QED  BY <1>4, <2>1, <2>3, <2>4 DEF Before
<1>6. \A i \in 1..Len(rest) : rest[i][1] = 1 /\ rest[i][2] = mark[1] /\ x[3] < rest[i][3]
  BY <1>1, <1>3 DEF Later
<1>7. ASSUME NEW i \in 1..Len(rest), NEW j \in 1..Len(rest), i < j PROVE rest[i][3] < rest[j][3]
  <2>1. i + 1 \in 1..Len(items) /\ j + 1 \in 1..Len(items) /\ i + 1 < j + 1  BY <1>1, <1>7
  <2>2. items[i + 1][3] < items[j + 1][3]  BY <2>1 DEF Later
  <2>. QED  BY <1>1, <2>2
<1>8. ASSUME NEW q \in OutPorts, NEW i \in 1..Len(out[q]), NEW j \in 1..Len(rest),
             out[q][i][1] = 1 /\ out[q][i][2] = mark[1]
      PROVE  out[q][i][3] < rest[j][3]
  BY <1>1, <1>3, <1>8 DEF Later
<1>9. Later(rest, out, mark)  BY <1>6, <1>7, <1>8 DEF Later
<1>10. ASSUME NEW q \in OutPorts, NEW i \in 1..Len(new[q]), NEW j \in 1..Len(rest),
              new[q][i][1] = 1 /\ new[q][i][2] = mark[1]
       PROVE  new[q][i][3] < rest[j][3]
  <2>1. \/ i \in 1..Len(out[q]) /\ new[q][i] = out[q][i]
        \/ q = 1 /\ i = Len(out[1]) + 1 /\ new[q][i] = x
    BY <1>2
  <2>. QED  BY <1>6, <1>8, <1>10, <2>1
<1>11. Later(rest, new, mark)  BY <1>6, <1>7, <1>10 DEF Later
<1>. QED  BY <1>1, <1>4, <1>5, <1>9, <1>11 DEF x, rest, new

\* What is accounted for stays so when an output is sent, and one more
\* message is when it is the one sent.
LEMMA KeptSending ==
    ASSUME NEW out \in Outs, NEW kept, NEW q \in OutPorts, NEW x \in Msg, NEW n \in Nat, Kept(out, kept, n)
    PROVE  /\ Kept(Sending(out, q, x), kept, n)
           /\ x = <<1, n + 1, 1>> => Kept(Sending(out, q, x), kept, n + 1)
<1> DEFINE new == Sending(out, q, x)
<1>1. /\ \A r \in OutPorts :
            /\ Len(out[r]) \in Nat
            /\ Len(new[r]) = IF r = q THEN Len(out[r]) + 1 ELSE Len(out[r])
            /\ \A i \in 1..Len(out[r]) : new[r][i] = out[r][i]
      /\ new[q][Len(out[q]) + 1] = x
  BY SendingAt
<1> HIDE DEF new
<1>2. \A r \in OutPorts : \A i \in 1..Len(out[r]) : i \in 1..Len(new[r]) /\ new[r][i] = out[r][i]
  BY <1>1
<1>3. Len(out[q]) + 1 \in 1..Len(new[q])  BY <1>1
<1>4. ASSUME NEW m \in 1..n
      PROVE  \/ \E r \in OutPorts : \E i \in 1..Len(new[r]) : new[r][i] = <<1, m, 1>>
             \/ \E i \in 1..Len(kept) : kept[i][2] = <<1, m, 1>>
  <2>1. CASE \E r \in OutPorts : \E i \in 1..Len(out[r]) : out[r][i] = <<1, m, 1>>  BY <1>2, <2>1
  <2>. QED  BY <2>1 DEF Kept
<1>5. \E r \in OutPorts : \E i \in 1..Len(new[r]) : new[r][i] = x  BY <1>1, <1>3
<1>6. Kept(new, kept, n)  BY <1>4 DEF Kept
<1>7. ASSUME x = <<1, n + 1, 1>> PROVE Kept(new, kept, n + 1)
  <2>1. \A m \in 1..(n + 1) : m \in 1..n \/ m = n + 1  OBVIOUS
  <2>. QED  BY <1>4, <1>5, <1>7, <2>1 DEF Kept
<1>. QED  BY <1>6, <1>7 DEF new

\* The same when the message is held.
LEMMA KeptHolding ==
    ASSUME NEW out, NEW kept \in Helds, NEW q \in OutPorts, NEW x \in Msg, NEW n \in Nat,
           Kept(out, kept, n), x = <<1, n + 1, 1>>
    PROVE  Kept(out, Append(kept, <<q, x>>), n + 1)
<1> DEFINE new == Append(kept, <<q, x>>)
<1>1. /\ Len(kept) \in Nat /\ Len(new) = Len(kept) + 1
      /\ \A i \in 1..Len(kept) : new[i] = kept[i]
      /\ new[Len(kept) + 1] = <<q, x>>
  BY HoldingAt
<1> HIDE DEF new
<1>2. \A i \in 1..Len(kept) : i \in 1..Len(new) /\ new[i] = kept[i]  BY <1>1
<1>3. Len(kept) + 1 \in 1..Len(new) /\ new[Len(kept) + 1][2] = x  BY <1>1
<1>4. \A m \in 1..(n + 1) : m \in 1..n \/ m = n + 1  OBVIOUS
<1>5. \A m \in 1..n : \/ \E r \in OutPorts : \E i \in 1..Len(out[r]) : out[r][i] = <<1, m, 1>>
                      \/ \E i \in 1..Len(new) : new[i][2] = <<1, m, 1>>
  BY <1>2 DEF Kept
<1>6. \E i \in 1..Len(new) : new[i][2] = <<1, n + 1, 1>>  BY <1>3
<1>7. Kept(out, new, n + 1)  BY <1>4, <1>5, <1>6 DEF Kept
<1>. QED  BY <1>7 DEF new

\* And when a held one is sent at last.
LEMMA KeptRelease ==
    ASSUME NEW out \in Outs, NEW kept \in Helds, kept # <<>>, NEW q \in OutPorts, NEW n \in Nat,
           Kept(out, kept, n)
    PROVE  Kept(Sending(out, q, kept[1][2]), Tail(kept), n)
<1> DEFINE x == kept[1][2]  new == Sending(out, q, x)  rest == Tail(kept)
<1>1. /\ Len(kept) \in Nat \ {0} /\ Len(rest) = Len(kept) - 1
      /\ \A i \in 1..Len(rest) : rest[i] = kept[i + 1]
      /\ x \in Msg
  BY RestAt
<1>2. /\ \A r \in OutPorts :
            /\ Len(out[r]) \in Nat
            /\ Len(new[r]) = IF r = q THEN Len(out[r]) + 1 ELSE Len(out[r])
            /\ \A i \in 1..Len(out[r]) : new[r][i] = out[r][i]
      /\ new[q][Len(out[q]) + 1] = x
  BY <1>1, SendingAt
<1> HIDE DEF new, rest
<1>3. \A r \in OutPorts : \A i \in 1..Len(out[r]) : i \in 1..Len(new[r]) /\ new[r][i] = out[r][i]
  BY <1>2
<1>4. \E r \in OutPorts : \E i \in 1..Len(new[r]) : new[r][i] = x
  <2>1. Len(out[q]) + 1 \in 1..Len(new[q])  BY <1>2
  <2>. QED  BY <1>2, <2>1
<1>5. \A i \in 1..Len(kept) : i = 1 \/ (i - 1 \in 1..Len(rest) /\ rest[i - 1] = kept[i])
  <2> TAKE i \in 1..Len(kept)
  <2> SUFFICES ASSUME i # 1 PROVE i - 1 \in 1..Len(rest) /\ rest[i - 1] = kept[i]  OBVIOUS
  <2>1. i - 1 \in 1..Len(rest) /\ (i - 1) + 1 = i  BY <1>1
  <2>. QED  BY <1>1, <2>1
<1>6. ASSUME NEW m \in 1..n
      PROVE  \/ \E r \in OutPorts : \E i \in 1..Len(new[r]) : new[r][i] = <<1, m, 1>>
             \/ \E i \in 1..Len(rest) : rest[i][2] = <<1, m, 1>>
  <2>1. CASE \E r \in OutPorts : \E i \in 1..Len(out[r]) : out[r][i] = <<1, m, 1>>  BY <1>3, <2>1
  <2>2. ASSUME NEW i \in 1..Len(kept), kept[i][2] = <<1, m, 1>>
        PROVE  \/ \E r \in OutPorts : \E j \in 1..Len(new[r]) : new[r][j] = <<1, m, 1>>
               \/ \E j \in 1..Len(rest) : rest[j][2] = <<1, m, 1>>
    <3>1. CASE i = 1  BY <1>4, <2>2, <3>1
    <3>2. CASE i # 1  BY <1>5, <2>2, <3>2
    <3>. QED  BY <3>1, <3>2
  <2>. QED  BY <2>1, <2>2 DEF Kept
<1>7. Kept(new, rest, n)  BY <1>6 DEF Kept
<1>. QED  BY <1>7 DEF new, rest

-----------------------------------------------------------------------------
(* What the proofs use of the components' records.                         *)

FlowRecord(k) ==
    /\ k.inports \subseteq {1, 2}
    /\ k.full = "report" => k = Count
    /\ k.steps = "delay" => k = Delay
    /\ k.full \in {"keep", "keepBreak"} =>
          /\ k.steps = "forward" /\ k.parts = {1} /\ k.inports = {1} /\ "finished" \notin k.refuses
    /\ k.refuses \subseteq {"finished", "panicked"}
    /\ k.parts \subseteq 0..2 /\ k.route \in {"one", "any", "turn"}
    /\ k.first = "config" => k.config # "none"
    /\ k.steps = "tick" => k = Cron
    /\ k.full = "report" \/ k.steps = "delay" => ~k.repoll
    /\ k.full \notin {"keepBreak", "dropBreak", "dropOne"} =>
          /\ 2 \notin k.inports /\ k.steps # "lines"
          /\ k.steps = "forward" /\ 1 \in k.parts => k.full \in {"keep", "finish"}

\* Only Count reports, only Delay delays and only Cron ticks; the components that
\* keep a refused message make one output of each, and of those that read on at
\* a full edge none has two in-edges or an iterator kept between calls.
LEMMA FlowRecords == \A k \in DataflowKinds : FlowRecord(k)
<1>1. FlowRecord(Repeat)  BY DEF FlowRecord, Repeat, Plain, Keeping, Configured, Several
<1>2. FlowRecord(Trim)  BY DEF FlowRecord, Trim, Plain, Keeping, Configured, Several
<1>3. FlowRecord(XzCompress)  BY DEF FlowRecord, XzCompress, Plain, Keeping, Configured, Several
<1>4. FlowRecord(XzDecompress)  BY DEF FlowRecord, XzDecompress, Plain, Keeping, Configured, Several
<1>5. FlowRecord(BrotliCompress)  BY DEF FlowRecord, BrotliCompress, Plain, Keeping, Configured, Several
<1>6. FlowRecord(BrotliDecompress)  BY DEF FlowRecord, BrotliDecompress, Plain, Keeping, Configured, Several
<1>7. FlowRecord(Output)  BY DEF FlowRecord, Output, Plain, Keeping, Configured, Several
<1>8. FlowRecord(Equals)  BY DEF FlowRecord, Equals, Plain, Keeping, Configured, Several
<1>9. FlowRecord(Text)  BY DEF FlowRecord, Text, Plain, Keeping, Configured, Several
<1>10. FlowRecord(Hasher)  BY DEF FlowRecord, Hasher, Plain, Keeping, Configured, Several
<1>11. FlowRecord(HTMLStrip)  BY DEF FlowRecord, HTMLStrip, Plain, Keeping, Configured, Several
<1>12. FlowRecord(Muxer)  BY DEF FlowRecord, Muxer, Plain, Keeping, Configured, Several, Delay, InPorts
<1>13. FlowRecord(Demux3)  BY DEF FlowRecord, Demux3, Plain, Keeping, Configured, Several
<1>14. FlowRecord(Regexp)  BY DEF FlowRecord, Regexp, Plain, Keeping, Configured, Several
<1>15. FlowRecord(Template)  BY DEF FlowRecord, Template, Plain, Keeping, Configured, Several
<1>16. FlowRecord(Router)  BY DEF FlowRecord, Router, Plain, Keeping, Configured, Several
<1>17. FlowRecord(Email)  BY DEF FlowRecord, Email, Plain, Keeping, Configured, Several
<1>18. FlowRecord(Json)  BY DEF FlowRecord, Json, Plain, Keeping, Configured, Several
<1>19. FlowRecord(HTMLQuery)  BY DEF FlowRecord, HTMLQuery, Plain, Keeping, Configured, Several
<1>20. FlowRecord(Splitlines)  BY DEF FlowRecord, Splitlines, Plain, Keeping, Configured, Several
<1>21. FlowRecord(LibComponent)  BY DEF FlowRecord, LibComponent, Plain, Keeping, Configured, Several
<1>22. FlowRecord(Sexp)  BY DEF FlowRecord, Sexp, Plain, Keeping, Configured, Several
<1>23. FlowRecord(Vis)  BY DEF FlowRecord, Vis, Plain, Keeping, Configured, Several
<1>24. FlowRecord(Panic)  BY DEF FlowRecord, Panic, Plain, Keeping, Configured, Several
<1>25. FlowRecord(Drop)  BY DEF FlowRecord, Drop, Plain, Keeping, Configured, Several
<1>26. FlowRecord(Count)  BY DEF FlowRecord, Count, Plain, Keeping, Configured, Several
<1>27. FlowRecord(Delay)  BY DEF FlowRecord, Delay, Plain, Keeping, Configured, Several
<1>28. FlowRecord(Cron)  BY DEF FlowRecord, Cron, Plain, Keeping, Configured, Several
<1>. QED
  BY <1>1, <1>2, <1>3, <1>4, <1>5, <1>6, <1>7, <1>8, <1>9, <1>10, <1>11, <1>12, <1>13, <1>14,
     <1>15, <1>16, <1>17, <1>18, <1>19, <1>20, <1>21, <1>22, <1>23, <1>24, <1>25, <1>26, <1>27, <1>28 DEF DataflowKinds

\* Delay's own record.
LEMMA DelayIs == /\ Delay.steps = "delay" /\ Delay.full = "delay" /\ "finished" \notin Delay.refuses
                 /\ Delay.eof = "clean"
BY DEF Delay, Configured, Plain

\* The record of a dataflow component.
LEMMA FlowIs ==
    ASSUME IsDataflow, PortInv
    PROVE  FlowRecord(kind) /\ FlowKind(kind) /\ kind \in DataflowKinds
<1>1. kind \in Kinds /\ kind.family = "dataflow"  BY DEF IsDataflow, PortInv
<1>2. kind \in DataflowKinds
  BY <1>1, KindsAssumption, IoKindsAre, ChatKindsAre, ServerKindsAre, PollerKindsAre
  DEF AllKinds, IoKind, ChatKind, ServerKind, PollerKind
<1>. QED  BY <1>2, FlowRecords, FlowKinds

\* The same for the components whose messages are followed.
LEMMA FlowsIs == ASSUME Flows, PortInv PROVE FlowRecord(kind) /\ FlowKind(kind) /\ kind \in DataflowKinds
BY FlowIs DEF Flows

-----------------------------------------------------------------------------
(* What the steps do to the edges.                                         *)

\* The values the lemmas above speak of.
LEMMA Values ==
    ASSUME Flows, InputInv, OutputInv
    PROVE  Out \in Outs /\ pending \in Helds /\ Mark \in Marks
<1>1. \A q \in OutPorts : OutOf(q) \in Seq(Msg)  BY DEF OutputInv, OutOf
<1>2. \A p \in InPorts : sent[p] \in Nat /\ Len(inq[p]) \in Nat  BY DEF InputInv
<1>3. branch - 1 \in Int  BY DEF OutputInv
<1>. QED  BY <1>1, <1>2, <1>3 DEF Out, Outs, Helds, OutputInv, Mark, Marks

\* Nothing sent.
LEMMA NothingSent == ASSUME UNCHANGED <<outq, delivered>> PROVE Out' = Out
BY DEF Out, OutOf

\* A push sends its output.
LEMMA PushSends ==
    ASSUME Flows, OutputInv, NEW q \in OutPorts, NEW x \in Msg, Push(q, x), UNCHANGED delivered
    PROVE  Out' = Sending(Out, q, x) /\ outq' \in [OutPorts -> Seq(Msg)]
<1>1. \A r \in OutPorts : outq[r] \in Seq(Msg) /\ delivered[r] \in Seq(Msg)  BY DEF OutputInv
<1>2. outq' = [r \in OutPorts |-> IF r = q THEN Append(outq[q], x) ELSE outq[r]]
  BY DEF OutputInv, Push
<1>3. Append(outq[q], x) \in Seq(Msg)  BY <1>1
<1>4. delivered[q] \o Append(outq[q], x) = Append(delivered[q] \o outq[q], x)
  <2> DEFINE d == delivered[q]  o == outq[q]
  <2>1. d \in Seq(Msg) /\ o \in Seq(Msg)  BY <1>1
  <2> HIDE DEF d, o
  <2> DEFINE s == d \o Append(o, x)  t == Append(d \o o, x)
  <2>2. s \in Seq(Msg) /\ t \in Seq(Msg)  BY <2>1
  <2>3. Len(s) = Len(t)  BY <2>1
  <2>4. \A i \in 1..Len(s) : s[i] = t[i]  BY <2>1
  <2> HIDE DEF s, t
  <2>5. s = t  BY <2>2, <2>3, <2>4, SeqEqual
  <2>. QED  BY <2>5 DEF s, t, d, o
<1>5. Out' = [r \in OutPorts |-> IF r = q THEN delivered[q] \o Append(outq[q], x)
                                          ELSE delivered[r] \o outq[r]]
  BY <1>2 DEF Out, OutOf
<1>6. Sending(Out, q, x) = [r \in OutPorts |-> IF r = q THEN Append(delivered[q] \o outq[q], x)
                                                         ELSE delivered[r] \o outq[r]]
  BY DEF Sending, Out, OutOf
<1>. QED  BY <1>1, <1>2, <1>3, <1>4, <1>5, <1>6

\* A message the downstream node takes stays where it was in the order.
LEMMA DrainSendsNothing ==
    ASSUME Flows, OutputInv, Drain
    PROVE  Out' = Out /\ outq' \in [OutPorts -> Seq(Msg)] /\ delivered' \in [OutPorts -> Seq(Msg)]
<1>1. \A r \in OutPorts : outq[r] \in Seq(Msg) /\ delivered[r] \in Seq(Msg)  BY DEF OutputInv
<1>2. PICK q \in OutPorts : /\ outq[q] # <<>> /\ outq' = [outq EXCEPT ![q] = Tail(outq[q])]
                            /\ delivered' = [delivered EXCEPT ![q] = Append(delivered[q], Head(outq[q]))]
  BY DEF Drain, OutputInv
<1>3. Tail(outq[q]) \in Seq(Msg) /\ Append(delivered[q], Head(outq[q])) \in Seq(Msg)
  BY <1>1, <1>2, HeadTailProperties, AppendProperties
<1>4. /\ outq' = [r \in OutPorts |-> IF r = q THEN Tail(outq[q]) ELSE outq[r]]
      /\ delivered' = [r \in OutPorts |-> IF r = q THEN Append(delivered[q], Head(outq[q])) ELSE delivered[r]]
  BY <1>2 DEF OutputInv
<1>5. Append(delivered[q], Head(outq[q])) \o Tail(outq[q]) = delivered[q] \o outq[q]
  <2> DEFINE d == delivered[q]  o == outq[q]
  <2>1. d \in Seq(Msg) /\ o \in Seq(Msg) /\ o # <<>>  BY <1>1, <1>2
  <2> HIDE DEF d, o
  <2> DEFINE s == Append(d, Head(o)) \o Tail(o)  t == d \o o
  <2>2. s \in Seq(Msg) /\ t \in Seq(Msg)  BY <2>1
  <2>3. Len(s) = Len(t)  BY <2>1
  <2>4. \A i \in 1..Len(s) : s[i] = t[i]  BY <2>1
  <2> HIDE DEF s, t
  <2>5. s = t  BY <2>2, <2>3, <2>4, SeqEqual
  <2>. QED  BY <2>5 DEF s, t, d, o
<1>6. Out' = [r \in OutPorts |-> IF r = q THEN Append(delivered[q], Head(outq[q])) \o Tail(outq[q])
                                          ELSE delivered[r] \o outq[r]]
  BY <1>4 DEF Out, OutOf
<1>7. Out' = Out  BY <1>5, <1>6 DEF Out, OutOf
<1>. QED  BY <1>1, <1>3, <1>4, <1>7

\* Nothing taken.
LEMMA NothingTaken ==
    ASSUME UNCHANGED <<kind, sent, inq>>, kind.steps = "tick" => UNCHANGED branch
    PROVE  Mark' = Mark
BY DEF Mark

\* A message is taken off an in-edge: it is the one after those taken before.
LEMMA PopTakes ==
    ASSUME Flows, InputInv, NEW p \in InPorts, inq[p] # <<>>, Pop(p), UNCHANGED <<kind, sent>>,
           kind.steps # "tick"
    PROVE  /\ Head(inq[p]) = Mark[p] + 1 /\ Mark[p] \in Nat
           /\ Mark' = [Mark EXCEPT ![p] = Mark[p] + 1]
           /\ inq' \in [InPorts -> Seq(Int)] /\ \A r \in InPorts : Numbered(r)'
<1> DEFINE rest == Tail(inq[p])
<1>1. /\ \A r \in InPorts : inq[r] \in Seq(Int) /\ sent[r] \in Nat /\ Numbered(r)
      /\ inq' = [r \in InPorts |-> IF r = p THEN rest ELSE inq[r]]
  BY DEF InputInv, Pop
<1>2. /\ Len(inq[p]) \in Nat \ {0} /\ Head(inq[p]) = inq[p][1]
      /\ rest \in Seq(Int) /\ Len(rest) = Len(inq[p]) - 1
      /\ \A i \in 1..Len(rest) : rest[i] = inq[p][i + 1]
  BY <1>1, HeadTailProperties, EmptySeq
<1> HIDE DEF rest
<1>3. Mark[p] = sent[p] - Len(inq[p])  BY DEF Mark
<1>4. Head(inq[p]) = Mark[p] + 1 /\ Mark[p] \in Nat
  <2>1. 1 \in 1..Len(inq[p])  BY <1>2
  <2>2. inq[p][1] = sent[p] - Len(inq[p]) + 1 /\ Len(inq[p]) <= sent[p]  BY <1>1, <2>1 DEF Numbered
  <2>. QED  BY <1>1, <1>2, <1>3, <2>2
<1>5. inq' \in [InPorts -> Seq(Int)]  BY <1>1, <1>2
<1>6. inq'[p] = rest /\ \A r \in InPorts \ {p} : inq'[r] = inq[r]  BY <1>1
<1>7. Mark' = [r \in InPorts |-> sent[r] - Len(inq'[r])]  BY DEF Mark
<1>8. sent[p] - Len(inq'[p]) = Mark[p] + 1
  <2>1. sent[p] \in Nat /\ Len(rest) = Len(inq[p]) - 1 /\ Len(inq[p]) \in Nat  BY <1>1, <1>2
  <2>2. sent[p] - (Len(inq[p]) - 1) = (sent[p] - Len(inq[p])) + 1  BY <2>1
  <2>. QED  BY <1>3, <1>6, <2>1, <2>2
<1>9. Mark' = [Mark EXCEPT ![p] = Mark[p] + 1]
  <2>1. Mark = [r \in InPorts |-> sent[r] - Len(inq[r])]  BY DEF Mark
  <2>2. [Mark EXCEPT ![p] = Mark[p] + 1] = [r \in InPorts |-> IF r = p THEN Mark[p] + 1 ELSE sent[r] - Len(inq[r])]
    BY <2>1
  <2>. QED  BY <1>6, <1>7, <1>8, <2>2
<1>10. ASSUME NEW r \in InPorts PROVE Numbered(r)'
  <2>1. CASE r # p  BY <1>1, <1>6, <2>1 DEF Numbered
  <2>2. CASE r = p
    <3>1. Len(inq[p]) - 1 <= sent[p]  BY <1>1, <1>2 DEF Numbered
    <3>2. ASSUME NEW j \in 1..Len(rest)
          PROVE  rest[j] = sent[p] - Len(rest) + j
      <4>1. j + 1 \in 1..Len(inq[p]) /\ rest[j] = inq[p][j + 1]  BY <1>2
      <4>2. inq[p][j + 1] = sent[p] - Len(inq[p]) + (j + 1)  BY <1>1, <4>1 DEF Numbered
      <4>3. sent[p] \in Nat /\ Len(inq[p]) \in Nat /\ j \in Int  BY <1>1, <1>2
      <4>4. sent[p] - Len(inq[p]) + (j + 1) = sent[p] - (Len(inq[p]) - 1) + j  BY <4>3
      <4>. QED  BY <1>2, <4>1, <4>2, <4>4
    <3>. QED  BY <1>2, <1>6, <2>2, <3>1, <3>2 DEF Numbered
  <2>. QED  BY <2>1, <2>2
<1>. QED  BY <1>4, <1>5, <1>9, <1>10

\* A message of the upstream node gets the next number and stays to be taken.
LEMMA FeedGives ==
    ASSUME Flows, InputInv, Feed, UNCHANGED <<flowVars>>
    PROVE  InputInv' /\ Mark' = Mark
<1>1. PICK p \in open : /\ sent' = [sent EXCEPT ![p] = sent[p] + 1]
                        /\ inq' = [inq EXCEPT ![p] = Append(inq[p], sent[p] + 1)]
                        /\ UNCHANGED <<kind, open>>
  BY DEF Feed, InputInv
<1>2. /\ p \in InPorts /\ open \subseteq InPorts
      /\ \A r \in InPorts : inq[r] \in Seq(Int) /\ sent[r] \in Nat /\ Numbered(r)
  BY DEF InputInv
<1> DEFINE longer == Append(inq[p], sent[p] + 1)
<1>3. /\ longer \in Seq(Int) /\ Len(inq[p]) \in Nat /\ Len(longer) = Len(inq[p]) + 1
      /\ \A i \in 1..Len(inq[p]) : longer[i] = inq[p][i]
      /\ longer[Len(inq[p]) + 1] = sent[p] + 1
  BY <1>2
<1>4. /\ sent' = [r \in InPorts |-> IF r = p THEN sent[p] + 1 ELSE sent[r]]
      /\ inq' = [r \in InPorts |-> IF r = p THEN longer ELSE inq[r]]
  BY <1>1 DEF InputInv
<1> HIDE DEF longer
<1>5. sent' \in [InPorts -> Nat] /\ inq' \in [InPorts -> Seq(Int)]  BY <1>2, <1>3, <1>4
<1>6. ASSUME NEW r \in InPorts PROVE Numbered(r)' /\ sent'[r] - Len(inq'[r]) = sent[r] - Len(inq[r])
  <2>1. CASE r # p
    <3>1. sent'[r] = sent[r] /\ inq'[r] = inq[r]  BY <1>4, <2>1
    <3>. QED  BY <1>2, <3>1 DEF Numbered
  <2>2. CASE r = p
    <3>1. sent'[r] = sent[p] + 1 /\ inq'[r] = longer  BY <1>2, <1>4, <2>2
    <3>2. Len(inq[p]) <= sent[p] /\ \A j \in 1..Len(inq[p]) : inq[p][j] = sent[p] - Len(inq[p]) + j
      BY <1>2 DEF Numbered
    <3>3. sent[p] \in Nat  BY <1>2
    <3>4. ASSUME NEW j \in 1..Len(longer) PROVE longer[j] = (sent[p] + 1) - Len(longer) + j
      <4>1. CASE j \in 1..Len(inq[p])
        <5>1. longer[j] = sent[p] - Len(inq[p]) + j  BY <1>3, <3>2, <4>1
        <5>2. sent[p] \in Int /\ Len(inq[p]) \in Int /\ j \in Int  BY <1>3, <3>3, <4>1
        <5>3. \A a, b, c \in Int : a - b + c = (a + 1) - (b + 1) + c  OBVIOUS
        <5>4. sent[p] - Len(inq[p]) + j = (sent[p] + 1) - (Len(inq[p]) + 1) + j  BY <5>2, <5>3
        <5>. QED  BY <1>3, <5>1, <5>4
      <4>2. CASE j = Len(inq[p]) + 1
        <5>1. longer[j] = sent[p] + 1  BY <1>3, <4>2
        <5>. QED  BY <1>3, <3>3, <4>2, <5>1
      <4>. QED  BY <1>3, <4>1, <4>2
    <3>5. Len(longer) <= sent[p] + 1 /\ (sent[p] + 1) - Len(longer) = sent[p] - Len(inq[p])
      BY <1>3, <3>2, <3>3
    <3>. QED  BY <2>2, <3>1, <3>4, <3>5 DEF Numbered
  <2>. QED  BY <2>1, <2>2
<1>7. Mark' = Mark  BY <1>1, <1>6 DEF Mark, flowVars
<1>. QED  BY <1>1, <1>2, <1>5, <1>6, <1>7 DEF InputInv, flowVars

\* Several messages at once are taken off the first in-edge.
LEMMA ChunkTakes ==
    ASSUME Flows, InputInv, BudgetInv, ReadChunk
    PROVE  InputInv' /\ Mark' \in Marks /\ \A p \in InPorts : Mark[p] <= Mark'[p]
<1>1. UNCHANGED <<kind, sent, open, flowVars>>  BY DEF ReadChunk
<1>2. \A r \in InPorts : inq[r] \in Seq(Int) /\ sent[r] \in Nat /\ Numbered(r)  BY DEF InputInv
<1>3. 1 \in InPorts  BY DEF InPorts
<1> DEFINE n == ToProcess  rest == SubSeq(inq[1], n + 1, Len(inq[1]))
<1>4. Len(inq[1]) \in Nat /\ sent[1] \in Nat /\ inq[1] \in Seq(Int)  BY <1>2, <1>3
<1>5. n \in Nat /\ n <= Len(inq[1])  BY <1>4 DEF ToProcess, Min2, BudgetInv
<1>6. inq' = [r \in InPorts |-> IF r = 1 THEN rest ELSE inq[r]]  BY DEF ReadChunk, InputInv
<1> HIDE DEF n
<1>7. /\ rest \in Seq(Int) /\ Len(rest) = Len(inq[1]) - n
      /\ \A i \in 1..Len(rest) : rest[i] = inq[1][n + i]
  <2> DEFINE s == inq[1]
  <2>1. s \in Seq(Int) /\ Len(s) \in Nat  BY <1>4
  <2> HIDE DEF s
  <2>2. \A i \in (n + 1)..Len(s) : s[i] \in Int  BY <1>5, <2>1
  <2>3. /\ SubSeq(s, n + 1, Len(s)) \in Seq(Int)
        /\ Len(SubSeq(s, n + 1, Len(s))) = IF n + 1 <= Len(s) THEN Len(s) - (n + 1) + 1 ELSE 0
        /\ \A i \in 1..(Len(s) - (n + 1) + 1) : SubSeq(s, n + 1, Len(s))[i] = s[(n + 1) + i - 1]
    BY <1>5, <2>1, <2>2, SubSeqProperties
  <2> DEFINE t == SubSeq(s, n + 1, Len(s))
  <2> HIDE DEF t
  <2>4. n <= Len(s)  BY <1>5 DEF s
  <2>5. Len(t) = Len(s) - n  BY <1>5, <2>1, <2>3, <2>4 DEF t
  <2>6. ASSUME NEW i \in 1..Len(t) PROVE t[i] = s[n + i]
    <3>1. i \in 1..(Len(s) - (n + 1) + 1) /\ (n + 1) + i - 1 = n + i  BY <1>5, <2>1, <2>5
    <3>. QED  BY <2>3, <3>1 DEF t
  <2>. QED  BY <2>3, <2>5, <2>6 DEF s, t
<1> HIDE DEF rest
<1>8. inq' \in [InPorts -> Seq(Int)]  BY <1>2, <1>6, <1>7
<1>9. inq'[1] = rest /\ \A r \in InPorts \ {1} : inq'[r] = inq[r]  BY <1>3, <1>6
<1>10. ASSUME NEW r \in InPorts PROVE Numbered(r)' /\ sent[r] - Len(inq[r]) <= sent[r] - Len(inq'[r])
  <2>1. CASE r # 1
    <3>1. Len(inq[r]) \in Nat /\ sent[r] \in Nat  BY <1>2
    <3>. QED  BY <1>1, <1>2, <1>9, <2>1, <3>1 DEF Numbered
  <2>2. CASE r = 1
    <3>1. Len(inq[1]) <= sent[1] /\ \A j \in 1..Len(inq[1]) : inq[1][j] = sent[1] - Len(inq[1]) + j
      BY <1>2, <1>3 DEF Numbered
    <3>2. ASSUME NEW j \in 1..Len(rest) PROVE rest[j] = sent[1] - Len(rest) + j
      <4>1. n + j \in 1..Len(inq[1])  BY <1>4, <1>5, <1>7
      <4>2. rest[j] = sent[1] - Len(inq[1]) + (n + j)  BY <1>7, <3>1, <4>1
      <4>. QED  BY <1>4, <1>5, <1>7, <4>2
    <3>3. Len(rest) <= sent[1] /\ sent[1] - Len(inq[1]) <= sent[1] - Len(rest)
      BY <1>4, <1>5, <1>7, <3>1
    <3>. QED  BY <1>1, <1>9, <2>2, <3>2, <3>3 DEF Numbered
  <2>. QED  BY <2>1, <2>2
<1>11. kind.steps # "tick"  BY DEF ReadChunk
<1>12. Mark = [r \in InPorts |-> sent[r] - Len(inq[r])] /\ Mark' = [r \in InPorts |-> sent[r] - Len(inq'[r])]
  BY <1>1, <1>11 DEF Mark
<1>13. \A r \in InPorts : sent[r] - Len(inq'[r]) \in Int
  <2>1. \A r \in InPorts : Len(inq'[r]) \in Nat  BY <1>8
  <2>. QED  BY <1>2, <2>1
<1>14. Mark' \in Marks /\ \A p \in InPorts : Mark[p] <= Mark'[p]  BY <1>10, <1>12, <1>13 DEF Marks
<1>. QED  BY <1>1, <1>8, <1>10, <1>14 DEF InputInv, flowVars

\* A dataflow component takes its own steps only.
LEMMA FlowSteps ==
    ASSUME IsDataflow, StepsInv, Next
    PROVE  ((Neighbours \/ Activate) /\ UNCHANGED flowVars) \/ DataflowStep
<1>1. /\ ~IsServer /\ ~IsChat /\ kind.family = "dataflow" /\ kind \notin PollerKinds
  BY PollerKindsAre DEF IsDataflow, IsServer, IsChat, PollerKind
<1>2. phase \notin {"names", "open", "tail", "load", "run", "query", "serve", "request", "response"}
  BY DEF StepsInv
<1>3. ~ServerStep
  BY <1>1 DEF ServerStep, Listen, FlushOutbound, Accept, Handshake, ReadClient, ReadDone,
         RouteResponse, RetryResponse, SendResponse, QueueResponse, EndServer
<1>4. ~HttpStep
  BY <1>2 DEF HttpStep, ServeClient, ServeDone, SendRequest, RequestsSent, TakeResponse,
              ResponsesTaken
<1>5. ~PollerStep
  <2>1. ~(TakeName \/ FlushPending \/ OpenFile \/ TailFile \/ EndPoll \/ LoadConfig \/ StartChild
          \/ ClientRequest)
    BY <1>1, <1>2 DEF TakeName, FlushPending, OpenFile, TailFile, EndPoll, LoadConfig, StartChild,
                ClientRequest
  <2>2. ~(ReadFile \/ FinishRead \/ ChildRuns \/ WakeForLine \/ TakeLine \/ CheckChild
          \/ ResetChild \/ CmdEof \/ ClientResult)
    BY <1>1 DEF ReadFile, FinishRead, ChildRuns, WakeForLine, TakeLine, CheckChild, ResetChild, CmdEof,
           ClientResult, PollerKinds
  <2>. QED  BY <2>1, <2>2 DEF PollerStep
<1>6. ~ChatStep
  BY <1>1 DEF ChatStep, ChatApply, ChatLogin, ChatOperate, ChatShutdown, Dispatch, DispatcherWake,
     ChatWaiting, ChatPrompt, ChatResult, ChatDeliver, ChatInput, ChatSend, ChatEnd, ChatDrop
<1>. QED  BY <1>1, <1>3, <1>4, <1>5, <1>6 DEF Next

-----------------------------------------------------------------------------
(* The in-edges, the vectors and the phases.                               *)

\* A step that leaves the in-edges alone.
LEMMA InputStays ==
    ASSUME Flows, InputInv, UNCHANGED <<kind, sent, inq>>, open' \subseteq open,
           port' = port \/ port' = 1 \/ port' \in kind.inports
    PROVE  InputInv'
<1>1. \A p \in InPorts : Numbered(p)'  BY DEF InputInv, Numbered
<1>. QED  BY <1>1 DEF InputInv, Flows, IsDataflow

\* A step that takes a message off one.
LEMMA InputPop ==
    ASSUME Flows, InputInv, NEW p \in InPorts, inq[p] # <<>>, Pop(p), UNCHANGED <<kind, sent, open>>,
           kind.steps # "tick", port' = port \/ port' = 1 \/ port' \in kind.inports
    PROVE  InputInv'
<1>1. inq' \in [InPorts -> Seq(Int)] /\ \A r \in InPorts : Numbered(r)'  BY PopTakes
<1>. QED  BY <1>1 DEF InputInv, Flows, IsDataflow

\* The loop over an in-edge ends.
LEMMA LeaveLoopTo ==
    ASSUME NEW left, NEW units, LeaveLoop(left, units)
    PROVE  /\ port' = 1 \/ port' \in kind.inports
           /\ phase' \in {"work", AfterLoop} /\ ended' = ended
BY GotoTo DEF LeaveLoop

\* The in-edge a loop reads is an in-edge.
LEMMA PortIs ==
    ASSUME Flows, InputInv, PortInv
    PROVE  port \in InPorts /\ (kind \in Keepers => port = 1) /\ 1 \in InPorts
BY FlowsIs DEF InputInv, FlowRecord, InPorts, Keepers

\* Every step keeps the in-edges numbered.
LEMMA InputStep ==
    ASSUME Flows, InputInv, PortInv, StepsInv, BudgetInv, Next
    PROVE  InputInv'
<1>1. UNCHANGED kind  BY KindStays
<1>2. ASSUME Neighbours, UNCHANGED flowVars PROVE InputInv'
  <2>1. CASE Feed  BY <1>2, <2>1, FeedGives
  <2>2. CASE Close \/ Configure \/ Drain \/ TimerFires
    <3>1. UNCHANGED <<inq, sent, port>> /\ open' \subseteq open
      BY <1>2, <2>2 DEF Close, Configure, Drain, TimerFires, edges, flowVars
    <3>. QED  BY <1>1, <3>1, InputStays
  <2>. QED  BY <1>2, <2>1, <2>2 DEF Neighbours
<1>3. ASSUME Activate, UNCHANGED flowVars PROVE InputInv'
  BY <1>1, <1>3, InputStays DEF Activate, edges, flowVars
<1>4. ASSUME \/ TakeConfig \/ Flush \/ Eof \/ EmitResult \/ EmitLine \/ Report \/ CountEof
             \/ DelayLoop \/ Release \/ DelayEof \/ CronRetry \/ CronTick \/ CronIdle
      PROVE  InputInv'
  <2>1. UNCHANGED <<inq, sent, open, port>>
    BY <1>4 DEF TakeConfig, Flush, Eof, EmitResult, EmitLine, Report, CountEof, DelayLoop,
                Release, DelayEof, CronRetry, CronTick, CronIdle, edges, flowVars
  <2>. QED  BY <1>1, <2>1, InputStays
<1>5. ASSUME EndLoop PROVE InputInv'
  <2>1. UNCHANGED <<inq, sent, open>> /\ (port' = 1 \/ port' \in kind.inports)
    BY <1>5, LeaveLoopTo DEF EndLoop, edges
  <2>. QED  BY <1>1, <2>1, InputStays
<1>6. ASSUME Forward PROVE InputInv'
  <2>1. /\ inq[port] # <<>> /\ Pop(port) /\ UNCHANGED <<sent, open>>
        /\ port' = port \/ port' = 1 \/ port' \in kind.inports
        /\ kind.steps # "tick"
    BY <1>6, LeaveLoopTo DEF Forward, InputOver
  <2>. QED  BY <1>1, <2>1, PortIs, InputPop
<1>7. ASSUME ReadParts PROVE InputInv'
  <2>1. port = 1  BY <1>7 DEF ReadParts, PortInv, Flows, IsDataflow
  <2>2. UNCHANGED inq \/ (inq[1] # <<>> /\ Pop(1))  BY <1>7, <2>1 DEF ReadParts, InputOver
  <2>3. UNCHANGED <<sent, open, port>> /\ kind.steps # "tick"  BY <1>7 DEF ReadParts
  <2>. QED  BY <1>1, <2>2, <2>3, PortIs, InputPop, InputStays
<1>8. ASSUME TakeDelayed PROVE InputInv'
  <2>1. UNCHANGED inq \/ (inq[1] # <<>> /\ Pop(1))  BY <1>8 DEF TakeDelayed
  <2>2. UNCHANGED <<sent, open, port>>  BY <1>8 DEF TakeDelayed
  <2>3. kind.steps # "tick"  BY <1>8, DelayIs DEF TakeDelayed, StepsInv, Flows
  <2>. QED  BY <1>1, <2>1, <2>2, <2>3, PortIs, InputPop, InputStays
<1>9. ASSUME ReadChunk PROVE InputInv'  BY <1>9, ChunkTakes
<1>. QED  BY <1>2, <1>3, <1>4, <1>5, <1>6, <1>7, <1>8, <1>9, FlowSteps DEF DataflowStep, Flows

\* Every step keeps to the phases of the component.
LEMMA StepsStep ==
    ASSUME IsDataflow, StepsInv, PortInv, Next
    PROVE  StepsInv'
<1>1. UNCHANGED kind /\ IsDataflow'  BY KindStays DEF IsDataflow
<1>2. /\ kind.first \in {"config", "flush", "work"}
      /\ (kind.steps = "delay" => kind = Delay) /\ kind.refuses \subseteq {"finished", "panicked"}
  BY FlowIs DEF FlowKind, FlowRecord
<1>3. /\ AfterLoop = IF kind.full = "report" THEN "report" ELSE "eof"
      /\ AfterConfig \in {"flush", "work", "tick"}
      /\ (AfterConfig = "tick" => kind.steps = "tick")
  BY <1>2 DEF AfterLoop, AfterConfig
<1>4. ASSUME UNCHANGED <<phase, ended, line_iter>> PROVE StepsInv'
  BY <1>1, <1>4 DEF StepsInv
<1>5. ASSUME ended' = "no" \/ (phase' = "retired" /\ ended' \in {"finished", "panicked"}),
             \/ phase' \in {"idle", "retired", "config", "flush", "work", "eof"}
             \/ phase' = "report" /\ kind.full = "report"
      PROVE  StepsInv'
  BY <1>1, <1>5 DEF StepsInv
<1>6. ASSUME Neighbours, UNCHANGED flowVars PROVE StepsInv'
  BY <1>4, <1>6, NeighboursCall DEF call, flowVars
<1>7. ended = "no" \/ phase = "retired"  BY DEF StepsInv
<1>8. ASSUME Activate PROVE StepsInv'  BY <1>2, <1>5, <1>7, <1>8 DEF Activate
<1>9. ASSUME TakeConfig PROVE StepsInv'
  <2>1. ended = "no"  BY <1>7, <1>9 DEF TakeConfig
  <2>2. CASE Goto(AfterConfig, remaining_budget, work_units + kind.confcost)
             \/ Goto(AfterConfig, remaining_budget, work_units)
    BY <1>1, <1>3, <2>1, <2>2, GotoTo DEF StepsInv
  <2>3. CASE NoWork(ready) \/ DidWork(1, remaining_budget, ready)
    BY <1>2, <1>5, <2>1, <2>3, NoWorkTo, DidWorkTo
  <2>4. CASE \E why \in kind.refuses : Retire(why)  BY <1>2, <1>5, <2>4, RetireTo
  <2>. QED  BY <1>9, <2>2, <2>3, <2>4 DEF TakeConfig
<1>10. ASSUME Flush \/ EndLoop PROVE StepsInv'
  BY <1>3, <1>5, <1>7, <1>10, GotoTo, LeaveLoopTo DEF Flush, EndLoop
<1>11. ASSUME Forward PROVE StepsInv'
  BY <1>3, <1>5, <1>7, <1>11, GotoTo, LeaveLoopTo, RetireTo DEF Forward
<1>12. ASSUME Eof \/ CountEof \/ DelayEof PROVE StepsInv'
  BY <1>2, <1>5, <1>7, <1>12, ResultTo, RetireTo DEF Eof, CountEof, DelayEof
<1>13. ASSUME ReadParts PROVE StepsInv'
  <2>1. ended' = "no"  BY <1>7, <1>13, GotoTo DEF ReadParts
  <2>2. \/ phase' = "emit" /\ line_iter' # <<>>
        \/ phase' = "eof"
    BY <1>13, GotoTo DEF ReadParts
  <2>3. kind.steps \in {"several", "lines"}  BY <1>13 DEF ReadParts
  <2>. QED  BY <1>1, <2>1, <2>2, <2>3 DEF StepsInv
<1>14. ASSUME EmitResult PROVE StepsInv'
  <2>1. \/ phase' = "work" /\ ended' = ended
        \/ phase' = "retired" /\ ended' = "panicked"
        \/ phase' = "emit" /\ ended' = ended /\ line_iter' # <<>>
    <3>1. line_iter' = <<Tail(line_iter[1])>> => line_iter' # <<>>  OBVIOUS
    <3>. QED  BY <1>14, <3>1, GotoTo, RetireTo DEF EmitResult
  <2>2. ended = "no" /\ kind.steps = "several"  BY <1>7, <1>14 DEF EmitResult
  <2>. QED  BY <1>1, <2>1, <2>2 DEF StepsInv
<1>15. ASSUME EmitLine PROVE StepsInv'
  <2>1. \/ phase' = "eof" /\ ended' = ended
        \/ phase' = "emit" /\ ended' = ended /\ line_iter' # <<>>
    <3>1. line_iter' = <<Tail(line_iter[1])>> => line_iter' # <<>>  OBVIOUS
    <3>. QED  BY <1>15, <3>1, GotoTo DEF EmitLine
  <2>2. ended = "no" /\ kind.steps = "lines"  BY <1>7, <1>15 DEF EmitLine
  <2>. QED  BY <1>1, <2>1, <2>2 DEF StepsInv
<1>16. ASSUME ReadChunk PROVE StepsInv'  BY <1>5, <1>7, <1>16, GotoTo DEF ReadChunk
<1>17. ASSUME Report PROVE StepsInv'  BY <1>5, <1>7, <1>17, GotoTo DEF Report
<1>18. ASSUME DelayLoop \/ Release \/ TakeDelayed PROVE StepsInv'
  <2>1. kind = Delay /\ ended = "no"
    BY <1>2, <1>7, <1>18 DEF DelayLoop, Release, TakeDelayed, StepsInv
  <2>2. /\ phase' \in {"work", "release", "take", "eof", "retired"}
        /\ (phase' = "retired" /\ ended' = "panicked") \/ ended' = ended
    <3>1. CASE DelayLoop  BY <3>1, GotoTo DEF DelayLoop
    <3>2. CASE Release  BY <3>2, GotoTo, RetireTo DEF Release
    <3>3. CASE TakeDelayed  BY <3>3, GotoTo, RetireTo DEF TakeDelayed
    <3>. QED  BY <1>18, <3>1, <3>2, <3>3
  <2>. QED  BY <1>1, <2>1, <2>2 DEF StepsInv
<1>19. ASSUME CronRetry \/ CronTick \/ CronIdle PROVE StepsInv'
  BY <1>2, <1>5, <1>7, <1>19, NoWorkTo, DidWorkTo, RetireTo DEF CronRetry, CronTick, CronIdle
<1>. QED
  BY <1>6, <1>8, <1>9, <1>10, <1>11, <1>12, <1>13, <1>14, <1>15, <1>16, <1>17, <1>18, <1>19, FlowSteps
  DEF DataflowStep

-----------------------------------------------------------------------------
(* What each kind of step does to what was sent and what is held.          *)

Lines == kind.steps \in {"several", "lines"}

\* The components with an iterator hold nothing, and none keeps both ways.
LEMMA LinesHoldNothing ==
    ASSUME Flows, PortInv, OutputInv, Lines
    PROVE  kind \notin Keepers /\ kind # Delay /\ pending = <<>>
<1>1. kind \notin Keepers  BY FlowsIs DEF FlowRecord, Keepers, Lines
<1>2. kind # Delay  BY DelayIs DEF Lines
<1>. QED  BY <1>1, <1>2 DEF OutputInv

\* A step that sends and holds nothing new, whatever it takes and drops.
LEMMA FlowStays ==
    ASSUME Flows, InputInv, OutputInv, FlowInv, UNCHANGED <<kind, pending>>, Out' = Out,
           outq' \in [OutPorts -> Seq(Msg)], delivered' \in [OutPorts -> Seq(Msg)], branch' \in Nat,
           line_iter' = line_iter \/ line_iter' = <<>>,
           Mark' \in Marks, \A p \in InPorts : Mark[p] <= Mark'[p], Lines => Mark' = Mark
    PROVE  OutputInv' /\ FlowInv'
<1>1. Flows'  BY DEF Flows, IsDataflow
<1>2. OutputInv'  BY DEF OutputInv
<1>3. Distinct(Out, pending)'  BY DEF FlowInv
<1>4. Taken(Out, pending, Mark)'
  <2>1. Taken(Out, pending, Mark')  BY Values, TakenOn DEF FlowInv
  <2>. QED  BY <2>1
<1>5. (kind \notin Keepers => Ordered(Out, pending))'  BY DEF FlowInv
<1>6. (kind.steps \in {"several", "lines"} /\ line_iter # <<>> => Later(line_iter[1], Out, Mark))'
  <2> SUFFICES ASSUME Lines, line_iter' # <<>> PROVE Later(line_iter[1], Out, Mark)'
    BY DEF Lines
  <2>1. Later(line_iter[1], Out, Mark)  BY DEF FlowInv, Lines
  <2>. QED  BY <2>1
<1>. QED  BY <1>2, <1>3, <1>4, <1>5, <1>6 DEF FlowInv

\* A new output is sent.
LEMMA FlowSends ==
    ASSUME Flows, PortInv, InputInv, OutputInv, FlowInv, NEW q \in OutPorts, NEW x \in Msg,
           Push(q, x), UNCHANGED <<kind, delivered, pending, line_iter>>, branch' \in Nat,
           Fresh(x, Mark), Mark' \in Marks, \A p \in InPorts : Mark[p] <= Mark'[p],
           x[2] <= Mark'[x[1]], ~Lines, kind # Delay
    PROVE  OutputInv' /\ FlowInv' /\ Out' = Sending(Out, q, x)
<1>1. Flows'  BY DEF Flows, IsDataflow
<1>2. Out' = Sending(Out, q, x) /\ outq' \in [OutPorts -> Seq(Msg)]  BY PushSends
<1>3. OutputInv'  BY <1>2 DEF OutputInv
<1>4. Out \in Outs /\ pending \in Helds /\ Mark \in Marks  BY Values
<1>5. Distinct(Out, pending) /\ Taken(Out, pending, Mark)  BY DEF FlowInv
<1>6. /\ \A r \in OutPorts : \A i \in 1..Len(Out[r]) : Out[r][i] # x /\ Before(Out[r][i], x)
      /\ \A i \in 1..Len(pending) : pending[i][2] # x
  BY <1>4, <1>5, FreshFollows
<1>7. Distinct(Sending(Out, q, x), pending)  BY <1>4, <1>5, <1>6, DistinctSending
<1>8. Taken(Sending(Out, q, x), pending, Mark')
  <2>1. Taken(Out, pending, Mark')  BY <1>4, <1>5, TakenOn
  <2>. QED  BY <1>4, <2>1, TakenSending
<1>9. kind \notin Keepers => Ordered(Sending(Out, q, x), pending)
  <2> SUFFICES ASSUME kind \notin Keepers PROVE Ordered(Sending(Out, q, x), pending)  OBVIOUS
  <2>1. pending = <<>>  BY DEF OutputInv
  <2>2. \A i \in 1..Len(pending) : Before(x, pending[i][2])  BY <2>1
  <2>3. Ordered(Out, pending)  BY DEF FlowInv
  <2>. QED  BY <1>4, <1>6, <2>2, <2>3, OrderedSending
<1>. QED  BY <1>1, <1>2, <1>3, <1>7, <1>8, <1>9 DEF FlowInv, Lines

\* A new output is held.
LEMMA FlowHolds ==
    ASSUME Flows, PortInv, InputInv, OutputInv, FlowInv, NEW q \in OutPorts, NEW x \in Msg,
           pending' = Append(pending, <<q, x>>), UNCHANGED <<kind, outq, delivered, line_iter, branch>>,
           Fresh(x, Mark), Mark' \in Marks, \A p \in InPorts : Mark[p] <= Mark'[p],
           x[2] <= Mark'[x[1]], kind \in Keepers \cup {Delay}
    PROVE  OutputInv' /\ FlowInv' /\ Out' = Out
<1>1. Flows'  BY DEF Flows, IsDataflow
<1>2. Out' = Out  BY NothingSent
<1>3. Out \in Outs /\ pending \in Helds /\ Mark \in Marks  BY Values
<1>4. pending' \in Helds  BY <1>3, HoldingAt
<1>5. OutputInv'  BY <1>4 DEF OutputInv, Helds
<1>6. Distinct(Out, pending) /\ Taken(Out, pending, Mark)  BY DEF FlowInv
<1>7. /\ \A r \in OutPorts : \A i \in 1..Len(Out[r]) : Out[r][i] # x /\ Before(Out[r][i], x)
      /\ \A i \in 1..Len(pending) : pending[i][2] # x /\ Before(pending[i][2], x)
  BY <1>3, <1>6, FreshFollows
<1>8. Distinct(Out, pending')  BY <1>3, <1>6, <1>7, DistinctHolding
<1>9. Taken(Out, pending', Mark')
  <2>1. Taken(Out, pending, Mark')  BY <1>3, <1>6, TakenOn
  <2>. QED  BY <1>3, <2>1, TakenHolding
<1>10. kind \notin Keepers => Ordered(Out, pending')
  <2> SUFFICES ASSUME kind \notin Keepers PROVE Ordered(Out, pending')  OBVIOUS
  <2>1. Ordered(Out, pending)  BY DEF FlowInv
  <2>. QED  BY <1>3, <1>7, <2>1, OrderedHolding
<1>11. ~Lines  BY LinesHoldNothing
<1>. QED  BY <1>1, <1>2, <1>5, <1>8, <1>9, <1>10, <1>11 DEF FlowInv, Lines

\* The first that is held is sent.
LEMMA FlowReleases ==
    ASSUME Flows, PortInv, InputInv, OutputInv, FlowInv, NEW q \in OutPorts, pending # <<>>,
           Push(q, pending[1][2]), pending' = Tail(pending),
           UNCHANGED <<kind, sent, inq, delivered, line_iter, branch>>
    PROVE  OutputInv' /\ FlowInv' /\ Out' = Sending(Out, q, pending[1][2]) /\ Mark' = Mark
<1> DEFINE x == pending[1][2]
<1>1. Flows'  BY DEF Flows, IsDataflow
<1>2. Out \in Outs /\ pending \in Helds /\ Mark \in Marks  BY Values
<1>3. Tail(pending) \in Helds /\ x \in Msg  BY <1>2, RestAt
<1>4. Out' = Sending(Out, q, x) /\ outq' \in [OutPorts -> Seq(Msg)]  BY <1>3, PushSends
<1>5. Mark' = Mark  BY NothingTaken
<1>6. OutputInv'  BY <1>3, <1>4 DEF OutputInv, Helds
<1> HIDE DEF x
<1>7. Distinct(Out, pending) /\ Taken(Out, pending, Mark)  BY DEF FlowInv
<1>8. Distinct(Sending(Out, q, x), Tail(pending))
  <2>1. /\ Distinct(Out, Tail(pending))
        /\ \A r \in OutPorts : \A i \in 1..Len(Out[r]) : Out[r][i] # x
        /\ \A i \in 1..Len(Tail(pending)) : Tail(pending)[i][2] # x
    BY <1>2, <1>7, DistinctRest DEF x
  <2>. QED  BY <1>2, <1>3, <2>1, DistinctSending
<1>9. Taken(Sending(Out, q, x), Tail(pending), Mark)
  <2>1. Taken(Out, Tail(pending), Mark) /\ x[2] <= Mark[x[1]]  BY <1>2, <1>7, TakenRest DEF x
  <2>. QED  BY <1>2, <1>3, <2>1, TakenSending
<1>10. kind \notin Keepers => Ordered(Sending(Out, q, x), Tail(pending))
  <2> SUFFICES ASSUME kind \notin Keepers PROVE Ordered(Sending(Out, q, x), Tail(pending))  OBVIOUS
  <2>1. Ordered(Out, pending)  BY DEF FlowInv
  <2>2. /\ Ordered(Out, Tail(pending))
        /\ \A r \in OutPorts : \A i \in 1..Len(Out[r]) : Before(Out[r][i], x)
        /\ \A i \in 1..Len(Tail(pending)) : Before(x, Tail(pending)[i][2])
    BY <1>2, <2>1, OrderedRest DEF x
  <2>. QED  BY <1>2, <1>3, <2>2, OrderedSending
<1>11. ~Lines  BY LinesHoldNothing
<1>12. FlowInv'  BY <1>1, <1>4, <1>5, <1>8, <1>9, <1>10, <1>11 DEF FlowInv, Lines
<1>. QED  BY <1>4, <1>5, <1>6, <1>12 DEF x

\* A message is read whose outputs are to be sent one by one.
LEMMA FlowReads ==
    ASSUME Flows, PortInv, InputInv, OutputInv, FlowInv, Lines, inq[1] # <<>>, Pop(1),
           NEW items \in Outputs(Head(inq[1])), line_iter' = <<items>>,
           UNCHANGED <<kind, sent, outq, delivered, pending, branch>>
    PROVE  OutputInv' /\ FlowInv'
<1>1. Flows'  BY DEF Flows, IsDataflow
<1>2. Out' = Out  BY NothingSent
<1>3. Out \in Outs /\ Mark \in Marks  BY Values
<1>4. 1 \in InPorts /\ kind.steps # "tick"  BY DEF InPorts, Lines
<1>5. Head(inq[1]) = Mark[1] + 1 /\ Mark[1] \in Nat /\ Mark' = [Mark EXCEPT ![1] = Mark[1] + 1]
  BY <1>4, PopTakes
<1>6. Mark'[1] = Mark[1] + 1 /\ Mark'[1] \in Int /\ Mark[1] < Mark'[1] /\ Mark' \in Marks
      /\ \A p \in InPorts : Mark[p] <= Mark'[p]
  BY <1>3, <1>4, <1>5 DEF Marks
<1>7. PICK n \in kind.parts : items = [i \in 1..n |-> <<1, Head(inq[1]), i>>]  BY DEF Outputs
<1>8. n \in Nat /\ items = [i \in 1..n |-> <<1, Mark'[1], i>>]
  BY <1>5, <1>6, <1>7, FlowsIs DEF FlowRecord
<1>9. Distinct(Out, pending) /\ Taken(Out, pending, Mark) /\ Taken(Out, pending, Mark')
  BY <1>3, <1>6, TakenOn, Values DEF FlowInv
<1>10. items \in Seq(Msg) /\ Later(items, Out, Mark')  BY <1>3, <1>6, <1>8, <1>9, LaterStart
<1>11. line_iter'[1] = items  OBVIOUS
<1>12. OutputInv'  BY <1>10, <1>11 DEF OutputInv
<1>. QED  BY <1>1, <1>2, <1>9, <1>10, <1>11, <1>12 DEF FlowInv

\* The next of them is sent, or dropped.
LEMMA FlowEmits ==
    ASSUME Flows, PortInv, InputInv, OutputInv, FlowInv, Lines, line_iter # <<>>,
           line_iter[1] # <<>>, line_iter' = <<Tail(line_iter[1])>>,
           Push(1, Head(line_iter[1])) \/ UNCHANGED outq,
           UNCHANGED <<kind, inq, sent, delivered, pending, branch>>
    PROVE  OutputInv' /\ FlowInv'
<1> DEFINE items == line_iter[1]  x == Head(items)  rest == Tail(items)
<1>1. Flows'  BY DEF Flows, IsDataflow
<1>2. Out \in Outs /\ Mark \in Marks  BY Values
<1>3. Mark' = Mark  BY NothingTaken
<1>4. kind \notin Keepers /\ pending = <<>>  BY LinesHoldNothing
<1>5. items \in Seq(Msg)  BY DEF OutputInv
<1>6. Distinct(Out, <<>>) /\ Taken(Out, <<>>, Mark) /\ Ordered(Out, <<>>) /\ Later(items, Out, Mark)
  BY <1>4 DEF FlowInv, Lines
<1>7. /\ x \in Msg /\ x[2] <= Mark[x[1]]
      /\ \A q \in OutPorts : \A i \in 1..Len(Out[q]) : Out[q][i] # x /\ Before(Out[q][i], x)
      /\ rest \in Seq(Msg) /\ Later(rest, Out, Mark) /\ Later(rest, Sending(Out, 1, x), Mark)
  <2> HIDE DEF items
  <2>. QED  BY <1>2, <1>5, <1>6, LaterSend DEF items
<1>8. line_iter'[1] = rest  OBVIOUS
<1>9. 1 \in OutPorts /\ \A i \in 1..Len(<<>>) : <<>>[i][2] # x /\ Before(x, <<>>[i][2])  BY DEF OutPorts
<1>10. CASE UNCHANGED outq
  <2>1. Out' = Out  BY <1>10, NothingSent
  <2>2. OutputInv'  BY <1>7, <1>8, <1>10 DEF OutputInv
  <2> HIDE DEF rest
  <2>. QED  BY <1>1, <1>3, <1>4, <1>6, <1>7, <1>8, <2>1, <2>2 DEF FlowInv
<1>11. CASE Push(1, x)
  <2>1. Out' = Sending(Out, 1, x) /\ outq' \in [OutPorts -> Seq(Msg)]  BY <1>7, <1>9, <1>11, PushSends
  <2>2. OutputInv'  BY <1>7, <1>8, <2>1 DEF OutputInv
  <2> HIDE DEF x, rest
  <2>3. Distinct(Sending(Out, 1, x), <<>>)  BY <1>2, <1>6, <1>7, <1>9, DistinctSending
  <2>4. Taken(Sending(Out, 1, x), <<>>, Mark)  BY <1>2, <1>6, <1>7, <1>9, TakenSending
  <2>5. Ordered(Sending(Out, 1, x), <<>>)  BY <1>2, <1>6, <1>7, <1>9, OrderedSending
  <2>. QED  BY <1>1, <1>3, <1>4, <1>7, <1>8, <2>1, <2>2, <2>3, <2>4, <2>5 DEF FlowInv
<1>. QED  BY <1>10, <1>11

\* The output of a message that is just taken is a new one.
LEMMA PopIsFresh ==
    ASSUME Flows, InputInv, OutputInv, NEW p \in InPorts, inq[p] # <<>>, Pop(p),
           UNCHANGED <<kind, sent>>, kind.steps # "tick", NEW x, x = <<p, Head(inq[p]), 1>>
    PROVE  /\ x \in Msg /\ Fresh(x, Mark) /\ x[2] <= Mark'[x[1]]
           /\ Mark' \in Marks /\ \A r \in InPorts : Mark[r] <= Mark'[r]
           /\ x = <<p, Mark[p] + 1, 1>> /\ Mark[p] \in Nat /\ Mark'[p] = Mark[p] + 1
<1>1. Head(inq[p]) = Mark[p] + 1 /\ Mark[p] \in Nat /\ Mark' = [Mark EXCEPT ![p] = Mark[p] + 1]
  BY PopTakes
<1>2. Mark \in Marks  BY Values
<1>3. Mark' \in Marks /\ Mark'[p] = Mark[p] + 1 /\ \A r \in InPorts : Mark[r] <= Mark'[r]
  BY <1>1, <1>2 DEF Marks
<1>4. x[1] = p /\ x[2] = Mark[p] + 1  BY <1>1
<1>5. x \in Msg  BY <1>1 DEF Msg
<1>. QED  BY <1>1, <1>3, <1>4, <1>5 DEF Fresh

\* The out-edges a message may be routed to.
LEMMA DestIs == ASSUME Flows, OutputInv, PortInv PROVE Dest \subseteq OutPorts
<1>1. kind.route \in {"one", "any", "turn"}  BY FlowsIs DEF FlowRecord
<1>2. (branch % 3) + 1 \in 1..3  BY DEF OutputInv
<1>. QED  BY <1>1, <1>2 DEF Dest, OutPorts

\* Every step of a dataflow component keeps its outputs apart and in order.
LEMMA FlowStep ==
    ASSUME Flows, PortInv, BudgetInv, InputInv, OutputInv, StepsInv, FlowInv, Next
    PROVE  OutputInv' /\ FlowInv'
<1>1. UNCHANGED kind  BY KindStays
<1>2. Out \in Outs /\ pending \in Helds /\ Mark \in Marks  BY Values
<1>3. /\ outq \in [OutPorts -> Seq(Msg)] /\ delivered \in [OutPorts -> Seq(Msg)] /\ branch \in Nat
      /\ \A p \in InPorts : Mark[p] <= Mark[p]
  BY <1>2 DEF OutputInv, Marks
<1>4. ASSUME UNCHANGED <<sent, inq, outq, delivered, pending, branch>>,
             line_iter' = line_iter \/ line_iter' = <<>>
      PROVE  OutputInv' /\ FlowInv'
  BY <1>1, <1>2, <1>3, <1>4, NothingSent, NothingTaken, FlowStays
<1>5. ASSUME Neighbours, UNCHANGED flowVars PROVE OutputInv' /\ FlowInv'
  <2>1. UNCHANGED <<pending, line_iter, branch>>  BY <1>5 DEF flowVars
  <2>2. CASE Feed
    <3>1. Out' = Out /\ UNCHANGED <<outq, delivered>>  BY <2>2, NothingSent DEF Feed
    <3>2. Mark' = Mark  BY <1>5, <2>2, FeedGives
    <3>. QED  BY <1>1, <1>2, <1>3, <2>1, <3>1, <3>2, FlowStays
  <2>3. CASE Drain
    <3>1. /\ Out' = Out /\ outq' \in [OutPorts -> Seq(Msg)] /\ delivered' \in [OutPorts -> Seq(Msg)]
      BY <2>3, DrainSendsNothing
    <3>2. Mark' = Mark  BY <1>1, <2>1, <2>3, NothingTaken DEF Drain
    <3>. QED  BY <1>1, <1>2, <1>3, <2>1, <3>1, <3>2, FlowStays
  <2>4. CASE Close \/ Configure \/ TimerFires
    BY <1>4, <2>1, <2>4 DEF Close, Configure, TimerFires, edges
  <2>. QED  BY <1>5, <2>2, <2>3, <2>4 DEF Neighbours
<1>6. ASSUME Activate, UNCHANGED flowVars PROVE OutputInv' /\ FlowInv'
  BY <1>4, <1>6 DEF Activate, edges, flowVars
<1>7. ASSUME TakeConfig \/ EndLoop \/ Eof \/ DelayLoop \/ DelayEof \/ CronRetry \/ CronIdle
      PROVE  OutputInv' /\ FlowInv'
  <2>1. UNCHANGED <<sent, inq, outq, delivered, pending, branch, line_iter>>
    BY <1>7 DEF TakeConfig, EndLoop, Eof, DelayLoop, DelayEof, CronRetry, CronIdle, edges, flowVars
  <2>. QED  BY <1>4, <2>1
<1>8. ASSUME Flush PROVE OutputInv' /\ FlowInv'
  <2>1. CASE UNCHANGED <<outq, pending>>  BY <1>4, <1>8, <2>1 DEF Flush
  <2>2. CASE ~UNCHANGED <<outq, pending>>
    <3>1. /\ pending # <<>> /\ Push(pending[1][1], pending[1][2]) /\ pending' = Tail(pending)
          /\ UNCHANGED <<sent, inq, delivered, line_iter, branch>>
      BY <1>8, <2>2 DEF Flush
    <3>2. pending[1][1] \in OutPorts  BY <1>2, <3>1, RestAt
    <3>. QED  BY <1>1, <3>1, <3>2, FlowReleases
  <2>. QED  BY <2>1, <2>2
<1>9. ASSUME Forward PROVE OutputInv' /\ FlowInv'
  <2> DEFINE x == <<port, Head(inq[port]), 1>>
  <2>1. /\ inq[port] # <<>> /\ Pop(port) /\ kind.steps = "forward"
        /\ UNCHANGED <<sent, delivered, line_iter>>
    BY <1>9 DEF Forward, InputOver
  <2>2. port \in InPorts /\ kind # Delay /\ ~Lines  BY <2>1, PortIs, DelayIs DEF Lines
  <2>3. /\ x \in Msg /\ Fresh(x, Mark) /\ x[2] <= Mark'[x[1]]
        /\ Mark' \in Marks /\ \A r \in InPorts : Mark[r] <= Mark'[r]
    BY <1>1, <2>1, <2>2, PopIsFresh
  <2>4. CASE UNCHANGED <<outq, pending, branch>>
    BY <1>1, <1>3, <2>1, <2>2, <2>3, <2>4, NothingSent, FlowStays
  <2>5. ASSUME NEW q \in Dest, Push(q, x), UNCHANGED pending, branch' \in {branch, branch + 1}
        PROVE  OutputInv' /\ FlowInv'
    <3>1. q \in OutPorts /\ branch' \in Nat  BY <1>3, <2>5, DestIs
    <3> HIDE DEF x
    <3>. QED  BY <1>1, <2>1, <2>2, <2>3, <2>5, <3>1, FlowSends
  <2>6. ASSUME NEW q \in Dest, kind \in Keepers, pending' = Append(pending, <<q, x>>),
               UNCHANGED <<outq, branch>>
        PROVE  OutputInv' /\ FlowInv'
    <3>1. q \in OutPorts  BY <2>6, DestIs
    <3> HIDE DEF x
    <3>. QED  BY <1>1, <2>1, <2>3, <2>6, <3>1, FlowHolds
  <2>7. \/ UNCHANGED <<outq, pending, branch>>
        \/ \E q \in Dest : Push(q, x) /\ UNCHANGED pending /\ branch' \in {branch, branch + 1}
        \/ \E q \in Dest : /\ kind \in Keepers /\ pending' = Append(pending, <<q, x>>)
                           /\ UNCHANGED <<outq, branch>>
    BY <1>9 DEF Forward
  <2>. QED  BY <2>4, <2>5, <2>6, <2>7
<1>10. ASSUME ReadParts PROVE OutputInv' /\ FlowInv'
  <2>1. port = 1 /\ Lines  BY <1>10 DEF ReadParts, PortInv, Flows, IsDataflow, Lines
  <2>2. UNCHANGED <<sent, outq, delivered, pending, branch>>  BY <1>10 DEF ReadParts
  <2>3. CASE UNCHANGED <<inq, line_iter>>  BY <1>4, <2>2, <2>3
  <2>4. CASE /\ inq[1] # <<>> /\ Pop(1)
             /\ \E items \in Outputs(Head(inq[1])) : line_iter' = <<items>>
    BY <1>1, <2>1, <2>2, <2>4, FlowReads
  <2>. QED  BY <1>10, <2>1, <2>3, <2>4 DEF ReadParts, InputOver
<1>11. ASSUME EmitResult \/ EmitLine PROVE OutputInv' /\ FlowInv'
  <2>1. Lines /\ line_iter # <<>>  BY <1>11 DEF EmitResult, EmitLine, Lines, StepsInv, Flows
  <2>2. UNCHANGED <<inq, sent, delivered, pending, branch>>  BY <1>11 DEF EmitResult, EmitLine
  <2>3. CASE UNCHANGED outq /\ (line_iter' = line_iter \/ line_iter' = <<>>)  BY <1>4, <2>2, <2>3
  <2>4. CASE /\ line_iter[1] # <<>> /\ line_iter' = <<Tail(line_iter[1])>>
             /\ Push(1, Head(line_iter[1])) \/ UNCHANGED outq
    BY <1>1, <2>1, <2>2, <2>4, FlowEmits
  <2>5. CASE EmitResult  BY <2>3, <2>4, <2>5 DEF EmitResult
  <2>6. CASE EmitLine  BY <2>3, <2>4, <2>6 DEF EmitLine
  <2>. QED  BY <1>11, <2>5, <2>6
<1>12. ASSUME ReadChunk PROVE OutputInv' /\ FlowInv'
  <2>1. UNCHANGED <<outq, delivered, pending, branch, line_iter>>  BY <1>12 DEF ReadChunk, flowVars
  <2>2. Mark' \in Marks /\ \A p \in InPorts : Mark[p] <= Mark'[p]  BY <1>12, ChunkTakes
  <2>3. ~Lines  BY <1>12 DEF ReadChunk, Lines
  <2>. QED  BY <1>1, <1>3, <2>1, <2>2, <2>3, NothingSent, FlowStays
<1>13. ~Report /\ ~CountEof
  BY FlowsIs DEF Report, CountEof, StepsInv, FlowRecord, Flows
<1>14. ASSUME Release PROVE OutputInv' /\ FlowInv'
  <2>1. UNCHANGED <<inq, sent, delivered, line_iter, branch>>  BY <1>14 DEF Release
  <2>2. CASE UNCHANGED <<outq, pending>>  BY <1>4, <2>1, <2>2
  <2>3. CASE pending # <<>> /\ Push(1, pending[1][2]) /\ pending' = Tail(pending)
    <3>1. 1 \in OutPorts  BY DEF OutPorts
    <3>. QED  BY <1>1, <2>1, <2>3, <3>1, FlowReleases
  <2>. QED  BY <1>14, <2>2, <2>3 DEF Release
<1>15. ASSUME TakeDelayed PROVE OutputInv' /\ FlowInv'
  <2> DEFINE x == <<1, Head(inq[1]), 1>>
  <2>1. UNCHANGED <<sent, outq, delivered, line_iter, branch>>  BY <1>15 DEF TakeDelayed
  <2>2. kind = Delay /\ kind.steps # "tick"  BY <1>15, DelayIs DEF TakeDelayed, StepsInv, Flows
  <2>3. CASE UNCHANGED <<inq, pending>>  BY <1>4, <2>1, <2>3
  <2>4. CASE inq[1] # <<>> /\ Pop(1) /\ pending' = Append(pending, <<1, x>>)
    <3>1. 1 \in OutPorts /\ 1 \in InPorts  BY DEF OutPorts, InPorts
    <3>2. /\ x \in Msg /\ Fresh(x, Mark) /\ x[2] <= Mark'[x[1]]
          /\ Mark' \in Marks /\ \A r \in InPorts : Mark[r] <= Mark'[r]
      BY <1>1, <2>1, <2>2, <2>4, <3>1, PopIsFresh
    <3> HIDE DEF x
    <3>. QED  BY <1>1, <2>1, <2>2, <2>4, <3>1, <3>2, FlowHolds
  <2>. QED  BY <1>15, <2>3, <2>4 DEF TakeDelayed
<1>16. ASSUME CronTick PROVE OutputInv' /\ FlowInv'
  <2> DEFINE x == <<1, branch, 1>>
  <2>1. /\ Push(1, x) /\ branch' = branch + 1
        /\ UNCHANGED <<inq, sent, delivered, pending, line_iter>>
    BY <1>16 DEF CronTick
  <2>2. kind.steps = "tick" /\ ~Lines /\ kind # Delay
    BY <1>16, DelayIs DEF CronTick, StepsInv, Lines, Flows
  <2>3. 1 \in OutPorts /\ 1 \in InPorts  BY DEF OutPorts, InPorts
  <2>4. Mark = [p \in InPorts |-> branch - 1] /\ Mark' = [p \in InPorts |-> (branch + 1) - 1]
    BY <1>1, <2>1, <2>2 DEF Mark
  <2>5. /\ Mark' \in Marks /\ \A p \in InPorts : Mark[p] <= Mark'[p] /\ Mark'[p] = branch
        /\ Mark[1] = branch - 1
    BY <1>3, <2>3, <2>4 DEF Marks
  <2>6. x \in Msg  BY <1>3, <2>3 DEF Msg
  <2>7. x[1] = 1 /\ x[2] = branch  OBVIOUS
  <2>8. Fresh(x, Mark) /\ x[2] <= Mark'[x[1]]  BY <1>3, <2>3, <2>5, <2>7 DEF Fresh
  <2>9. branch' \in Nat  BY <1>3, <2>1
  <2> HIDE DEF x
  <2>. QED  BY <1>1, <2>1, <2>2, <2>3, <2>5, <2>6, <2>8, <2>9, FlowSends
<1>. QED
  BY <1>5, <1>6, <1>7, <1>8, <1>9, <1>10, <1>11, <1>12, <1>13, <1>14, <1>15, <1>16, FlowSteps
  DEF DataflowStep, Flows

-----------------------------------------------------------------------------
(* The components that keep what an edge refuses, and Delay.               *)

Keeps == kind \in Keepers \cup {Delay}

\* They make one output of each message, in the loops of their own.
LEMMA KeepsIs ==
    ASSUME Flows, PortInv, Keeps
    PROVE  /\ kind.steps \in {"forward", "delay"} /\ "finished" \notin kind.refuses
           /\ kind.full \notin {"report", "finish"} /\ (kind # Delay => kind.parts = {1})
           /\ (kind.steps = "forward" => kind \in Keepers)
BY FlowsIs, DelayIs DEF Keeps, Keepers, FlowRecord

\* Nothing was sent or held by mistake: a step that accounts for every message
\* and ends the node only when nothing is held.
LEMMA KeptGoesOn ==
    ASSUME UNCHANGED kind,
           Keeps /\ ended' # "panicked" => Kept(Out, pending, Mark[1])',
           Keeps /\ ended' = "finished" /\ kind.eof = "clean" => pending' = <<>>
    PROVE  KeptInv'
BY DEF KeptInv, Keeps

\* Every step accounts for what it takes.
LEMMA KeptStep ==
    ASSUME Flows, PortInv, InputInv, OutputInv, StepsInv, FlowInv, KeptInv, Next
    PROVE  KeptInv'
<1>1. UNCHANGED kind  BY KindStays
<1> SUFFICES ASSUME Keeps PROVE KeptInv'  BY <1>1 DEF Keeps, KeptInv
<1>2. /\ kind.steps \in {"forward", "delay"} /\ "finished" \notin kind.refuses
      /\ kind.full \notin {"report", "finish"} /\ (kind # Delay => kind.parts = {1})
      /\ (kind.steps = "forward" => kind \in Keepers)
  BY KeepsIs
<1>3. Out \in Outs /\ pending \in Helds /\ 1 \in OutPorts /\ 1 \in InPorts  BY Values DEF OutPorts, InPorts
<1>4. ASSUME UNCHANGED <<sent, inq>> PROVE Mark' = Mark  BY <1>1, <1>2, <1>4, NothingTaken
<1>5. ASSUME UNCHANGED <<ended, pending>>, Out' = Out, Mark' = Mark PROVE KeptInv'
  BY <1>1, <1>5 DEF KeptInv
<1>6. ASSUME Neighbours, UNCHANGED flowVars PROVE KeptInv'
  <2>1. UNCHANGED <<ended, pending>>  BY <1>6, NeighboursCall DEF call, flowVars
  <2>2. Out' = Out
    BY <1>6, NothingSent, DrainSendsNothing DEF Neighbours, Feed, Close, Configure, TimerFires, edges
  <2>3. Mark' = Mark
    <3>1. CASE Feed  BY <1>6, <3>1, FeedGives
    <3>2. CASE ~Feed  BY <1>4, <1>6, <3>2 DEF Neighbours, Close, Configure, Drain, TimerFires, edges
    <3>. QED  BY <3>1, <3>2
  <2>. QED  BY <1>5, <2>1, <2>2, <2>3
<1>7. ASSUME Activate, UNCHANGED flowVars PROVE KeptInv'
  BY <1>4, <1>5, <1>7, NothingSent DEF Activate, edges, flowVars
<1> SUFFICES ASSUME DataflowStep PROVE KeptInv'  BY <1>2, <1>6, <1>7, FlowSteps DEF Flows
<1>8. phase \notin {"retired", "report", "tick"} /\ ended = "no"
  <2>1. phase # "retired"
    BY DEF DataflowStep, TakeConfig, Flush, EndLoop, Forward, Eof, ReadParts, EmitResult, EmitLine,
       ReadChunk, Report, CountEof, DelayLoop, Release, TakeDelayed, DelayEof, CronRetry, CronTick, CronIdle
  <2>. QED  BY <1>2, <2>1 DEF StepsInv, Flows
<1>9. /\ Kept(Out, pending, Mark[1]) /\ Mark[1] \in Nat
  <2>1. Kept(Out, pending, Mark[1])  BY <1>8 DEF KeptInv, Keeps
  <2>2. Mark[1] = sent[1] - Len(inq[1])  BY <1>2, <1>3 DEF Mark
  <2>3. sent[1] \in Nat /\ Len(inq[1]) \in Nat /\ Len(inq[1]) <= sent[1]  BY <1>3 DEF InputInv, Numbered
  <2>. QED  BY <2>1, <2>2, <2>3
<1>10. ASSUME UNCHANGED <<sent, inq, outq, delivered, pending>>,
              ended' = "finished" /\ kind.eof = "clean" => pending = <<>>
       PROVE  KeptInv'
  <2>1. Out' = Out /\ Mark' = Mark  BY <1>4, <1>10, NothingSent
  <2>. QED  BY <1>1, <1>9, <1>10, <2>1, KeptGoesOn
<1>11. ASSUME TakeConfig PROVE KeptInv'
  <2>1. ended' = ended \/ ended' \in kind.refuses
    BY <1>11, GotoTo, NoWorkTo, DidWorkTo, RetireTo DEF TakeConfig
  <2>. QED  BY <1>2, <1>8, <1>10, <1>11, <2>1 DEF TakeConfig
<1>12. ASSUME Flush PROVE KeptInv'
  <2>1. ended' = ended  BY <1>12, GotoTo DEF Flush
  <2>2. CASE UNCHANGED <<outq, pending>>  BY <1>8, <1>10, <1>12, <2>1, <2>2 DEF Flush
  <2>3. CASE ~UNCHANGED <<outq, pending>>
    <3>1. /\ pending # <<>> /\ Push(pending[1][1], pending[1][2]) /\ pending' = Tail(pending)
          /\ UNCHANGED <<sent, inq, delivered, line_iter, branch>>
      BY <1>12, <2>3 DEF Flush
    <3>2. pending[1][1] \in OutPorts  BY <1>3, <3>1, RestAt
    <3>3. Out' = Sending(Out, pending[1][1], pending[1][2]) /\ Mark' = Mark
      BY <1>1, <3>1, <3>2, FlowReleases
    <3>4. Kept(Out', pending', Mark[1])  BY <1>3, <1>9, <3>1, <3>2, <3>3, KeptRelease
    <3>. QED  BY <1>1, <1>8, <2>1, <3>3, <3>4, KeptGoesOn
  <2>. QED  BY <2>2, <2>3
<1>13. ASSUME EndLoop \/ DelayLoop PROVE KeptInv'
  <2>1. ended' = ended /\ UNCHANGED <<sent, inq, outq, delivered, pending>>
    BY <1>13, LeaveLoopTo, GotoTo DEF EndLoop, DelayLoop, edges, flowVars
  <2>. QED  BY <1>8, <1>10, <2>1
<1>14. ASSUME Forward PROVE KeptInv'
  <2> DEFINE x == <<1, Head(inq[1]), 1>>
  <2>1. kind \in Keepers /\ port = 1 /\ kind.parts = {1} /\ kind # Delay
    BY <1>2, <1>14, PortIs, DelayIs DEF Forward
  <2>2. /\ inq[1] # <<>> /\ Pop(1) /\ kind.steps # "tick" /\ UNCHANGED <<sent, delivered, line_iter>>
    BY <1>2, <1>14, <2>1 DEF Forward, InputOver
  <2>3. /\ x \in Msg /\ x = <<1, Mark[1] + 1, 1>> /\ Mark'[1] = Mark[1] + 1
    BY <1>1, <1>3, <2>2, PopIsFresh
  <2>4. CASE ended' = "panicked"  BY <1>1, <2>4, KeptGoesOn
  <2>5. ASSUME NEW q \in Dest, Push(q, x), UNCHANGED pending, ended' = ended PROVE KeptInv'
    <3>1. q \in OutPorts  BY <2>5, DestIs
    <3> HIDE DEF x
    <3>2. Out' = Sending(Out, q, x)  BY <2>2, <2>3, <2>5, <3>1, PushSends
    <3>3. Kept(Out', pending', Mark'[1])  BY <1>3, <1>9, <2>3, <2>5, <3>1, <3>2, KeptSending
    <3>. QED  BY <1>1, <1>8, <2>5, <3>3, KeptGoesOn
  <2>6. ASSUME NEW q \in Dest, pending' = Append(pending, <<q, x>>), UNCHANGED outq, ended' = ended
        PROVE  KeptInv'
    <3>1. q \in OutPorts  BY <2>6, DestIs
    <3> HIDE DEF x
    <3>2. Out' = Out  BY <2>2, <2>6, NothingSent
    <3>3. Kept(Out', pending', Mark'[1])  BY <1>3, <1>9, <2>3, <2>6, <3>1, <3>2, KeptHolding
    <3>. QED  BY <1>1, <1>8, <2>6, <3>3, KeptGoesOn
  <2>7. \/ ended' = "panicked"
        \/ \E q \in Dest : Push(q, x) /\ UNCHANGED pending /\ ended' = ended
        \/ \E q \in Dest : pending' = Append(pending, <<q, x>>) /\ UNCHANGED outq /\ ended' = ended
    BY <1>2, <1>14, <2>1, GotoTo, LeaveLoopTo, RetireTo DEF Forward
  <2>. QED  BY <2>4, <2>5, <2>6, <2>7
<1>15. ASSUME Eof \/ DelayEof PROVE KeptInv'
  <2>1. UNCHANGED <<sent, inq, outq, delivered, pending>>  BY <1>15 DEF Eof, DelayEof, edges, flowVars
  <2>2. ended' = ended \/ EofReached  BY <1>15, ResultTo DEF Eof, DelayEof
  <2>. QED  BY <1>8, <1>10, <2>1, <2>2 DEF EofReached
<1>16. ~(ReadParts \/ EmitResult \/ EmitLine \/ ReadChunk \/ Report \/ CountEof \/ CronRetry
         \/ CronTick \/ CronIdle)
  BY <1>2, <1>8 DEF ReadParts, EmitResult, EmitLine, ReadChunk, Report, CountEof, CronRetry, CronTick,
                    CronIdle
<1>17. ASSUME Release PROVE KeptInv'
  <2>1. UNCHANGED <<inq, sent, delivered, line_iter, branch>>  BY <1>17 DEF Release
  <2>2. ended' = ended \/ ended' = "panicked"  BY <1>17, GotoTo, RetireTo DEF Release
  <2>3. CASE UNCHANGED <<outq, pending>>  BY <1>8, <1>10, <2>1, <2>2, <2>3
  <2>4. CASE pending # <<>> /\ Push(1, pending[1][2]) /\ pending' = Tail(pending)
    <3>1. Out' = Sending(Out, 1, pending[1][2]) /\ Mark' = Mark  BY <1>1, <1>3, <2>1, <2>4, FlowReleases
    <3>2. Kept(Out', pending', Mark[1])  BY <1>3, <1>9, <2>4, <3>1, KeptRelease
    <3>. QED  BY <1>1, <1>8, <2>2, <3>1, <3>2, KeptGoesOn
  <2>. QED  BY <1>17, <2>3, <2>4 DEF Release
<1>18. ASSUME TakeDelayed PROVE KeptInv'
  <2> DEFINE x == <<1, Head(inq[1]), 1>>
  <2>1. UNCHANGED <<sent, outq, delivered, line_iter, branch>>  BY <1>18 DEF TakeDelayed
  <2>2. kind.steps # "tick"  BY <1>2
  <2>3. ended' = ended \/ ended' = "panicked"  BY <1>18, GotoTo, RetireTo DEF TakeDelayed
  <2>4. CASE UNCHANGED <<inq, pending>>  BY <1>8, <1>10, <2>1, <2>3, <2>4
  <2>5. CASE inq[1] # <<>> /\ Pop(1) /\ pending' = Append(pending, <<1, x>>)
    <3>1. /\ x \in Msg /\ x = <<1, Mark[1] + 1, 1>> /\ Mark'[1] = Mark[1] + 1
      BY <1>1, <1>3, <2>1, <2>2, <2>5, PopIsFresh
    <3> HIDE DEF x
    <3>2. Out' = Out  BY <2>1, NothingSent
    <3>3. Kept(Out', pending', Mark'[1])  BY <1>3, <1>9, <2>5, <3>1, <3>2, KeptHolding
    <3>. QED  BY <1>1, <1>8, <2>3, <3>3, KeptGoesOn
  <2>. QED  BY <1>18, <2>4, <2>5 DEF TakeDelayed
<1>. QED  BY <1>11, <1>12, <1>13, <1>14, <1>15, <1>16, <1>17, <1>18 DEF DataflowStep

-----------------------------------------------------------------------------
(* The inductive invariant, and what it shows.                             *)

MessagesInv == InputInv /\ OutputInv /\ StepsInv /\ FlowInv /\ KeptInv

\* The components that keep refused messages are among those of this module.
LEMMA KeepsFlows == ASSUME Keeps PROVE Flows
<1>1. kind \in DataflowKinds /\ kind.full \in {"keep", "keepBreak", "delay"}
  BY DelayIs DEF Keeps, Keepers, DataflowKinds
<1>2. IsDataflow  BY <1>1, FlowKinds DEF FlowKind, IsDataflow
<1>3. Count.full = "report"  BY DEF Count, Configured, Keeping, Plain
<1>. QED  BY <1>1, <1>2, <1>3 DEF Flows

\* A node starts with nothing sent, held or taken.
LEMMA MessagesInit == ASSUME Init PROVE MessagesInv
<1>1. /\ sent = [p \in InPorts |-> 0] /\ inq = [p \in InPorts |-> <<>>] /\ kind \in Kinds
      /\ outq = [q \in OutPorts |-> <<>>] /\ delivered = [q \in OutPorts |-> <<>>]
      /\ pending = <<>> /\ port = 1 /\ line_iter = <<>> /\ branch = 0 /\ phase = "idle" /\ ended = "no"
      /\ open = kind.inports
  BY DEF Init, NodeInit, DataflowInit
<1>2. PortInv  BY <1>1 DEF PortInv
<1>3. Flows => kind.inports \subseteq InPorts  BY <1>2, FlowsIs DEF FlowRecord, InPorts
<1>4. InputInv
  <2>1. \A p \in InPorts : Numbered(p)  BY <1>1 DEF Numbered
  <2>. QED  BY <1>1, <1>3, <2>1 DEF InputInv
<1>5. OutputInv  BY <1>1 DEF OutputInv
<1>6. StepsInv  BY <1>1 DEF StepsInv
<1>7. Out = [q \in OutPorts |-> <<>>]  BY <1>1 DEF Out, OutOf
<1>8. FlowInv
  <2>1. \A q \in OutPorts : Len(Out[q]) = 0  BY <1>7
  <2>2. Distinct(Out, pending) /\ Ordered(Out, pending)  BY <1>1, <2>1 DEF Distinct, Ordered
  <2>3. Taken(Out, pending, Mark)  BY <1>1, <2>1 DEF Taken
  <2>. QED  BY <1>1, <2>2, <2>3 DEF FlowInv
<1>9. KeptInv
  <2> SUFFICES ASSUME Keeps PROVE KeptInv  BY DEF Keeps, KeptInv
  <2>1. kind.steps # "tick"  BY <1>2, KeepsFlows, KeepsIs
  <2>2. Mark[1] = 0
    <3>1. 1 \in InPorts  BY DEF InPorts
    <3>2. sent[1] = 0 /\ inq[1] = <<>>  BY <1>1, <3>1
    <3>3. Len(<<>>) = 0  OBVIOUS
    <3>. QED  BY <2>1, <3>1, <3>2, <3>3 DEF Mark
  <2>. QED  BY <1>1, <2>2 DEF KeptInv, Kept
<1>. QED  BY <1>4, <1>5, <1>6, <1>8, <1>9 DEF MessagesInv

\* The parts together are inductive.
LEMMA MessagesHold == Spec => []MessagesInv
<1>1. Init => MessagesInv  BY MessagesInit
<1>2. MessagesInv /\ ComponentInv /\ [Next]_vars => MessagesInv'
  <2> SUFFICES ASSUME MessagesInv, ComponentInv, [Next]_vars PROVE MessagesInv'  OBVIOUS
  <2>1. PortInv /\ BudgetInv  BY DEF ComponentInv
  <2>2. CASE Next
    <3>1. UNCHANGED kind  BY <2>2, KindStays
    <3>2. StepsInv'
      <4>1. CASE IsDataflow  BY <2>1, <2>2, <4>1, StepsStep DEF MessagesInv
      <4>2. CASE ~IsDataflow  BY <3>1, <4>2 DEF IsDataflow, StepsInv
      <4>. QED  BY <4>1, <4>2
    <3>3. CASE Flows
      BY <2>1, <2>2, <3>2, <3>3, InputStep, FlowStep, KeptStep DEF MessagesInv
    <3>4. CASE ~Flows
      <4>1. ~Flows' /\ ~Keeps'  BY <3>1, <3>4, KeepsFlows DEF Flows, IsDataflow, Keeps
      <4>. QED  BY <3>2, <4>1 DEF MessagesInv, InputInv, OutputInv, FlowInv, KeptInv, Keeps
    <3>. QED  BY <3>3, <3>4
  <2>3. CASE UNCHANGED vars
    <3>1. UNCHANGED <<kind, inq, sent, open, outq, delivered, phase, ended, flowVars>>
      BY <2>3 DEF vars, nodeVars, edges, call
    <3>2. Out' = Out /\ Mark' = Mark  BY <3>1 DEF Out, OutOf, Mark, flowVars
    <3>3. InputInv' /\ OutputInv' /\ StepsInv'
      BY <3>1 DEF MessagesInv, InputInv, Numbered, OutputInv, StepsInv, Flows, IsDataflow, flowVars
    <3>4. FlowInv' /\ KeptInv'
      BY <3>1, <3>2 DEF MessagesInv, FlowInv, KeptInv, Flows, IsDataflow, flowVars
    <3>. QED  BY <3>3, <3>4 DEF MessagesInv
  <2>. QED  BY <2>2, <2>3
<1>. QED  BY <1>1, <1>2, ComponentInvHolds, PTL DEF Spec

\* Two vectors one after the other: what they hold, and when it is distinct.
LEMMA JoinedAt ==
    ASSUME NEW s \in Seq(Msg), NEW t \in Seq(Msg)
    PROVE  /\ s \o t \in Seq(Msg) /\ Items(s \o t) = Items(s) \cup Items(t)
           /\ (/\ \A i, j \in 1..Len(s) : s[i] = s[j] => i = j
               /\ \A i, j \in 1..Len(t) : t[i] = t[j] => i = j
               /\ \A i \in 1..Len(s), j \in 1..Len(t) : s[i] # t[j]) =>
                 \A i, j \in 1..Len(s \o t) : (s \o t)[i] = (s \o t)[j] => i = j
<1> DEFINE u == s \o t
<1>1. /\ u \in Seq(Msg) /\ Len(u) = Len(s) + Len(t) /\ Len(s) \in Nat /\ Len(t) \in Nat
      /\ \A i \in 1..(Len(s) + Len(t)) : u[i] = IF i <= Len(s) THEN s[i] ELSE t[i - Len(s)]
  BY ConcatProperties, LenProperties
<1> HIDE DEF u
<1>2. ASSUME NEW i \in 1..Len(u)
      PROVE  \/ i \in 1..Len(s) /\ u[i] = s[i]
             \/ i > Len(s) /\ i - Len(s) \in 1..Len(t) /\ u[i] = t[i - Len(s)]
  BY <1>1
<1>3. \A i \in 1..Len(s) : i \in 1..Len(u) /\ u[i] = s[i]  BY <1>1
<1>4. \A i \in 1..Len(t) : Len(s) + i \in 1..Len(u) /\ u[Len(s) + i] = t[i]
  <2> TAKE i \in 1..Len(t)
  <2>1. Len(s) + i \in 1..Len(u) /\ ~(Len(s) + i <= Len(s)) /\ (Len(s) + i) - Len(s) = i  BY <1>1
  <2>. QED  BY <1>1, <2>1
<1>5. Items(u) = Items(s) \cup Items(t)
  <2>1. Items(u) \subseteq Items(s) \cup Items(t)  BY <1>2 DEF Items
  <2>2. Items(s) \subseteq Items(u)  BY <1>3 DEF Items
  <2>3. Items(t) \subseteq Items(u)  BY <1>4 DEF Items
  <2>. QED  BY <2>1, <2>2, <2>3
<1>6. ASSUME \A i, j \in 1..Len(s) : s[i] = s[j] => i = j,
             \A i, j \in 1..Len(t) : t[i] = t[j] => i = j,
             \A i \in 1..Len(s), j \in 1..Len(t) : s[i] # t[j],
             NEW i \in 1..Len(u), NEW j \in 1..Len(u), u[i] = u[j]
      PROVE  i = j
  <2>1. CASE i \in 1..Len(s) /\ u[i] = s[i]
    <3>1. ~(j - Len(s) \in 1..Len(t) /\ u[j] = t[j - Len(s)])  BY <1>6, <2>1
    <3>2. j \in 1..Len(s) /\ u[j] = s[j]  BY <1>2, <3>1
    <3>. QED  BY <1>6, <2>1, <3>2
  <2>2. CASE i - Len(s) \in 1..Len(t) /\ u[i] = t[i - Len(s)]
    <3>1. ~(j \in 1..Len(s) /\ u[j] = s[j])  BY <1>6, <2>2
    <3>2. j - Len(s) \in 1..Len(t) /\ u[j] = t[j - Len(s)]  BY <1>2, <3>1
    <3>3. i - Len(s) = j - Len(s)  BY <1>6, <2>2, <3>2
    <3>. QED  BY <1>1, <3>3
  <2>. QED  BY <1>2, <2>1, <2>2
<1>. QED  BY <1>1, <1>5, <1>6 DEF u

\* Everything sent, over all out-edges.
LEMMA AllOutIs ==
    ASSUME Flows, OutputInv
    PROVE  /\ Items(AllOut) = Items(Out[1]) \cup Items(Out[2]) \cup Items(Out[3])
           /\ (\A q, r \in OutPorts : \A i \in 1..Len(Out[q]), j \in 1..Len(Out[r]) :
                  Out[q][i] = Out[r][j] => q = r /\ i = j) =>
                \A i, j \in 1..Len(AllOut) : AllOut[i] = AllOut[j] => i = j
<1>1. /\ AllOut = (Out[1] \o Out[2]) \o Out[3]
      /\ Out[1] \in Seq(Msg) /\ Out[2] \in Seq(Msg) /\ Out[3] \in Seq(Msg)
  <2>1. 1 \in OutPorts /\ 2 \in OutPorts /\ 3 \in OutPorts  BY DEF OutPorts
  <2>2. \A q \in OutPorts : Out[q] = OutOf(q) /\ OutOf(q) \in Seq(Msg)  BY DEF Out, OutputInv, OutOf
  <2>. QED  BY <2>1, <2>2 DEF AllOut
<1> DEFINE a == Out[1]  b == Out[2]  c == Out[3]  ab == a \o b
<1>2. ab \in Seq(Msg) /\ Items(ab) = Items(a) \cup Items(b)  BY <1>1, JoinedAt
<1>3. Items(AllOut) = Items(ab) \cup Items(c)
  <2> HIDE DEF ab
  <2>1. Items(ab \o c) = Items(ab) \cup Items(c)  BY <1>1, <1>2, JoinedAt
  <2>. QED  BY <1>1, <2>1 DEF ab
<1>4. ASSUME \A q, r \in OutPorts : \A i \in 1..Len(Out[q]), j \in 1..Len(Out[r]) :
                Out[q][i] = Out[r][j] => q = r /\ i = j
      PROVE  \A i, j \in 1..Len(AllOut) : AllOut[i] = AllOut[j] => i = j
  <2>1. 1 \in OutPorts /\ 2 \in OutPorts /\ 3 \in OutPorts  BY DEF OutPorts
  <2>2. /\ \A i, j \in 1..Len(a) : a[i] = a[j] => i = j
        /\ \A i, j \in 1..Len(b) : b[i] = b[j] => i = j
        /\ \A i, j \in 1..Len(c) : c[i] = c[j] => i = j
        /\ \A i \in 1..Len(a), j \in 1..Len(b) : a[i] # b[j]
        /\ \A i \in 1..Len(a), j \in 1..Len(c) : a[i] # c[j]
        /\ \A i \in 1..Len(b), j \in 1..Len(c) : b[i] # c[j]
    BY <1>4, <2>1
  <2> HIDE DEF a, b, c
  <2>3. a \in Seq(Msg) /\ b \in Seq(Msg) /\ c \in Seq(Msg)  BY <1>1 DEF a, b, c
  <2>4. \A i, j \in 1..Len(ab) : ab[i] = ab[j] => i = j  BY <2>2, <2>3, JoinedAt
  <2>5. \A i \in 1..Len(ab), j \in 1..Len(c) : ab[i] # c[j]
    <3>1. \A i \in 1..Len(ab) : ab[i] \in Items(a) \cup Items(b)
      <4>1. \A i \in 1..Len(ab) : ab[i] \in Items(ab)  BY DEF Items
      <4>. QED  BY <1>2, <4>1
    <3>2. \A x \in Items(a) : \A j \in 1..Len(c) : x # c[j]  BY <2>2 DEF Items
    <3>3. \A x \in Items(b) : \A j \in 1..Len(c) : x # c[j]  BY <2>2 DEF Items
    <3> HIDE DEF ab
    <3>. QED  BY <3>1, <3>2, <3>3
  <2> HIDE DEF ab
  <2>6. \A i, j \in 1..Len(ab \o c) : (ab \o c)[i] = (ab \o c)[j] => i = j
    BY <1>2, <2>2, <2>3, <2>4, <2>5, JoinedAt
  <2>7. AllOut = ab \o c  BY <1>1 DEF ab, a, b, c
  <2>. QED  BY <2>6, <2>7
<1>. QED  BY <1>2, <1>3, <1>4

\* No message leaves a dataflow component twice, and none is both sent and
\* still held: a refused push that is retried removes the message from the
\* queue it waited in.  (Count, which may report one number twice, is left out.)
THEOREM MessagesLeaveOnce == Spec => []NoDuplicates
<1>1. MessagesInv => NoDuplicates
  <2> SUFFICES ASSUME MessagesInv, Flows
               PROVE  /\ \A i, j \in 1..Len(AllOut) : i # j => AllOut[i] # AllOut[j]
                      /\ Items(AllOut) \cap HeldItems = {}
    BY DEF NoDuplicates, Flows
  <2>1. OutputInv /\ Distinct(Out, pending)  BY DEF MessagesInv, FlowInv
  <2>2. \A i, j \in 1..Len(AllOut) : AllOut[i] = AllOut[j] => i = j
    <3>1. \A q, r \in OutPorts : \A i \in 1..Len(Out[q]), j \in 1..Len(Out[r]) :
            Out[q][i] = Out[r][j] => q = r /\ i = j
      BY <2>1, Zenon DEF Distinct
    <3>. QED  BY <2>1, <3>1, AllOutIs
  <2>3. ASSUME NEW x \in Items(AllOut), x \in HeldItems PROVE FALSE
    <3>1. PICK q \in OutPorts : x \in Items(Out[q])
      <4>1. 1 \in OutPorts /\ 2 \in OutPorts /\ 3 \in OutPorts  BY DEF OutPorts
      <4>. QED  BY <2>1, <2>3, <4>1, AllOutIs
    <3>2. PICK j \in 1..Len(pending) : x = pending[j][2]  BY <2>3 DEF HeldItems
    <3>. QED  BY <2>1, <3>1, <3>2 DEF Distinct, Items
  <2>. QED  BY <2>2, <2>3
<1>. QED  BY <1>1, MessagesHold, PTL

\* On each out-edge the messages of one in-edge keep their order, the parts of
\* one message too, however pushes fail and are retried; the components with a
\* pending queue that their loop may overtake are left out.
THEOREM MessagesKeepOrder == Spec => []OrderKept
<1>1. MessagesInv => OrderKept
  <2> SUFFICES ASSUME MessagesInv, Flows, kind \notin Keepers, NEW q \in OutPorts,
                      NEW i \in 1..Len(OutOf(q)), NEW j \in 1..Len(OutOf(q)), i < j
               PROVE  Before(OutOf(q)[i], OutOf(q)[j])
    BY DEF OrderKept, Flows, Before
  <2>1. Ordered(Out, pending) /\ Out[q] = OutOf(q)  BY DEF MessagesInv, FlowInv, Out
  <2>. QED  BY <2>1 DEF Ordered
<1>. QED  BY <1>1, MessagesHold, PTL

\* What a component that keeps refused messages, or Delay, took off its input
\* is sent or held; those that look at the pending queue at the end of the
\* input finish only once everything is sent.
THEOREM AcceptedMessagesAreKept == Spec => []AcceptedIsKept
<1>1. MessagesInv /\ ComponentInv => AcceptedIsKept
  <2> SUFFICES ASSUME MessagesInv, ComponentInv, Keeps, ended # "panicked",
                      ended = "finished" => kind.eof = "clean",
                      NEW m \in 1..(sent[1] - Len(inq[1]))
               PROVE  <<1, m, 1>> \in Items(AllOut) \cup HeldItems
    BY DEF AcceptedIsKept, Keeps
  <2>1. Flows /\ OutputInv /\ StepsInv /\ PortInv
    BY KeepsFlows DEF MessagesInv, ComponentInv
  <2>2. kind.steps # "tick"  BY <2>1, KeepsIs
  <2>3. Mark[1] = sent[1] - Len(inq[1])
    <3>1. 1 \in InPorts  BY DEF InPorts
    <3>. QED  BY <2>2, <3>1 DEF Mark
  <2>4. Kept(Out, pending, Mark[1]) /\ (ended = "finished" => pending = <<>>)
    BY DEF MessagesInv, KeptInv, Keeps
  <2>5. CASE \E q \in OutPorts : \E i \in 1..Len(Out[q]) : Out[q][i] = <<1, m, 1>>
    <3>1. PICK q \in OutPorts : <<1, m, 1>> \in Items(Out[q])  BY <2>5 DEF Items
    <3>2. q = 1 \/ q = 2 \/ q = 3  BY DEF OutPorts
    <3>. QED  BY <2>1, <3>1, <3>2, AllOutIs
  <2>6. ASSUME NEW i \in 1..Len(pending), pending[i][2] = <<1, m, 1>>
        PROVE  <<1, m, 1>> \in HeldItems
    <3>1. CASE ended = "no"  BY <2>6, <3>1 DEF HeldItems
    <3>2. CASE ended # "no"
      <4>1. ended = "finished" => Len(pending) = 0  BY <2>4
      <4>2. ended = "finished"  BY <3>2, <2>1 DEF StepsInv, Flows
      <4>. QED  BY <4>1, <4>2
    <3>. QED  BY <3>1, <3>2
  <2>. QED  BY <2>3, <2>4, <2>5, <2>6 DEF Kept
<1>. QED  BY <1>1, MessagesHold, ComponentInvHolds, PTL
=============================================================================
