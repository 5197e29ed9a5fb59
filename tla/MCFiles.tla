------------------------------ MODULE MCFiles -------------------------------
(***************************************************************************)
(* The files of the runs: graphs of up to three nodes and two              *)
(* relationships with lists and maps two deep, every way to cut a file,    *)
(* and every change of one list or number, resealed or not.                *)
(* Known to fail, so not asked: a linked section in other JSON than the    *)
(* writer's, and a stored schema that came without its Auth.               *)
(***************************************************************************)
EXTENDS Integers, Sequences, TLC

LOCAL Scalar(n) == [is |-> "scalar", n |-> n]
LOCAL ListOf(items) == [is |-> "list", items |-> items]
LOCAL MapAt(f) == [is |-> "map", at |-> f]
LOCAL NodeOf(labels, props) == [labels |-> labels, props |-> props]
LOCAL RelOf(kind, from, to, props) == [kind |-> kind, from |-> from, to |-> to, props |-> props]
LOCAL Values ==
  { Scalar(1), ListOf(<<>>), ListOf(<<Scalar(1), MapAt(2 :> Scalar(1) @@ 1 :> Scalar(2))>>),
    MapAt(3 :> ListOf(<<Scalar(1)>>) @@ 2 :> Scalar(1)), ListOf(<<ListOf(<<ListOf(<<>>)>>)>>) }
LOCAL Text(n, auth) == [text |-> n, auth |-> auth]
LOCAL NothingCarried == [schema |-> <<>>, uniques |-> <<>>, indexes |-> <<>>, meta |-> <<>>]
LOCAL Full ==
    [schema |-> <<Text(1, TRUE)>>, uniques |-> <<<<1, 2>>, <<2, 1>>>>, indexes |-> <<<<1, 2, 0>>, <<1, 2, 1>>>>, meta |-> 1 :> 1 @@ 3 :> 2]
LOCAL Linked1 == <<[is |-> "compact", active |-> TRUE, of |-> 1]>>
LOCAL GraphOf(nodes, rels, next, carried, history, linked) ==
  [nodes |-> nodes, rels |-> rels, next |-> next, carried |-> carried, history |-> history, linked |-> linked]
LOCAL Two(v) == 1 :> NodeOf(<<5, 3>>, 4 :> v) @@ 3 :> NodeOf(<<3>>, 2 :> Scalar(1) @@ 4 :> Scalar(2))
MCGraphs ==
  {GraphOf(Two(v), 2 :> RelOf(6, 3, 1, 1 :> v) @@ 1 :> RelOf(6, 1, 1, <<>>), <<4, 3>>, with[1], with[2], with[3]) :
     v \in Values, with \in {<<Full, <<1>>, Linked1>>}}
  \cup {GraphOf(Two(Scalar(1)), 1 :> RelOf(6, 1, 1, 1 :> ListOf(<<>>)), <<4, 2>>, with[1], with[2], with[3]) :
          with \in {<<NothingCarried, <<>>, Linked1>>, <<Full, <<1>>, <<>>>>}}
  \cup {GraphOf(<<>>, <<>>, <<1, 1>>, c, <<>>, <<>>) : c \in {NothingCarried, Full}}
  \cup { GraphOf(Two(Scalar(1)), 1 :> RelOf(6, 1, 2, <<>>), <<5, 9>>, NothingCarried, <<>>, <<>>),
         GraphOf(1 :> NodeOf(<<3, 3>>, <<>>), <<>>, <<2, 1>>, NothingCarried, <<>>, <<>>) }
LOCAL Orders == {"reversed", "doubled", "shortened"}
LOCAL OtherValues ==
  { [is |-> "minus zero", n |-> 0], ListOf(<<ListOf(<<ListOf(<<>>)>>)>>), ListOf(<<Scalar(3)>>),
    [is |-> "map", pairs |-> <<[key |-> 2, value |-> Scalar(1)], [key |-> 1, value |-> Scalar(1)]>>],
    [is |-> "map", pairs |-> <<[key |-> 1, value |-> Scalar(1)], [key |-> 2, value |-> Scalar(1)]>>] }
MCEdits ==
  [is : {"none"}, at : {1}] \cup [is : {"cut"}, at : 1 .. 8, of : 0 .. 3] \cup [is : {"removed", "swapped", "repeated", "length"}, at : 1 .. 8]
  \cup [is : {"version"}, at : {1}, of : {0, 2}]
  \cup [is : {"list"}, at : 1 .. 5, field : {"meta", "names", "uniques", "indexes", "records", "schema"}, how : Orders]
  \cup [is : {"number"}, at : {1, 4, 5}, field : {"nodes", "rels", "next"}, of : 0 .. 5]
  \cup [is : {"recordList"}, at : {4, 5}, record : {1, 2}, field : {"labels", "props"}, how : Orders]
  \cup [is : {"recordNumber"}, at : {4, 5}, record : {1, 2}, field : {"id", "kind", "from", "to"}, of : 0 .. 6]
  \cup [is : {"value"}, at : {4, 5}, record : {1, 2}, field : {"props"}, value : OtherValues]
LOCAL As == [schema |-> <<>>, meta |-> <<>>]
LOCAL Given == [schema |-> <<[text |-> Text(2, TRUE), uniques |-> <<<<2, 1>>, <<1, 1>>, <<2, 1>>>>, indexes |-> <<<<2, 1, 0>>, <<1, 1, 1>>>>]>>,
                meta |-> 3 :> 4 @@ 2 :> 1]
MCFiles ==
  [graph : MCGraphs, options : {As}, change : MCEdits, resealed : BOOLEAN]
  \cup [graph : MCGraphs, options : {Given}, change : [is : {"none"}, at : {1}], resealed : {FALSE}]
=============================================================================
