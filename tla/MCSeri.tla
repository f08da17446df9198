------------------------------- MODULE MCSeri --------------------------------
(* Graphs of up to three tables.  The first argument is the first table.     *)
EXTENDS Seri, TLC
CONSTANTS t1, t2, t3

Table(t) == [type |-> "table", v |-> t]
Name    == [type |-> "string", v |-> 1]
Half    == [type |-> "number", v |-> 3]   \* 1.5
Zero    == [type |-> "number", v |-> 0]
Other   == [type |-> "other", v |-> 0]
Plain(array, hash) == [array |-> array, hash |-> hash, metapairs |-> FALSE]

\* Arrays and hash parts with these values and keys, at most two fields in all.
ContentsOf(values, keys) ==
  LET hashes == {<<>>} \cup {<< <<k, x>> >> : k \in keys, x \in values}
  IN  {Plain(a, h) : a \in {<<>>} \cup {<<x>> : x \in values}, h \in hashes}
        \cup {Plain(<<x, y>>, <<>>) : x, y \in values}

\* The tables reachable from t1 in one, two steps.
Within(c) ==
  {c.array[i] : i \in DOMAIN c.array} \cup {c.hash[j][1] : j \in DOMAIN c.hash}
    \cup {c.hash[j][2] : j \in DOMAIN c.hash}
After(h, ts) == ts \cup {t \in Tables : \E s \in ts : Table(t) \in Within(h[s])}
Reached(h) == After(h, After(h, {t1}))
\* Tables that are not reached are empty, and t2 is reached before t3.
Canonical(heaps) ==
  {h \in heaps : /\ \A t \in Tables \ Reached(h) : h[t] = Plain(<<>>, <<>>)
                 /\ t3 \in After(h, {t1}) => t2 \in After(h, {t1})
                 /\ t3 \in Reached(h) => t2 \in Reached(h)}

ThreeTables == {t1, t2, t3}
References  == {Table(t) : t \in Tables}

\* Cycles, shared tables, deep tables.
Graphs == Canonical([Tables -> ContentsOf(References, {Name})])

\* Two tables with values of every kind, and with __pairs.
Kinds ==
  LET cs == ContentsOf({Table(t1), Table(t2)} \cup {Name, Other}, {Name, Half, Zero, Table(t2)})
              \cup {Plain(<<Nil, Name>>, << <<Half, Name>>, <<Name, Table(t2)>> >>)}
      ds == cs \cup {[c EXCEPT !.metapairs = TRUE] : c \in cs}
  IN  Canonical({(t1 :> c) @@ (t2 :> d) @@ (t3 :> Plain(<<>>, <<>>)) : c, d \in ds})

All == Graphs \cup Kinds

OneArgument  == {<<Table(t1)>>}
TwoArguments == {<<Table(t1)>>, <<Table(t1), Nil, Table(t1)>>}
==============================================================================
