------------------------------ MODULE MCClients -------------------------------
(* Two clients, of the same service or not, with inputs of several lines,     *)
(* empty ones, ones that end in a carriage return and unfinished ones.        *)
EXTENDS Clients
CONSTANTS c1, c2
TwoClients == {c1, c2}
Both(x, y) == [c \in TwoClients |-> IF c = c1 THEN x ELSE y]
Start(s, x, t, y) == [server |-> Both(s, t), sent |-> Both(x, y)]

QuitAndMore == <<Hello, CR, LF, Quit, LF>>
TwoLines    == <<Hello, LF, Hello, LF>>
EmptyLines  == <<LF, CR, CR, LF, CR>>
SomeStarts ==
  {Start("remote", QuitAndMore, "remote", QuitAndMore),
   Start("remote", QuitAndMore, "remote", TwoLines),
   Start("remote", EmptyLines, "remote", TwoLines),
   Start("gateway", EmptyLines, "gateway", TwoLines),
   Start("gateway", EmptyLines, "gateway", <<Hello, LF, Request, LF>>),
   Start("gateway", <<Request, LF>>, "remote", <<Hello, LF>>),
   Start("gateway", <<CR, LF>>, "remote", <<Quit, SP, Hello, LF>>)}
==============================================================================
