--------------------------- MODULE MCProxySession ---------------------------
(* Small instances of ProxySession for TLC. *)
EXTENDS ProxySession

CONSTANTS c1, c2

MCAuth(b) == [kind |-> "auth", good |-> b]
SelectOf(n) == [kind |-> "select", db |-> n]
Plain(k) == [kind |-> k]
Key(k, h) == [kind |-> k, hash |-> h]

\* One client that does everything once authenticated, one that selects or does
\* nothing to any Redis beside it.
MCCommands ==
  c1 :> <<{MCAuth(TRUE)},
          {MCAuth(FALSE), SelectOf(1), SelectOf(16), SelectOf(17), Plain("flushall"),
           Key("write", -1), Key("read", 1)},
          {Key("write", 1), Plain("quit")}>>
    @@ c2 :> <<{MCAuth(TRUE)}, {SelectOf(1), Plain("local"), Plain("inline"), Plain("empty")}>>

\* Two requests sent without waiting, whose keys belong to two slices.
MCPipelined == c1 :> <<{Key("write", 0), Key("read", 0)}, {Key("read", 1), Key("write", 1)}>>

MCRedisList == <<[slice |-> 0, master |-> TRUE], [slice |-> 1, master |-> TRUE],
                 [slice |-> 1, master |-> FALSE]>>

MCConnecting == {[slice |-> 1, master |-> TRUE]}

MCBreakable == {[slice |-> 1, master |-> TRUE, db |-> n] : n \in {0, 1}}
=============================================================================
