------------------------------ MODULE MCMonitor ------------------------------
(* Monitor on hosts with two cards of one kind, and with one card each of two kinds. *)
EXTENDS Monitor, TLC

MCDecimal == [id \in 0 .. 2 |-> <<"0", "1", "2">>[id + 1]]

None == [k \in Kinds |-> <<>>]
Two(k) == [None EXCEPT ![k] = IF k = "ascend" THEN <<"0", "1">> ELSE <<"a", "b">>]
Mixed == [None EXCEPT !["nvidia"] = <<"a">>, !["ppu"] = <<"b">>]

\* HCUs of which the first one's health changes, and the use of the second.
Frail == [None EXCEPT !["hcu"] = <<"1", "2">>]

MCSetups ==
    {[at |-> Two(k), backend |-> "auto"] : k \in {"nvidia", "mthreads", "hcu"}}
    \cup {[at |-> Two(k), backend |-> k] : k \in {"ascend", "metax", "ppu"}}
    \cup {[at |-> Mixed, backend |-> b] : b \in {"auto", "none", "hcu"}}
    \cup {[at |-> Frail, backend |-> "auto"]}

\* Every card has its user, but the HCU that may break; one process uses both of the other
\* HCUs, and a second one the first of them.
MCShared ==
    ({1} \X ((Kinds \X Visible) \ {<<"hcu", "1">>})) \cup {<<2, <<"hcu", "a">>>>}

\* Two cards' health is told by one call each, or by one line each of a utility: one card of the
\* two breaks.  The other MetaX card may take its place.
MCFragile == {<<"ascend", "0">>, <<"metax", "a">>, <<"hcu", "1">>}

=============================================================================
