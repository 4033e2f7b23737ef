-------------------------------- MODULE MCEntry --------------------------------
(* Instance of Entry: every query of up to MaxQuery bytes over two letters, "="  *)
(* and "&", and some longer ones; headers that repeat and that no rule names.    *)
EXTENDS Entry, TLC
CONSTANTS MaxQuery

a == 97  b == 98  x == 120
p1 == <<1>>  p2 == <<2>>

MCPath == {p1, p2}
MCQuery ==
    {q \in UNION {[1..n -> {a, b, Amp, Eq}] : n \in 0..MaxQuery} : q = <<>> \/ q[1] # Eq}
      \cup {<<b, Eq, a, Amp, a, Eq, b>>, <<a, b, Amp, b, Amp, a, Eq>>,
            <<a, Eq, b, Amp, Amp, b, Amp, a, Eq, a>>}
MCHeaders ==
    {<<>>, <<<<<<x>>, <<b>>>>, <<<<a>>, <<b>>>>, <<<<x>>, <<a>>>>, <<<<b>>, <<>>>>>>}
MCConfigs ==
    LET onlyA == [query |-> {<<a>>}, headers |-> {<<x>>}]
        both  == [query |-> {<<a, b>>, <<b>>}, headers |-> {<<a>>, <<x>>}]
    IN  {p1 :> both @@ p2 :> onlyA, p1 :> onlyA}
MCAnswers ==
    {[status |-> 200, headers |-> <<>>, body |-> <<>>],
     [status |-> 200, headers |-> <<<<<<a>>, <<b, b>>>>, <<<<b>>, <<>>>>>>, body |-> <<x, a>>],
     [status |-> 404, headers |-> <<>>, body |-> <<x>>]}
MCHash(bytes) == FoldLeft(LAMBDA acc, c : (3 * acc + c) % 101, 7, bytes)
MCMapShardKey(k) == IF k % 4 = 0 THEN 5 ELSE k % 4
================================================================================
