----------------------------- MODULE MCFuzzOne ------------------------------
(* Bytes of four bits; the constants of config.h scaled to them.           *)
EXTENDS FuzzOne

MCInputs == {<<3>>, <<8, 1>>, <<14, 3, 0>>, <<15, 7, 1, 2>>, <<0, 15, 14, 8>>}

MCInteresting ==
  [w \in {1, 2, 4} |->
     CASE w = 1 -> <<8, 15, 0, 1, 7>>
       [] w = 2 -> <<248, 255, 0, 1, 7, 128, 127, 8>>
       [] w = 4 -> <<65528, 65535, 1, 32768, 32767, 128>>]

MCExtras == {[data |-> <<1>>, hit_cnt |-> 0], [data |-> <<2, 3>>, hit_cnt |-> 0]}
MCAutos == <<<<5, 6>>, <<6>>>>
=============================================================================
