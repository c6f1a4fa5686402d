---------------------------- MODULE MCMeterPolls ----------------------------
(* Every poll, with and without its parameters; the extended poll with one *)
(* code, with four and with forty, 0x2F with two codes and with fifty-one.   *)
(* Meters that are zero, at the top of their fields, or about to pass it;  *)
(* more games played than won, and, as POST /play leaves them, fewer.      *)
EXTENDS MeterPolls

Poll(c, data) == [command |-> c, data |-> data]
Sized(data) == <<Len(data)>> \o data
Repeat(code, n) == [i \in 1..n |-> code]

MCRequests ==
  {Poll(c, <<>>) :
     c \in {\h00, \h10, \h12, \h17, \h19, \h1A, \h1C, \h1D, \h1E, \h1F, \h31,
            \h1B, \h51, \h54, \h55, \h56, \h71, \h2D, \h2F}}
  \cup {Poll(c, <<0, 1>>) : c \in {\h2D, \h52, \h53, \hA0}}
  \cup {Poll(\h71, <<18, 52>>), Poll(\h71, <<18, 53>>), Poll(\h74, <<0, 0, 0, 0>>)}
  \cup {Poll(\h53, <<0, 4>>), Poll(\h53, <<\h1A, 1>>)}
  \cup {Poll(c, <<0>>) : c \in {\h7B, \h7C, \h7E, \h7F}}
  \cup {Poll(\h7D, <<6, 0, 1, 30, 0, 0, 0>>), Poll(\h7D, <<7, 0, 1, 30, 1, 65, 0, 0, 9, 9>>),
        Poll(\h7D, <<6, 0, 1, 30, 9, 0, 0, 9, 9>>)}
  \cup {Poll(\h6F, Sized(<<0>>)), Poll(\h6F, Sized(<<0, 0, \h40, 0>>)),
        Poll(\hAF, Sized(<<0, 0, 0, 0, \h0D, 0, \h0C, 0, \hFF, 1>>)),
        Poll(\h6F, Sized(<<0, 0>> \o Repeat(0, 80)))}
  \cup {Poll(\h2F, <<0, 0, 1, \h0C>>), Poll(\h2F, <<0, 0>> \o Repeat(0, 51))}

Fresh == [m \in Meters |-> 0]
MCLoaded ==
  {[Fresh EXCEPT !["played"] = 3, !["won"] = 2],
   [Fresh EXCEPT !["coinOut"] = 99999999, !["1"] = 99999998, !["won"] = 2,
                 !["aftIn"] = 120]}
MCChanges ==
  {<<"coinOut", 1>>, <<"won", 1>>, <<"played", 1>>, <<"coinIn", 5>>,
   <<"credits", -1>>, <<"1", 1>>}
\* A registered host has transferred promotional credits.
MCAft ==
  [registered |-> TRUE, code |-> <<18, 52>>, lock |-> 2, transfer |-> 1,
   gameLock |-> 1, available |-> \h33, nonrestricted |-> 500]
MCConfig ==
  [asset |-> 1000000, hostCashout |-> 1, status |-> \hB1, buffers |-> 100,
   limit |-> 100000, pool |-> 0]
\* An evening in Las Vegas, where it is the next day in UTC.
Tm(year, month, day, hour) ==
  [year |-> year - 1900, month |-> month - 1, day |-> day, hour |-> hour,
   minute |-> 7, second |-> 0]
MCLocal == Tm(2024, 5, 30, 22)
MCUtc == Tm(2024, 5, 31, 5)
MCExpiry == Tm(1970, 1, 7, 16)
MCGames == <<[number |-> 1, denomCode |-> 1], [number |-> 2, denomCode |-> 2]>>
=============================================================================
