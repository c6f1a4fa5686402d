----------------------------- MODULE MeterPolls -----------------------------
(***************************************************************************)
(* The long polls that report: meters, bills, games, configuration, date,  *)
(* tickets and AFT status (MeterCommands.cpp, ConfigCommands.cpp,          *)
(* DateTimeCommands.cpp, TITOCommands.cpp, the reads of AFTCommands.cpp).  *)
(* A handler runs on the receive thread and reads one meter after the      *)
(* other, each under the mutex of the machine and none under a common one; *)
(* meanwhile other threads count.  What it read becomes a frame on the     *)
(* line.                                                                   *)
(*                                                                         *)
(* Dates come from localtime, which leaves them in the buffer of the C     *)
(* library that gmtime uses, too: a save of the meters in another thread   *)
(* stamps its file with gmtime and may overwrite them while they are read. *)
(*                                                                         *)
(* A request is the command byte and the parameters the port hands over:   *)
(* over the serial line 0x2D and 0x2F come without any (SerialLine), over  *)
(* a pipe with what its host writes.                                       *)
(***************************************************************************)
EXTENDS Codec

CONSTANTS
  Requests,    \* the polls of the host: records [command, data]
  Loaded,      \* what the machine may have loaded: functions on Meters
  Changes,     \* pairs <<meter, amount>> other threads increment by
  Games,       \* games_, in order: records [number, denomCode]
  MaxBet,      \* the largest bet of a game
  Aft,         \* the AFT statics, which no poll of this module changes
  Config,      \* what 0x74 has loaded of egm-config.json
  Local, Utc,  \* the time in the machine's zone and in UTC ...
  Expiry,      \* ... and seven days after the epoch: functions on TmFields
  MaxPolls,    \* bounds of the model: polls
  MaxChanges   \*                      increments during each

Bills == {"1", "2", "5", "10", "20", "50", "100", "200", "500", "1000"}
Meters ==
  Bills \cup {"coinIn", "coinOut", "drop", "jackpot", "played", "won",
              "cancelled", "handpaid", "credits", "trueIn", "trueOut",
              "billCredits", "door", "restIn", "nonrestIn", "aftIn", "aftOut",
              "promo"}

\* The commands of handleLongPoll that report.  Its case for 0 builds an answer
\* with command 0, which is taken for none and never sent.
Reporting ==
  {\h10} \cup (\h11..\h17) \cup (\h19..\h20) \cup {\h27, \h2A, \h2B, \h2D, \h2F}
    \cup (\h31..\h3A) \cup {\h46} \cup (\h51..\h56) \cup {\h6F, \h71, \h74}
    \cup (\h7B..\h7F) \cup {\hA0, \hAF}

ASSUME PollsAssumption ==
  /\ Requests \subseteq [command : Reporting \cup {0}, data : Seq(Byte)]
  /\ Loaded \subseteq [Meters -> Int]
  /\ Changes \subseteq Meters \X Int
  /\ \A c \in Changes : c[1] = "won" => c[2] >= 0  \* GameWon adds 1
  /\ Games \in Seq([number : Nat, denomCode : Byte])
  /\ MaxBet \in Byte /\ {MaxPolls, MaxChanges} \subseteq Nat

\* struct tm: the month counts from 0, the year from 1900.
TmFields == {"month", "day", "year", "hour", "minute", "second"}

ASSUME ClockAssumption ==
  {Local, Utc, Expiry} \subseteq
    {t \in [TmFields -> 0..199] : \A f \in TmFields \ {"year"} : t[f] <= 59}

ASSUME AftAssumption ==
  /\ Aft \in [registered : BOOLEAN, code : Seq(Byte), lock : Byte,
             transfer : Byte, gameLock : Byte, available : Byte,
             nonrestricted : Nat]
  /\ Config \in [asset : Nat, hostCashout : Byte, status : Byte,
                buffers : Byte, limit : Nat, pool : Word]

VARIABLES
  meter,     \* machineMeters_
  poll,      \* the request being handled, or the one answered last
  todo,      \* the accesses to meters its handler still has to make
  got,       \* the values it has read
  frame,     \* what the port has sent for it
  tm,        \* the C library's one struct tm
  struck,    \* history: a save's gmtime has been at it since the poll came
  during,    \* history: the values each meter has had since the poll came
  lost,      \* history: games lost when the poll came
  polls, changes

clock == <<tm, struck>>
vars == <<meter, poll, todo, got, frame, clock, during, lost, polls, changes>>

-----------------------------------------------------------------------------
(* Which meters the handlers read, in order.                               *)

\* A table, from its lines: pairs of a code and what it stands for.
Table(lines) ==
  [code \in {l[1] : l \in lines} |-> (CHOOSE l \in lines : l[1] = code)[2]]

\* Polls for one meter.
BasicMeter ==
  {<<\h11, "coinIn">>, <<\h12, "coinOut">>, <<\h13, "drop">>,
   <<\h14, "jackpot">>, <<\h15, "played">>, <<\h16, "won">>}
FurtherMeter ==
  {<<\h10, "cancelled">>, <<\h1A, "credits">>, <<\h2A, "trueIn">>,
   <<\h2B, "trueOut">>, <<\h46, "billCredits">>}
BillMeter ==
  {<<\h31, "1">>, <<\h32, "2">>, <<\h33, "5">>, <<\h34, "10">>, <<\h35, "20">>,
   <<\h36, "50">>, <<\h37, "100">>, <<\h38, "500">>, <<\h39, "1000">>, <<\h3A, "200">>}
SingleMeter ==
  Table(BasicMeter \cup FurtherMeter \cup BillMeter
    \cup {<<\h20, "billCredits">>, <<\h27, "promo">>, <<\h2D, "handpaid">>})

\* Polls for several.
CoinInAndMeters == <<"coinIn", "coinOut", "drop", "jackpot", "played">>
BillMeters == <<"1", "5", "10", "20", "50", "100">>
MachineMeters == <<"coinIn", "coinOut", "drop", "jackpot", "played", "won", "door">>
AftMeters == <<"restIn", "nonrestIn", "aftOut", "aftIn">>
GameMeters == <<"coinIn", "coinOut", "jackpot", "played">>

\* Slip: the games won first.
LostReadsWonFirst == <<"won", "played">>

LostReads == <<"played", "won">>

\* 0x19 sets five meters to test values before it reads them.
TestValues == <<452040, 861480, 413078, 634494, 2062>>

\* The codes of 0x2F and of 0x6F and 0xAF.  An unknown one reads no meter.
Unread == "none"
GameCodes ==
  Table({<<0, "coinIn">>, <<1, "coinOut">>, <<2, "drop">>, <<3, "jackpot">>,
         <<4, "played">>, <<5, "won">>, <<\h0C, "credits">>})
ExtendedCodes ==
  Table({<<0, "coinIn">>, <<\h0C, "credits">>, <<\h1C, "coinOut">>, <<5, "played">>,
         <<\h1F, "jackpot">>, <<\h40, "1">>, <<\h42, "5">>, <<\h43, "10">>,
         <<\h44, "20">>, <<\h45, "50">>, <<\h46, "100">>})
TicketCodes == {\h0D, \h0F, \h28, \h2A, \h2B}
Coded(codes, code) == IF code \in DOMAIN codes THEN codes[code] ELSE Unread

Extended == {\h6F, \hAF}
AskedForGame(data) == [i \in 1..(Len(data) - 2) |-> data[i + 2]]

\* Slip: as many codes as the poll has.
AskedAll(data) ==
  [i \in 1..((Len(data) - 3) \div 2) |-> data[2 * i + 2] + 256 * data[2 * i + 3]]

\* At most twelve codes of two bytes each.
Asked(data) ==
  [i \in 1..(IF Len(data) < 27 THEN (Len(data) - 3) \div 2 ELSE 12) |->
     data[2 * i + 2] + 256 * data[2 * i + 3]]

Get(m) == [op |-> "get", meter |-> m, value |-> 0]
LocalTime(t) == <<[op |-> "localtime", meter |-> t, value |-> 0]>>
Date == <<"month", "day", "year">>
Time == <<"hour", "minute", "second">>
FieldsOf(names) ==
  [i \in 1..Len(names) |-> [op |-> "field", meter |-> names[i], value |-> 0]]
DatePolls == {\h1B, \h7C, \h7F}
GetAll(meters) == [i \in 1..Len(meters) |-> Get(meters[i])]

\* handleLockStatus wants the lock code of the registration.
Granted(data) == Aft.registered /\ SubSeq(data, 1, 2) = Aft.code

\* The accesses of a handler.
Accesses(request) ==
  LET c == request.command
      data == request.data
      Codes(codes, asked) == [i \in 1..Len(asked) |-> Get(Coded(codes, asked[i]))]
  IN  CASE c \in DOMAIN SingleMeter -> <<Get(SingleMeter[c])>>
        [] c = \h17 -> GetAll(LostReads)
        [] c = \h19 ->
             [i \in 1..5 |-> [op |-> "set", meter |-> CoinInAndMeters[i],
                              value |-> TestValues[i]]]
               \o GetAll(CoinInAndMeters)
        [] c = \h1C -> GetAll(MachineMeters)
        [] c = \h1D -> GetAll(AftMeters)
        [] c = \h1E -> GetAll(BillMeters)
        [] c = \h52 -> GetAll(GameMeters)
        [] c = \h2F -> Codes(GameCodes, AskedForGame(data))
        [] c \in Extended -> Codes(ExtendedCodes, Asked(data))
        [] c = \h1B -> LocalTime("now") \o FieldsOf(Date \o Time)
        [] c \in {\h7C, \h7F} -> LocalTime("expiry") \o FieldsOf(Date)
        [] c = \h74 \/ (c = \h71 /\ Granted(data)) -> <<Get("credits")>>
        [] OTHER -> <<>>

-----------------------------------------------------------------------------
(* What they answer.                                                       *)

\* Where the three texts of a 0x7D end, each behind its length: past the end
\* of the data if they do not fit.
TextsEnd(data) ==
  LET end[k \in 0..3] ==
        IF k = 0 THEN 4
        ELSE IF end[k - 1] < Len(data)
               THEN end[k - 1] + 1 + data[end[k - 1] + 1]
               ELSE Len(data) + 1
  IN  end[3]

\* Handlers that need parameters give none without them, and a message with
\* command 0 is taken for none.  0x7D wants two bytes more than its length
\* byte says: the checksum, which the port has already removed.
Answers(request) ==
  LET c == request.command
      n == Len(request.data)
  IN  /\ c # 0
      /\ c \in {\h2D, \h2F, \h52, \h53, \h71, \hA0} => n >= 2
      /\ c \in Extended => n >= 3
      /\ c = \h7D => /\ n >= 1 /\ n >= request.data[1] + 3
                    /\ TextsEnd(request.data) <= n

Fields(values) == FlattenSeq([i \in 1..Len(values) |-> Encode(values[i], 4)])
Game(data) == SubSeq(data, 1, 2)
\* The length byte is a uint8_t.
WithLength(body) == <<Len(body) % 256>> \o body

\* Slip: without the comparison.
LostGamesUnclamped(played, won) == played - won

\* Games lost are not metered for the host: played - won, if positive.
LostGames(played, won) == IF played > won THEN played - won ELSE 0
LostReport(values) ==
  LET Value(m) == values[CHOOSE i \in 1..2 : LostReads[i] = m]
  IN  Encode(LostGames(Value("played"), Value("won")), 4)

GameNReport(data, values) ==
  LET asked == AskedForGame(data)
  IN  WithLength(Game(data) \o FlattenSeq(
        [i \in 1..Len(asked) |-> <<asked[i]>> \o Encode(values[i], 4)]))

ExtendedReport(data, values) ==
  LET asked == Asked(data)
      Item(code, value) ==
        LET size == IF code \in TicketCodes THEN 5 ELSE 4
        IN  <<code % 256, code \div 256, size>> \o Encode(value, size)
  IN  WithLength(SubSeq(data, 2, 3) \o FlattenSeq(
        [i \in 1..Len(asked) |-> Item(asked[i], values[i])]))

\* Name, denomination, largest bet, pay table, base percent of a game.
PennyCode == 1
GameDescription(denomCode) ==
  <<48, 49, 0, 0, 0, denomCode, MaxBet, 0, 0, 0>>
    \o [i \in 1..6 |-> 32] \o <<0, 0, \h95, 0>>
GameConfiguration ==
  GameDescription(IF Games = <<>> THEN PennyCode ELSE Games[1].denomCode)

\* 0x53 takes the game number for an index from 0 (Games is from 1).
GameNConfiguration(data) ==
  LET n == Decode(Game(data))
  IN  <<22>> \o Game(data) \o GameDescription(
        IF n < Len(Games) THEN Games[n + 1].denomCode ELSE PennyCode)

MachineID == <<9, 54, 48, 50, 48, 48, 48, 48, 48, 49>>
NumberOfGames == Encode(Len(Games), 2)
SelectedGame == Encode(IF Games = <<>> THEN 0 ELSE Games[1].number, 2)
EnabledGames ==
  <<(1 + Len(Games) * 2) % 256, Len(Games) % 256>>
    \o FlattenSeq([i \in 1..Len(Games) |-> Encode(Games[i].number, 2)])
Capabilities(data) == Game(data) \o <<\hD7, \hCD, 5, 0, 0, 0>>

\* Slip: tm_mon as it is.
MonthFrom0(mon) == mon

Month(mon) == mon + 1
DateReport(values) ==
  <<ToBCD(Month(values[1])), ToBCD(values[2])>> \o Encode(values[3] + 1900, 2)
DateTime(values) == DateReport(values) \o [i \in 1..3 |-> ToBCD(values[i + 3])]

\* No ticket is ever printed: the statics keep their initial values, and the
\* expiration is seven days after the epoch.
LastTicket == Zeros(8) \o Encode(0, 5)
EnhancedTicket(values) == LastTicket \o <<0>> \o DateReport(values)
TicketInfo == <<ToBCD(0)>> \o Encode(0, 2)

\* 0x71: lock and transfer status, asset number 1, credits; or a refusal.
LockForbidden == 255
NotRegistered == 129
LockReport(data, values) ==
  IF Granted(data)
    THEN <<Aft.lock, Aft.transfer>> \o Encode(1, 4) \o Encode(values[1], 5)
    ELSE <<LockForbidden, NotRegistered>>

\* 0x74: restricted credits and their expiration are never set.
AftReport(values) ==
  <<35>> \o Encode(Config.asset, 4)
    \o <<Aft.gameLock, Aft.available, Config.hostCashout, Config.status, Config.buffers>>
    \o Encode(values[1], 5) \o Encode(0, 5) \o Encode(Aft.nonrestricted, 5)
    \o Encode(Config.limit, 5) \o Zeros(4) \o <<Config.pool \div 256, Config.pool % 256>>

\* Two handlers answer with another command than they were asked.
ResponseCommand(c) ==
  CASE c = \h71 -> \h74 [] c = \h7F -> \h7C [] OTHER -> c

Report(request, values) ==
  LET c == request.command
      data == request.data
  IN  CASE c \in DOMAIN SingleMeter \cup {\h19, \h1D, \h1E} -> Fields(values)
        [] c = \h17 -> LostReport(values)
        [] c = \h1C -> Fields(values) \o Encode(0, 4)
        [] c = \h1F -> GameConfiguration
        [] c = \h2F -> GameNReport(data, values)
        [] c = \h51 -> NumberOfGames
        [] c = \h52 -> Game(data) \o Fields(values)
        [] c = \h53 -> GameNConfiguration(data)
        [] c = \h54 -> MachineID
        [] c = \h55 -> SelectedGame
        [] c = \h56 -> EnabledGames
        [] c \in Extended -> ExtendedReport(data, values)
        [] c = \h7B -> LastTicket
        [] c = \h1B -> DateTime(values)
        [] c = \h71 -> LockReport(data, values)
        [] c = \h74 -> AftReport(values)
        [] c \in {\h7C, \h7F} -> EnhancedTicket(values)
        [] c = \h7D -> <<1>>
        [] c = \h7E -> TicketInfo
        [] c = \hA0 -> Capabilities(data)
        [] OTHER -> <<>>

-----------------------------------------------------------------------------

NoFrame == <<>>
NoPoll == [command |-> 0, data |-> <<>>]

Init ==
  /\ meter \in Loaded
  /\ poll = NoPoll /\ todo = <<>> /\ got = <<>> /\ frame = NoFrame
  /\ tm = Utc /\ struck = FALSE
  /\ during = [m \in Meters |-> {}] /\ lost = 0
  /\ polls = 0 /\ changes = 0

Handling == polls > 0 /\ poll # NoPoll /\ frame = NoFrame

\* The port hands a poll to its handler: handleLongPoll.
Accept(request) ==
  /\ ~Handling
  /\ polls < MaxPolls
  /\ polls' = polls + 1
  /\ poll' = request
  /\ todo' = IF Answers(request) THEN Accesses(request) ELSE <<>>
  /\ got' = <<>> /\ frame' = NoFrame
  /\ during' = [m \in Meters |-> {meter[m]}]
  /\ lost' = LostGames(meter["played"], meter["won"])
  /\ struck' = FALSE
  /\ changes' = 0
  /\ UNCHANGED <<meter, tm>>

\* The meters change; the histories see it.
Write(values) ==
  /\ meter' = values
  /\ during' = [m \in Meters |-> during[m] \cup {values[m]}]
  /\ LET now == LostGames(values["played"], values["won"])
     IN  lost' = IF now > lost THEN now ELSE lost

\* One getMeter or setMeter.  An unknown code reads nothing.
GetMeter ==
  /\ todo # <<>> /\ Head(todo).op = "get"
  /\ todo' = Tail(todo)
  /\ LET m == Head(todo).meter
     IN  got' = Append(got, IF m = Unread THEN 0 ELSE meter[m])
  /\ UNCHANGED <<meter, poll, frame, clock, during, lost, polls, changes>>

SetMeter ==
  /\ todo # <<>> /\ Head(todo).op = "set"
  /\ todo' = Tail(todo)
  /\ Write([meter EXCEPT ![Head(todo).meter] = Head(todo).value])
  /\ UNCHANGED <<poll, got, frame, clock, polls, changes>>

\* localtime fills the struct; its fields are read one by one.
CallLocaltime ==
  /\ todo # <<>> /\ Head(todo).op = "localtime"
  /\ todo' = Tail(todo)
  /\ tm' = IF Head(todo).meter = "now" THEN Local ELSE Expiry
  /\ UNCHANGED <<meter, poll, got, frame, struck, during, lost, polls, changes>>

ReadTm ==
  /\ todo # <<>> /\ Head(todo).op = "field"
  /\ todo' = Tail(todo)
  /\ got' = Append(got, tm[Head(todo).meter])
  /\ UNCHANGED <<meter, poll, frame, clock, during, lost, polls, changes>>

\* sendMessage.  The handlers put 1 for the address.
Answer ==
  /\ Handling /\ todo = <<>> /\ Answers(poll)
  /\ frame' = Serialize(1, ResponseCommand(poll.command), Report(poll, got))
  /\ UNCHANGED <<meter, poll, todo, got, clock, during, lost, polls, changes>>

NoAnswer ==
  /\ Handling /\ ~Answers(poll)
  /\ poll' = NoPoll
  /\ UNCHANGED <<meter, todo, got, frame, clock, during, lost, polls, changes>>

\* incrementMeter in another thread.
IncrementMeter(m, amount) ==
  /\ Handling
  /\ changes < MaxChanges
  /\ changes' = changes + 1
  /\ Write([meter EXCEPT ![m] = @ + amount])
  /\ UNCHANGED <<poll, todo, got, frame, clock, polls>>

\* getCurrentTimestamp in another thread.  Nothing orders its writes and the
\* reads here: any of the fields may have changed already.  (For the other
\* polls that makes no difference.)
StampSave(fields) ==
  /\ Handling /\ poll.command \in DatePolls
  /\ tm' = [f \in TmFields |-> IF f \in fields THEN Utc[f] ELSE tm[f]]
  /\ struck' = TRUE
  /\ UNCHANGED <<meter, poll, todo, got, frame, during, lost, polls, changes>>

Next ==
  \/ \E request \in Requests : Accept(request)
  \/ GetMeter \/ SetMeter \/ CallLocaltime \/ ReadTm \/ Answer \/ NoAnswer
  \/ \E c \in Changes : IncrementMeter(c[1], c[2])
  \/ \E fields \in SUBSET TmFields : StampSave(fields)

Spec == Init /\ [][Next]_vars

-----------------------------------------------------------------------------
(* What the host makes of a frame.                                         *)

Answered == frame # NoFrame
\* It knows what it has asked.
Command == poll.command

\* The types of the variables: what is sent are bytes.
TypeOK ==
  /\ meter \in [Meters -> Int]
  /\ poll \in Requests \cup {NoPoll}
  /\ frame \in Seq(Byte)
  /\ got \in Seq(Int)
  /\ todo \in Seq([op : {"get", "set", "localtime", "field"},
                   meter : Meters \cup {Unread, "now", "expiry"} \cup TmFields,
                   value : Int])
  /\ tm \in [TmFields -> Int] /\ struck \in BOOLEAN
  /\ \A m \in Meters : during[m] \subseteq Int
  /\ lost \in Nat
  /\ polls \in 0..MaxPolls /\ changes \in 0..MaxChanges

\* Table C-7 (SASConstants.h) has the codes of the meters a host may select.
\* 0x2F and 0x6F give other meters, or zero, for the codes that are not here.
TableC7(command) ==
  IF command = \h2F
    THEN Table({<<0, "coinIn">>, <<1, "coinOut">>, <<\h0C, "credits">>})
    ELSE Table({<<0, "coinIn">>, <<\h0C, "credits">>, <<5, "played">>, <<\h40, "1">>,
                <<\h42, "5">>, <<\h43, "10">>, <<\h44, "20">>})

\* Where the comments of the handlers have the fields of a fixed format:
\* an offset, a meter and a number of bytes.
InARow(first, meters) ==
  {<<first + 4 * (i - 1), meters[i], 4>> : i \in 1..Len(meters)}
FixedFields ==
  CASE Command \in DOMAIN SingleMeter -> InARow(3, <<SingleMeter[Command]>>)
    [] Command = \h19 ->
         InARow(3, <<"coinIn", "coinOut", "drop", "jackpot", "played">>)
    [] Command = \h1C ->
         InARow(3, <<"coinIn", "coinOut", "drop", "jackpot", "played", "won", "door">>)
    [] Command = \h1D -> InARow(3, <<"restIn", "nonrestIn", "aftOut", "aftIn">>)
    [] Command = \h1E -> InARow(3, <<"1", "5", "10", "20", "50", "100">>)
    [] Command = \h52 -> InARow(5, <<"coinIn", "coinOut", "jackpot", "played">>)
    [] Command = \h71 /\ Granted(poll.data) -> {<<9, "credits", 5>>}
    [] Command = \h74 -> {<<13, "credits", 5>>}
    [] OTHER -> {}

\* The fields of 0x6F and 0xAF follow one another by their size bytes, those
\* of 0x2F have five bytes each.
ItemAt ==
  LET at[k \in 1..13] ==
        IF k = 1 THEN 6
        ELSE IF at[k - 1] + 2 > Len(frame) THEN at[k - 1]
        ELSE at[k - 1] + 3 + frame[at[k - 1] + 2]
  IN  {p \in {at[k] : k \in 1..13} : p + 6 <= Len(frame) - 2}
CodedFields ==
  CASE Command \in Extended ->
         {<<p + 3, TableC7(Command)[frame[p]], 4>> :
            p \in {q \in ItemAt : frame[q + 1] = 0
                                 /\ frame[q] \in DOMAIN TableC7(Command)}}
    [] Command = \h2F ->
         {<<p + 1, TableC7(Command)[frame[p]], 4>> :
            p \in {q \in 6..(Len(frame) - 6) :
                     (q - 6) % 5 = 0 /\ frame[q] \in DOMAIN TableC7(Command)}}
    [] OTHER -> {}

\* A report is no snapshot, but each of its fields is: what the host decodes
\* where the format has a meter is a value this meter had while the poll was
\* handled, or zero for one that was negative or too large for the field.
FieldsFaithful ==
  Answered =>
    \A field \in FixedFields \cup CodedFields :
      LET told == Decode(SubSeq(frame, field[1], field[1] + field[3] - 1))
          Fit(value) ==
            value >= 0 /\ (value \div 10000) \div 10000 < (IF field[3] = 4 THEN 1 ELSE 100)
      IN  \E value \in during[field[2]] : told = IF Fit(value) THEN value ELSE 0

\* 0x17 reads two meters that others count on: the host is never told more
\* lost games than there were at some moment of the poll.
LostNotOverstated ==
  Answered /\ Command = \h17 => Decode(SubSeq(frame, 3, 6)) <= lost

\* The dates of 0x1B and of the enhanced validation are those of the machine's
\* clock and of the ticket; a save that was stamped meanwhile puts the UTC time
\* of the save in some of their fields, and nothing else.
DateFields ==
  {<<"month", 0, 0>>, <<"day", 1, 1>>, <<"year", 2, 3>>}
    \cup (IF Command = \h1B
            THEN {<<"hour", 4, 4>>, <<"minute", 5, 5>>, <<"second", 6, 6>>} ELSE {})
Calendar(time, field) ==
  CASE field = "month" -> time[field] + 1
    [] field = "year" -> time[field] + 1900
    [] OTHER -> time[field]
DatesTold ==
  Answered /\ Command \in DatePolls =>
    LET first == IF Command = \h1B THEN 3 ELSE 17
        asked == IF Command = \h1B THEN Local ELSE Expiry
    IN  \A d \in DateFields :
          LET told == Decode(SubSeq(frame, first + d[2], first + d[3]))
          IN  \/ told = Calendar(asked, d[1])
              \/ struck /\ told = Calendar(Utc, d[1])

\* The lengths of the fixed formats.
FrameLength ==
  CASE Command \in DOMAIN SingleMeter \cup {\h17} -> 8
    [] Command = \h1B -> 11
    [] Command = \h71 -> IF Granted(poll.data) THEN 15 ELSE 6
    [] Command \in {\h19, \h1F} -> 24
    [] Command = \h1C -> 36
    [] Command = \h1D -> 20
    [] Command = \h1E -> 28
    [] Command \in {\h51, \h55} -> 6
    [] Command \in {\h52, \h7C, \h7F} -> 22
    [] Command = \h7B -> 17
    [] Command = \h7D -> 5
    [] Command = \h7E -> 7
    [] Command = \hA0 -> 12

\* The host finds the checksum, and so the next answer, where the length byte
\* or the format says: no poll it may send makes the machine overrun a length
\* byte, but 0x2F, which takes any number of codes, if they are more than 50,
\* and 0x56 of a machine with more games than the byte can count.
EndFound ==
  Answered =>
    IF Command \in {\h2F, \h53, \h54, \h56, \h74} \cup Extended
      THEN \/ frame[3] = Len(frame) - 5
           \/ Command = \h2F /\ Len(poll.data) > 52
           \/ Command = \h56 /\ Len(Games) > 127
      ELSE Len(frame) = FrameLength

\* The checksum that is computed by nibbles is the one of the polynomial,
\* and it is sent with the low byte first: the host can check every frame.
FrameVerifies ==
  Answered =>
    CrcByBits(SubSeq(frame, 1, Len(frame) - 2))
      = frame[Len(frame) - 1] + 256 * frame[Len(frame)]

=============================================================================
