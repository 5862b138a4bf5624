---------------------------- MODULE AisSentence ----------------------------
(***************************************************************************)
(* What AisRadioMsgParser makes of the lines of the AIS feed: which lines  *)
(* it takes for sentences, which calls throw, and what a list of sentences *)
(* parses to.  A sentence is abstracted to what these decisions look at.   *)
(***************************************************************************)
EXTENDS Naturals, Sequences

\* vdm:      the first column matches "!..VDM"
\* columns:  number of comma separated columns (a whole sentence has 7)
\* numeric:  the two sentence counters are numbers
\* checksum: the last column has something after its '*'
\* total, part: how many sentences the message takes, which of them this is
\* body:     what the payload encodes; "short" when its bits run out
Sentence == [vdm : BOOLEAN, columns : 1..7, numeric : BOOLEAN, checksum : BOOLEAN,
             total : Nat, part : Nat,
             body : {"position", "metadata", "unsupported", "short"}]

\* Six columns are enough here, although validateChecksum reads the seventh.
isSupportedMessageType(s) == s.vdm /\ s.columns >= 6

isMultipartRadioMessage(s) == s.total > 1

\* parseInt in isMultipartRadioMessage and getPartNumber
countersParse(s) == s.numeric

\* validateChecksum only logs a wrong checksum; it throws when there is no
\* seventh column or nothing after its '*'.
checksumReadable(s) == s.columns = 7 /\ s.checksum

\* parseToAisRadioMessage: the message class is read off the first sentence;
\* an unsupported class gives null, a payload too short for its class throws.
parseToAisRadioMessage(parts) ==
  CASE parts[1].body = "unsupported" -> "null"
    [] \E i \in DOMAIN parts : parts[1].body # "unsupported" /\ parts[i].body = "short" -> "throws"
    [] OTHER -> "message"
=============================================================================
