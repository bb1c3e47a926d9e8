----------------------------- MODULE MCContents -----------------------------
(***************************************************************************)
(* The instance of Contents for TLC. Of the texts, Medium is wider than    *)
(* 100 characters and Long than 255; Padded is one letter with more than   *)
(* 255 spaces behind it, of which the columns keep Pad100 and Pad255.      *)
(***************************************************************************)
EXTENDS Contents

CONSTANTS Medium, Long, Padded, Pad100, Pad255

MCTexts ==
    {"", "a", "type", "serial", "model", "text", Medium, Long, Padded, Pad100, Pad255}

MCKept ==
    [n \in {100, 255} |-> [v \in MCTexts |->
       CASE v = Long                               -> TooLong
         [] v = Medium /\ n = 100                  -> TooLong
         [] v \in {Padded, Pad255} /\ n = 100      -> Pad100
         [] v = Padded /\ n = 255                  -> Pad255
         [] OTHER                                  -> v]]

Device(t, s, m, d) ==
    [kind |-> "device", deviceType |-> t, serial |-> s, model |-> m, description |-> d]

\* Every text present, absent, too long and cut, and no two alike.
MCDevices ==
    {Device("type", "serial", "model", "text"), Device("", "", "", ""),
     Device("type", Medium, "", Long), Device("type", "serial", Pad255, ""),
     Device(Padded, Padded, "model", Padded),
     Device(Medium, "", "", ""), Device("", Long, "", ""), Device("", "", Medium, "")}

\* Around 0 and the bounds of a SMALLINT.
MCCapacities == {-32769, 0, 1, 32767, 32768}
=============================================================================
