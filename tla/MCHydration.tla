---------------------------- MODULE MCHydration ----------------------------
(* Instances of Hydration for TLC. *)
EXTENDS Hydration

\* The pieces of text that occur: each with itself trimmed at the start, trimmed
\* at the end, and upper-cased.
Pieces ==
  { <<"", "", "", "">>, <<" ", "", "", " ">>,
    <<"m:beam", "m:beam", "m:beam", "M:BEAM">>, <<" m:beam", "m:beam", " m:beam", " M:BEAM">>,
    <<"m:beam ", "m:beam ", "m:beam", "M:BEAM ">>,
    <<" m:beam ", "m:beam ", " m:beam", " M:BEAM ">>,
    <<"M:BEAM", "M:BEAM", "M:BEAM", "M:BEAM">>, <<" M:BEAM", "M:BEAM", " M:BEAM", " M:BEAM">>,
    <<"M:BEAM ", "M:BEAM ", "M:BEAM", "M:BEAM ">>,
    <<" M:BEAM ", "M:BEAM ", " M:BEAM", " M:BEAM ">> }
  \cup { <<word[1], word[1], word[1], word[2]>> :
           word \in { <<"X", "X">>, <<"Epics", "EPICS">>, <<"EPICS", "EPICS">>,
                      <<"Analog", "ANALOG">>, <<"ANALOG", "ANALOG">>,
                      <<"Digital", "DIGITAL">>, <<"DIGITAL", "DIGITAL">>,
                      <<"Unknown", "UNKNOWN">>, <<"UNKNOWN", "UNKNOWN">>,
                      <<"Bogus", "BOGUS">>, <<"BOGUS", "BOGUS">> } }

column(n) == [p \in { piece[1] : piece \in Pieces } |-> (CHOOSE piece \in Pieces : piece[1] = p)[n]]
MCtrim_start == column(2)
MCtrim_end == column(3)
MCto_uppercase == column(4)

MCDeviceTexts == { <<"M:BEAM", "Epics">>, <<" m:beam", "EPICS">>, <<"M:BEAM", "Analog">>,
                   <<"M:BEAM", "Bogus">>, <<"M:BEAM">>, <<" ", "Epics">>,
                   <<"M:BEAM", "X", "Epics">> }

\* Devices with a '#' of their own, a blank device, an unknown source.
MCRedisEntries == { [device |-> <<"M:BEAM", "EPICS">>, source |-> "Epics"],
                    [device |-> <<" ">>, source |-> "Epics"],
                    [device |-> <<"">>, source |-> "Epics"],
                    [device |-> <<"M:BEAM">>, source |-> "Unknown"] }

status(device, source, state) ==
  [device |-> device, source |-> source, state |-> state, wake |-> 1]

\* A tombstone, an unreadable payload, another spelling, a status of another
\* source, a record without and one with an invalid key.
MCForeignRecords ==
  { [key |-> <<"M:BEAM", "Epics">>, payload |-> Tombstone],
    [key |-> <<"M:BEAM", "Epics">>, payload |-> Malformed],
    [key |-> <<" m:beam", "EPICS">>, payload |-> status(<<" m:beam">>, "Epics", "Bypassed")],
    [key |-> <<"M:BEAM", "Epics">>, payload |-> status(<<"M:BEAM">>, "Analog", "Bypassed")],
    [key |-> None, payload |-> status(<<"M:BEAM">>, "Epics", "Bypassed")],
    [key |-> <<" ", "Epics">>, payload |-> status(<<" ">>, "Epics", "Bypassed")] }

\* Of the last device only the start and the end of the whole are trimmed.
MCReports ==
  { <<>>,
    <<status(<<"M:BEAM">>, "Analog", "Bypassed"), status(<<" m:beam">>, "Analog", "Alarmed"),
      status(<<" m:beam ", " m:beam ">>, "Analog", "Alarmed")>>,
    <<status(<<"M:BEAM">>, "Epics", "Alarmed")>> }
=============================================================================
