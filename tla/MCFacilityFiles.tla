---------------------------- MODULE MCFacilityFiles ----------------------------
(* Small instances of FacilityFiles for TLC.                                 *)
EXTENDS FacilityFiles, TLC

L(key, value) == [key |-> key, value |-> value, newline |-> TRUE]

TheKeys   == <<"name", "zone", "tilt">>
TheValues == {"a", "b", "1", "2"}

\* config/examples: home.conf, one with the old key of the zone, example.conf,
\* and osi_blank_facility_config.
Home     == <<L("other", Garbled), L("name", "a"), L("zone", "1")>>
HomeOpen == [Home EXCEPT ![3].newline = FALSE]
Twice    == <<L("zone", "1"), L("name", "a"), L("zone", "2")>>
OldZone  == <<L("price_class", "1"), L("name", "a")>>
Example  == <<L("name", Empty), L("zone", Empty), L("tilt", Empty)>>
TheBlank == <<L("name", Empty), L("zone", "1"), L("tilt", "1")>>

Installations ==
  {[home |-> home, a |-> NoFile, example |-> template] :
     home \in {Home, HomeOpen, Twice, OldZone}, template \in {NoFile, Example}}

\* The name b stands for "example"; a renamed facility leaves its old name to
\* others, so that both files can be taken when their name is asked for.
TheFileOf == "a" :> "a" @@ "b" :> "example"

Posted ==
  {<<L("name", "b"), L("tilt", "1")>>,
   <<L("zone", "1"), L("name", Empty), L("zone", "2")>>,
   <<>>,
   <<L("zone", TooLong)>>,
   <<L("other", "1")>>}

EveryFault == {"open", "disk", "crash", "signal"}
=============================================================================
