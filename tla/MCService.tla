------------------------------ MODULE MCService ------------------------------
(***************************************************************************)
(* Requests together with the settings they stand for.                     *)
(***************************************************************************)
EXTENDS MCAppliance, ServiceInvariant

Setting(d, s, n) == [device |-> d, state |-> s, duration |-> n]

Settings == { Setting("d1", "on", "ten"), Setting("d1", "off", "ten"),
              Setting("d2", "on", "zero"), Setting("d9", "on", "ten") }

Orders == {<<x>> : x \in Settings} \cup {<<x, y>> : x, y \in Settings}

Encode(c) ==
    IF Len(c) = 1
    THEN Set1(c[1].device, c[1].state, c[1].duration)
    ELSE Set2(c[1].device, c[1].state, c[1].duration,
              c[2].device, c[2].state, c[2].duration)

Entry(r, c) == [bytes |-> r, settings |-> c]

\* Commands, a command with a byte after it, and requests that set nothing.
Catalogue ==
    {Entry(Encode(c), c) : c \in Orders}
    \cup {Entry(Encode(<<x>>) \o <<FIXINT>>, <<x>>) : x \in Settings}
    \cup {Entry(r, <<>>) : r \in {GetDataReq} \cup Malformed}

ServiceRequests == {e.bytes : e \in Catalogue}

\* The settings of the requests, and those of the device without a third key in
\* Malformed: it sets nothing, but reads as a command of this one, broken off.
ServiceCommands == {e.settings : e \in Catalogue}
                   \cup {<<Setting("d2", "on", "ten")>>}

MeaningOf(r) == (CHOOSE e \in Catalogue : e.bytes = r).settings

\* What the theorems about ArgumentsSent and about the service suppose is true of
\* these requests and of what they stand for.
ASSUME ServiceAssumption ==
    (\A e \in Catalogue : CarriesArguments(e.bytes)) /\ Understood
=============================================================================
