------------------------------- MODULE MCInputs -------------------------------
(***************************************************************************)
(* Where the sectors of a disc come from, and the tables that are read     *)
(* first: DiscInput on an image of five sectors, NetInput on a disc of     *)
(* three, and DiscTables on discs with what may be wrong with theirs.      *)
(* They are checked one at a time: part says which of them runs, and the   *)
(* others stand still.                                                     *)
(***************************************************************************)
EXTENDS DiscInput

CONSTANTS Total, MaxRead, MaxRejected,    \* NetInput
          Discs                           \* DiscTables

VARIABLES part,
          netPc, call, held, fd, stdin, link, toServer, toClient, rejected, netBuffer, value,    \* NetInput
          disc, tablesPc, handle, live, wrongFree                                               \* DiscTables

netVars == <<netPc, call, held, fd, stdin, link, toServer, toClient, rejected, netBuffer, value>>
tablesVars == <<disc, tablesPc, handle, live, wrongFree>>
inputsVars == <<part, vars, netVars, tablesVars>>
-----------------------------------------------------------------------------
(* NetInput: up to two sectors at once, and one answer that is given up.   *)

Net == INSTANCE NetInput WITH pc <- netPc, buffer <- netBuffer

ASSUME DiscOnServerAssumption == Net!NetAssumption

\* NetInput: client and server stay in step, and a read tells what it has read.
ReadsAreAnswered == part = "network" => Net!NetTypeOK /\ Net!ReadsAreAnswered
\* NetInput: a call comes back.
CallsReturn == Net!CallsReturn
-----------------------------------------------------------------------------
(* DiscTables: one area or two, of the same kind or not, with every damage *)
(* of a table that is looked for, and blocks that are in or out of order.  *)

NoArea == [present |-> FALSE, table |-> "good", twoch |-> TRUE, descriptions |-> 0, tracks |-> 0, blocks |-> <<>>]
AnArea(table, twoch, descriptions, blocks) ==
    [present |-> TRUE, table |-> table, twoch |-> twoch, descriptions |-> descriptions, tracks |-> 2, blocks |-> blocks]

SomeBlocks == {<<>>, <<"SACDTRL1", "unknown", "SACDTRL2">>}
MCBlocks == SomeBlocks \cup {<<"SACDTTxt", "SACD_IGL", "SACDTRL1", "SACDTRL2">>,
                             <<"SACDTRL2", "SACD_ACC", "SACDTRL1", "SACDTTxt", "SACDTTxt">>}
MCAreas == {NoArea} \cup {AnArea(t, c, n, b) : t \in {"good", "unreadable", "identifier", "version"},
                                               c \in BOOLEAN, n \in {1, 2}, b \in MCBlocks}

ADisc(master, first, second) == [master |-> master, areas |-> <<first, second>>, titles |-> 1]
MCDiscs == {ADisc("good", a, b) : a \in MCAreas, b \in {x \in MCAreas : x.blocks \in SomeBlocks}}
           \cup {ADisc(m, AnArea("good", TRUE, 1, <<"SACDTRL1">>), NoArea) :
                    m \in {"good", "unreadable", "identifier", "version", "texts", "manufacturer"}}

Tables == INSTANCE DiscTables WITH pc <- tablesPc

ASSUME TablesAssumption == Tables!DiscsAssumption

\* DiscTables: an area that is there is what its table says.
AreasAreWhatTheySay == part = "tables" => Tables!TablesTypeOK /\ Tables!AreasAreWhatTheySay
\* NetInput and DiscTables: what opening takes, closing gives back, also when opening
\* fails halfway or the connection is gone.
ClosingFreesWhatOpeningTook == /\ part = "network" => Net!ClosedHoldsNothing
                               /\ part = "tables" => Tables!ClosingFreesWhatOpeningTook
-----------------------------------------------------------------------------
NetStep(A) == part = "network" /\ A /\ UNCHANGED <<part, vars, tablesVars>>

InputsInit == /\ part \in {"image", "network", "tables"}
              /\ Init /\ Net!Init /\ Tables!Init
              /\ part # "tables" => disc = CHOOSE d \in Discs : TRUE

InputsNext == \/ part = "image" /\ Next /\ UNCHANGED <<part, netVars, tablesVars>>
              \/ NetStep(Net!Next)
              \/ part = "tables" /\ Tables!Next /\ UNCHANGED <<part, vars, netVars>>

\* The fairness of NetInput.
InputsSpec == /\ InputsInit /\ [][InputsNext]_inputsVars
              /\ WF_inputsVars(NetStep(Net!Caller)) /\ WF_inputsVars(NetStep(Net!Answer))
==============================================================================
