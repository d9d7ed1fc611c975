------------------------------ MODULE MCDetection ------------------------------
(* Detectors and PlateText for TLC: a behaviour takes one frame through the detectors, or *)
(* the crops of one track to the text that is stored. *)
EXTENDS Detectors, PlateText

(* Two close-ups, a 1080p street, a 4K gate and a 16 megapixel photograph. *)

Box(x, y, w, h) == [x1 |-> x, y1 |-> y, x2 |-> x + w, y2 |-> y + h]
Vehicle(x, y, w, h, c) == [x1 |-> x, y1 |-> y, x2 |-> x + w, y2 |-> y + h, cls |-> c]

Street == [w |-> 1920, h |-> 1080,
           plates |-> {Box(480, 700, 200, 50), Box(900, 740, 30, 12)},
           vehicles |-> {Vehicle(5, 300, 600, 500, 2), Vehicle(560, 320, 500, 480, 7),
                         Vehicle(820, 500, 160, 300, 3)}]

\* Plates across the seams of the tiles of a large frame.
Gate(x, y) == [w |-> 3840, h |-> 2160, plates |-> {Box(x, y, 220, 60)},
               vehicles |-> {Vehicle(x - 100, y - 40, 300, 200, 2)}]
Gates == {Gate(x, y) : x \in {1000, 1100, 1200, 3060}, y \in {400, 1010, 1250}}

Close3 == [w |-> 1280, h |-> 720,
           plates |-> {Box(100, 100, 100, 20), Box(250, 100, 100, 20), Box(440, 110, 100, 20)},
           vehicles |-> {}]

Photo(x, y) == [w |-> 4608, h |-> 3456, plates |-> {Box(x, y, 200, 60)}, vehicles |-> {}]
Photos == {Photo(x, y) : x \in {2200, 4390}, y \in {2100, 3380}}

\* A car's plate behind a motorcycle: the bottom of the motorcycle's crop is nearly the plate.
Queue == [w |-> 1280, h |-> 720, plates |-> {Box(70, 112, 130, 60)},
          vehicles |-> {Vehicle(20, 40, 300, 200, 2), Vehicle(100, 100, 100, 60, 3)}]

MCScenes == {Street, Close3, Queue} \cup Gates \cup Photos

(* Registrations of every layout, full of characters that are easily confused. *)

P(c1, c2, c3, c4, rest) == <<c1, c2, c3, c4>> \o rest

MCPlates == {P("M","H","1","2", <<"A","B","1","2","3","4">>),
             P("B","R","0","8", <<"I","5","0","8","1">>),
             P("D","L","0","1", <<"C","A","S","0","0","0","1">>),
             P("2","2","B","H", <<"1","2","8","0","A","S">>)}

\* District 84, no series, a series with the letter that is not used, a district of one digit,
\* a short number, one where the two tables differ, a state that district 84 makes a year.
MCSupported == {P("U","P","8","4", <<"A","B","1","2","3","4">>),
                P("M","H","1","2", <<"1","2","3","4">>),
                P("K","A","0","5", <<"M","O","1","2","3","4">>),
                P("D","L","1","C", <<"A","B","1","2","3","4">>),
                P("M","H","1","2", <<"A","B","1","2">>),
                P("M","H","1","2", <<"A","C","E","1","2">>),
                P("G","A","8","4", <<"A","B","1","2","3","4">>)}

MCAll == MCPlates \cup MCSupported

-------------------------------------------------------------------------------
VARIABLE half    \* "frame" or "text", the other half stays at its start

HalfInit ==
    /\ Init /\ TextInit
    /\ \/ half = "frame" /\ plate = CHOOSE p \in Plates : TRUE
       \/ half = "text" /\ mode = "yolo" /\ loaded /\ scene = Street

HalfNext ==
    \/ half = "frame" /\ Next /\ UNCHANGED <<half, textVars>>
    \/ half = "text" /\ TextNext /\ UNCHANGED <<half, vars>>

HalfSpec == HalfInit /\ [][HalfNext]_<<half, vars, textVars>>

===============================================================================
