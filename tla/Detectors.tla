------------------------------- MODULE Detectors -------------------------------
(***************************************************************************)
(* Finding the plates of one frame: the YOLO wrapper, the tiled detector   *)
(* and the hierarchical detector (detection/*.py), chosen in main.py.      *)
(*                                                                         *)
(* All coordinates are pixels and all confidences per cent.  What a model  *)
(* sees in an image is the environment's choice: of every plate that lies  *)
(* at least partly in the image it reports the visible part, with some     *)
(* confidence, or nothing.                                                 *)
(***************************************************************************)
EXTENDS Integers, Sequences, FiniteSets, SequencesExt

CONSTANTS
    Scenes,          \* frames: [w, h, plates, vehicles]
    Modes,           \* the detectors the configuration can choose: yolo, tiled, hierarchical
    Confidences,     \* confidences a model can report
    TileSize,        \* tile_size
    Overlap,         \* overlap_ratio, per cent
    IouThreshold,    \* iou_threshold and plate_iou_threshold, per cent
    BatchSize,       \* batch_size
    PlateConf,       \* conf_threshold and plate_conf
    MotorcycleConf,  \* motorcycle_plate_conf
    Padding,         \* vehicle_padding, per cent
    MotorcyclePadding, \* motorcycle_extra_padding
    Scales           \* number of motorcycle_imgsz_scales

ASSUME DetectorAssumption ==
    /\ Modes \subseteq {"yolo", "tiled", "hierarchical"}
    /\ Confidences \subseteq 1..100
    /\ {Overlap, IouThreshold, PlateConf, MotorcycleConf} \subseteq 1..99
    /\ {TileSize, BatchSize, Scales} \subseteq Nat \ {0}
    /\ {Padding, MotorcyclePadding} \subseteq Nat
    /\ TileSize * (100 - Overlap) >= 100      \* else stride = 0, and range() raises

VARIABLES
    pc,
    mode,       \* the configured detector
    merging,    \* vehicle_merge
    hasOcr,     \* is ocr_engine given?
    loaded,     \* were the plate weights found?
    scene,      \* the frame
    vehicles,   \* the vehicle boxes still to scan
    pass,       \* scales of the motorcycle done
    tiles,      \* the tiles still to scan
    local,      \* boxes of the motorcycle crop
    all,        \* all_plates, all_boxes
    result,     \* what detect returns
    sighted,    \* ghost: <<plate, confidence>> of every sighting
    whole       \* ghost: the plates that lay whole in a tile

options == <<mode, merging, hasOcr, loaded, scene>>
vars == <<pc, options, vehicles, pass, tiles, local, all, result, sighted, whole>>

-------------------------------------------------------------------------------
(* Boxes *)

Lower(a, b) == IF a < b THEN a ELSE b
Upper(a, b) == IF a < b THEN b ELSE a

Meet(a, b) == [x1 |-> Upper(a.x1, b.x1), y1 |-> Upper(a.y1, b.y1),
               x2 |-> Lower(a.x2, b.x2), y2 |-> Lower(a.y2, b.y2)]
Area(b) == Upper(0, b.x2 - b.x1) * Upper(0, b.y2 - b.y1)
Inside(a, b) == a.x1 >= b.x1 /\ a.y1 >= b.y1 /\ a.x2 <= b.x2 /\ a.y2 <= b.y2

\* _iou(a, b) >= threshold.
Same(a, b) ==
    LET inter == Area(Meet(a, b))
    IN  inter > 0 /\ 100 * inter >= IouThreshold * (Area(a) + Area(b) - inter)

Shift(b, dx, dy) == [x1 |-> b.x1 + dx, y1 |-> b.y1 + dy,
                     x2 |-> b.x2 + dx, y2 |-> b.y2 + dy, conf |-> b.conf]
ShiftAll(bs, dx, dy) == [i \in DOMAIN bs |-> Shift(bs[i], dx, dy)]

\* What a scene is: plates are rectangles that share no pixel.
Rect == [x1 : Int, y1 : Int, x2 : Int, y2 : Int]
ASSUME SceneAssumption ==
    \A f \in Scenes :
        /\ {f.w, f.h} \subseteq Nat \ {0}
        /\ f.plates \subseteq Rect /\ IsFiniteSet(f.plates)
        /\ \A p, q \in f.plates : p # q => Area(Meet(p, q)) = 0
        /\ f.vehicles \subseteq [x1 : Int, y1 : Int, x2 : Int, y2 : Int, cls : Nat]
        /\ IsFiniteSet(f.vehicles)

Frame == [x1 |-> 0, y1 |-> 0, x2 |-> scene.w, y2 |-> scene.h]
Whole(region) == {p \in scene.plates : Inside(p, region)}

\* Mutant of Before: the sort is ascending.
MutAscending(bs, i, j) == bs[i].conf < bs[j].conf \/ (bs[i].conf = bs[j].conf /\ i < j)

\* Does the stable sort by descending confidence put box i before box j?
Before(bs, i, j) == bs[i].conf > bs[j].conf \/ (bs[i].conf = bs[j].conf /\ i < j)

\* One round of _nms: the first box left is kept and takes away all that are too like it.
KeepFirst(bs, state) ==
    LET best == CHOOSE i \in state.left : \A j \in state.left \ {i} : Before(bs, i, j)
    IN  IF state.left = {} THEN state
        ELSE [left |-> {j \in state.left : j # best /\ ~Same(bs[best], bs[j])},
              keep |-> Append(state.keep, bs[best])]

\* _nms: rounds until no box is left, at most one for each box.
NMS(bs) ==
    LET round[n \in 0..Len(bs)] ==
            IF n = 0 THEN [left |-> DOMAIN bs, keep |-> <<>>] ELSE KeepFirst(bs, round[n - 1])
    IN  round[Len(bs)].keep

NMSIfMany(bs) == IF Len(bs) > 1 THEN NMS(bs) ELSE bs

\* Do the two plates' centres lie within twice the longer diagonal?
Close(a, b) ==
    LET dx == (a.x1 + a.x2) - (b.x1 + b.x2)
        dy == (a.y1 + a.y2) - (b.y1 + b.y2)
        diag2(c) == (c.x2 - c.x1) * (c.x2 - c.x1) + (c.y2 - c.y1) * (c.y2 - c.y1)
    IN  dx * dx + dy * dy < 16 * Upper(diag2(a), diag2(b))

\* The later boxes that box i is joined with, and itself.
Near(bs, i) == {j \in DOMAIN bs : i = j \/ (i < j /\ Close(bs[i], bs[j]))}

\* Mutant of Joined: union without find, only box i changes its root.
MutUnionNoFind(bs, root, i) == [root EXCEPT ![i] = root[Max(Near(bs, i))]]

\* One row of the pairs: the clusters of box i and of all near it become one.
Joined(bs, root, i) ==
    [k \in DOMAIN bs |-> IF \E j \in Near(bs, i) : root[k] = root[j] THEN root[i] ELSE root[k]]

\* _merge_vehicle_plates: single-linkage clusters by union-find, the best box of each, the
\* first if several.  Which member is a cluster's root plays no role.
MergeVehiclePlates(bs) ==
    LET root[n \in 0..Len(bs)] ==
            IF n = 0 THEN [i \in DOMAIN bs |-> i] ELSE Joined(bs, root[n - 1], n)
        cluster(i) == {j \in DOMAIN bs : root[Len(bs)][j] = root[Len(bs)][i]}
        keep == {i \in DOMAIN bs : \A j \in cluster(i) \ {i} : Before(bs, i, j)}
    IN  [n \in 1..Cardinality(keep) |-> bs[SetToSeq(keep)[n]]]

MergeIfMany(bs) == IF merging /\ Len(bs) > 1 THEN MergeVehiclePlates(bs) ELSE bs

-------------------------------------------------------------------------------
(* The models *)

Visible(region) == {p \in scene.plates : Area(Meet(p, region)) > 0}
Values(conf) == {0} \cup {c \in Confidences : loaded /\ c >= conf}

\* What a model makes of an image: a confidence for each plate it could see, or 0.
Sightings(region, conf) == [Visible(region) -> Values(conf)]

\* The boxes of a sighting, in the coordinates of the image; their order plays no role.
Boxes(region, s) ==
    LET box(p) == LET b == Meet(p, region)
                  IN  [x1 |-> b.x1 - region.x1, y1 |-> b.y1 - region.y1,
                       x2 |-> b.x2 - region.x1, y2 |-> b.y2 - region.y1, conf |-> s[p]]
    IN  SetToSeq({box(p) : p \in {q \in DOMAIN s : s[q] > 0}})

Sighted(s) == {<<p, s[p]>> : p \in {q \in DOMAIN s : s[q] > 0}}

\* YoloPlateDetector.load_model, HierarchicalDetector.load_model: missing plate
\* weights are only logged; a missing vehicle model raises and nothing runs.
Init ==
    /\ pc = "detect"
    /\ mode \in Modes
    /\ merging \in (IF mode = "tiled" THEN BOOLEAN ELSE {FALSE})
    /\ hasOcr \in (IF mode = "hierarchical" THEN BOOLEAN ELSE {FALSE})
    /\ loaded \in BOOLEAN
    /\ scene \in Scenes
    /\ vehicles = <<>> /\ pass = 0 /\ tiles = <<>>
    /\ local = <<>> /\ all = <<>> /\ result = <<>>
    /\ sighted = {} /\ whole = {}

-------------------------------------------------------------------------------
(* The tiled detector, and the plain one *)

LongSide == Upper(scene.w, scene.h)
Stride == (TileSize * (100 - Overlap)) \div 100

\* The tiles of a frame whose corners are step apart, row by row.
Grid(w, h, step) ==
    LET cols == (w - 1) \div step + 1
        rows == (h - 1) \div step + 1
    IN  [n \in 1..(cols * rows) |->
            LET x == step * ((n - 1) % cols)
                y == step * ((n - 1) \div cols)
            IN  [x1 |-> x, y1 |-> y, x2 |-> Lower(x + TileSize, w),
                 y2 |-> Lower(y + TileSize, h)]]
IsSliver(t) == 4 * Area(t) < TileSize * TileSize

\* The tiles of the grid in its order, without the slivers at the frame's edge.
Scanned(grid) ==
    LET upTo[n \in 0..Len(grid)] ==
            IF n = 0 THEN <<>>
            ELSE IF IsSliver(grid[n]) THEN upTo[n - 1] ELSE Append(upTo[n - 1], grid[n])
    IN  upTo[Len(grid)]

\* Mutant of Tiles: a stride of a whole tile.
MutNoOverlap == Scanned(Grid(scene.w, scene.h, TileSize))

Tiles == Scanned(Grid(scene.w, scene.h, Stride))

\* detect of a frame up to twice the tile: one inference of the whole frame.
\* The plain detector does the same with every frame.
DetectWholeFrame ==
    /\ \/ pc = "detect" /\ mode = "yolo"
       \/ pc = "tiled" /\ LongSide <= 2 * TileSize
    /\ \E s \in Sightings(Frame, PlateConf) :
          /\ result' = MergeIfMany(Boxes(Frame, s))
          /\ sighted' = Sighted(s)
    /\ pc' = "done"
    /\ UNCHANGED <<options, vehicles, pass, tiles, local, all, whole>>

StartTiled ==
    /\ pc = "detect" /\ mode = "tiled"
    /\ pc' = "tiled"
    /\ UNCHANGED <<options, vehicles, pass, tiles, local, all, result, sighted, whole>>

SliceFrame ==
    /\ pc = "tiled" /\ LongSide > 2 * TileSize
    /\ tiles' = Tiles
    /\ pc' = "batches"
    /\ UNCHANGED <<options, vehicles, pass, local, all, result, sighted, whole>>

\* One batch of tiles; each box is moved by the corner of its own tile.
ScanBatch ==
    /\ pc = "batches" /\ tiles # <<>>
    /\ LET n == Lower(BatchSize, Len(tiles))
           batch == SubSeq(tiles, 1, n)
           views == UNION {{i} \X Visible(batch[i]) : i \in 1..n}
       IN  \E s \in [views -> Values(PlateConf)] :
              LET seen == [i \in 1..n |-> [p \in Visible(batch[i]) |-> s[<<i, p>>]]]
                  moved == [i \in 1..n |->
                               ShiftAll(Boxes(batch[i], seen[i]), batch[i].x1, batch[i].y1)]
              IN  /\ all' = all \o FlattenSeq(moved)
                  /\ sighted' = sighted \cup UNION {Sighted(seen[i]) : i \in 1..n}
                  /\ whole' = whole \cup UNION {Whole(batch[i]) : i \in 1..n}
                  /\ tiles' = SubSeq(tiles, n + 1, Len(tiles))
    /\ UNCHANGED <<pc, options, vehicles, pass, local, result>>

\* The pass over the full frame, the merge of all boxes and that of the vehicles.
FullFramePass ==
    /\ pc = "batches" /\ tiles = <<>>
    /\ \E s \in Sightings(Frame, PlateConf) :
          /\ result' = MergeIfMany(NMS(all \o Boxes(Frame, s)))
          /\ sighted' = sighted \cup Sighted(s)
    /\ pc' = "done"
    /\ UNCHANGED <<options, vehicles, pass, tiles, local, all, whole>>

-------------------------------------------------------------------------------
(* The hierarchical detector *)

\* _detect_vehicles finds some of the vehicles; without any, the tiled detector
\* is created on first use, sharing the plate model, and takes the frame.
DetectVehicles ==
    /\ pc = "detect" /\ mode = "hierarchical"
    /\ \E found \in SUBSET scene.vehicles : vehicles' \in SetToSeqs(found)
    /\ pc' = IF vehicles' = <<>> THEN "tiled" ELSE "vehicles"
    /\ UNCHANGED <<options, pass, tiles, local, all, result, sighted, whole>>

IsMotorcycle(v) == v.cls = 3

\* The crop of a vehicle with its padding, inside the frame; int() truncates, which
\* differs from \div only below 0, where the frame cuts anyway.
CropOf(v) ==
    LET padding == IF IsMotorcycle(v) THEN MotorcyclePadding ELSE Padding
        px == (v.x2 - v.x1) * padding
        py == (v.y2 - v.y1) * padding
    IN  [x1 |-> Upper(0, (100 * v.x1 - px) \div 100),
         y1 |-> Upper(0, (100 * v.y1 - py) \div 100),
         x2 |-> Lower(scene.w, (100 * v.x2 + px) \div 100),
         y2 |-> Lower(scene.h, (100 * v.y2 + py) \div 100)]

ScanCar ==
    /\ pc = "vehicles" /\ vehicles # <<>> /\ ~IsMotorcycle(Head(vehicles))
    /\ LET crop == CropOf(Head(vehicles))
       IN  \E s \in Sightings(crop, PlateConf) :
              /\ all' = all \o ShiftAll(Boxes(crop, s), crop.x1, crop.y1)
              /\ sighted' = sighted \cup Sighted(s)
    /\ vehicles' = Tail(vehicles)
    /\ UNCHANGED <<pc, options, pass, tiles, local, result, whole>>

\* _detect_plates_multiscale: one inference of the crop at the next scale.
ScanMotorcycle ==
    /\ pc = "vehicles" /\ vehicles # <<>> /\ IsMotorcycle(Head(vehicles)) /\ pass < Scales
    /\ LET crop == CropOf(Head(vehicles))
       IN  \E s \in Sightings(crop, MotorcycleConf) :
              /\ local' = local \o Boxes(crop, s)
              /\ sighted' = sighted \cup Sighted(s)
    /\ pass' = pass + 1
    /\ UNCHANGED <<pc, options, vehicles, tiles, all, result, whole>>

\* _ocr_sliding_window_scan: text that looks like a plate makes one box of the
\* bottom 70% of the crop, at half the confidence of the text.
Window(crop, c) ==
    LET w == crop.x2 - crop.x1
        h == crop.y2 - crop.y1
    IN  <<[x1 |-> 0, y1 |-> (3 * h) \div 10, x2 |-> w, y2 |-> h, conf |-> c \div 2]>>

OcrScan(crop) ==
    {<<>>} \cup IF crop.x2 - crop.x1 < 20 \/ crop.y2 - crop.y1 < 20
                THEN {} ELSE {Window(crop, c) : c \in Confidences}

\* After the last scale: the boxes of all scales merged, or the OCR's window.
EndMotorcycle ==
    /\ pc = "vehicles" /\ vehicles # <<>> /\ IsMotorcycle(Head(vehicles)) /\ pass = Scales
    /\ LET crop == CropOf(Head(vehicles))
       IN  \E boxes \in IF local = <<>> /\ hasOcr THEN OcrScan(crop) ELSE {NMSIfMany(local)} :
              all' = all \o ShiftAll(boxes, crop.x1, crop.y1)
    /\ vehicles' = Tail(vehicles)
    /\ pass' = 0 /\ local' = <<>>
    /\ UNCHANGED <<pc, options, tiles, result, sighted, whole>>

EndVehicles ==
    /\ pc = "vehicles" /\ vehicles = <<>>
    /\ result' = NMSIfMany(all)
    /\ pc' = "done"
    /\ UNCHANGED <<options, vehicles, pass, tiles, local, all, sighted, whole>>

Next == \/ DetectWholeFrame \/ StartTiled \/ SliceFrame \/ ScanBatch \/ FullFramePass
        \/ DetectVehicles \/ ScanCar \/ ScanMotorcycle \/ EndMotorcycle \/ EndVehicles

Spec == Init /\ [][Next]_vars

-------------------------------------------------------------------------------
(* Properties *)

Done == pc = "done"

\* Without an OCR engine, every plate that some pass saw is reported where it is in the
\* frame, with the best confidence it was seen with: no crop, tile, scale or merge loses
\* or moves it.  With one, the window of its scan of a motorcycle enters the same merge and
\* may take the place of a plate's box.  (The merge of vehicles may prefer another plate,
\* see OnePerVehicle.)
BestSightingSurvives ==
    Done /\ ~merging /\ ~hasOcr => \A s \in sighted :
        \E b \in Range(result) : Inside(b, s[1]) /\ b.conf >= s[2]

\* What the overlap of the tiles is for: in a tiled frame, a plate no longer than the
\* overlap whose corners lie in scanned tiles lies whole in one of them.
Corners(p) == {[x1 |-> x, y1 |-> y, x2 |-> x + 1, y2 |-> y + 1] :
                   x \in {p.x1, p.x2 - 1}, y \in {p.y1, p.y2 - 1}}
SeamPlatesSeenWhole ==
    pc = "batches" /\ tiles = <<>> =>
        \A p \in scene.plates :
            /\ Upper(p.x2 - p.x1, p.y2 - p.y1) <= TileSize - Stride
            /\ \A c \in Corners(p) : \E t \in Range(Tiles) : Inside(c, t)
            => p \in whole

\* With vehicle_merge: no two reported plates are near enough to be of one vehicle,
\* however the clusters grew, and the best sighting of the frame is reported.
OnePerVehicle ==
    Done /\ merging =>
        /\ \A i, j \in DOMAIN result : i # j => ~Close(result[i], result[j])
        /\ \A s \in sighted : \E b \in Range(result) : b.conf >= s[2]
=============================================================================
