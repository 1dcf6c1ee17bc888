SPECIFICATION Spec
CONSTANTS Window = {a, b, c}
          NoWindow = NoWindow
          Root = Root
          Pseudo = Pseudo
          MaxNode = 7
          SpawnLeft = TRUE
          Layouts <- MCLayouts
SYMMETRY WindowSymmetry
INVARIANTS
    ProperTree
    EachWindowOnce
    PointersAreSound
    NoLeak
CHECK_DEADLOCK FALSE
