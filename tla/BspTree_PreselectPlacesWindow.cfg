SPECIFICATION Spec
CONSTANTS Window = {a, b, c}
          NoWindow = NoWindow
          Root = Root
          Pseudo = Pseudo
          MaxNode = 5
          SpawnLeft = TRUE
          Layouts <- NoLayout
SYMMETRY WindowSymmetry
INVARIANT PreselectPlacesWindow
CHECK_DEADLOCK FALSE
