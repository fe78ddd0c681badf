SPECIFICATION Spec
CONSTANTS
    Lines = 12
    VrstLines = 3
    FieldTop = 8
    Rows = 2
    RowLines = 4
    SpriteLines = 4
    Font <- MCFont
    Scenes <- MCScenes
    BlindUntil = 1
    MaxFrames = 2
INVARIANTS
    TypeOK
    HorizonSound
    HindsightSound
    CollisionsAgree
    PictureAgrees
PROPERTY
    DocumentedCharline
