SPECIFICATION SketchSpec
CONSTANTS
    Node = {1, 2, 3}
    Broadcast = 255
    Typists = {1}
    MaxTyped = 2
INVARIANT ReplyFromUltimateRouter
