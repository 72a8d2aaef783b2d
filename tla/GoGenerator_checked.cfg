SPECIFICATION CallSpec
CHECK_DEADLOCK FALSE
CONSTANTS
    Prims = {"uint8", "bytes", "int16", "float32", "string"}
    Idents = {"a", "b", "c", "A", "error", "ie", "nf", "p", "q"}
    Fixed = {"c", "ie", "nf"}
    NotFound = "nf"
    InvalidArguments = "c"
    Internal = "ie"
    Exported = {"A", "B", "C", "Error", "ImportBinding", "P", "Q", "E", "NF", "IE"}
    Keywords = {"go"}
    MaxDepth = 4
    Key <- MCKey
    Pascal <- MCPascal
    Camel <- MCCamel
    ImportJobs <- MCSharedJobs
    ExportJobs = {}
    Reexports <- MCReexports
    ToWire <- MCToWire
    WireOrder <- MCWireOrder
    ReservedWords = {"type"}
    Layouts <- MCLayouts
    Radix = 4
    Width <- MCWidth
    Signed = {"int16"}
    Floats = {"float32"}
    MaxInt = 2
    NaNs = {2, 3}
    QuietNaN = 2
    ValidUTF8 <- MCValidUTF8
    PrimSample <- MCSample
    MaxList = 2
    MaxPayload = 4
    MaxFramePayload = 6
INVARIANT NothingLeftToCheck
