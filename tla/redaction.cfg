SPECIFICATION Spec
CONSTANTS
    Classes <- Three
    ArrayLike <- Lists
    Types <- AllTypes
    Nesting <- Heights
    Tables <- AllTables
    Keys <- AllKeys
    Documents <- AllDocuments
INVARIANTS SecretsMasked OnlySecretsMasked
