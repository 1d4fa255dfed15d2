SPECIFICATION Spec
CONSTANTS
    package = package
    taplo = taplo
    s = s
    t = t
    None = None
    TaploFiles <- OneDocument
    ConfigSchema = t
    Documents <- BothDocuments
    Schemas <- BothSchemas
    Texts <- SomeTexts
    Settings <- SomeSettings
    Extensions <- OneExtension
    MaxMessages = 5
INVARIANTS
    RulesFollowText
    ChoiceWins
    ToldIsTrue
PROPERTIES
    OthersKeepTheirSchema
